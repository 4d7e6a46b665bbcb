# A TLA+ model of aioslsk

aioslsk is an asyncio client for the SoulSeek file sharing network. Everything
runs in one thread: what makes it hard is that every `await` lets other
coroutines run, that peers and the server answer late or never, and that tasks
are cancelled wherever they happen to wait. The modules here model the parts
whose correctness depends on that, TLC checks them on small instances and
TLAPS proves some of the results for every size. Source paths below are
relative to `src/src/aioslsk/`.

## Inventory

| Part | State it keeps | Operations | What makes it hard | What makes it correct |
|---|---|---|---|---|
| Transfer states (`transfer/state.py`, `transfer/model.py`) | the state object of a transfer, fail and abort reason, `remotely_queued`, `local_path`, a lock, two task handles | `queue`, `initialize`, `start_transferring`, `complete`, `incomplete`, `fail`, `abort`, `pause` | an operation is looked up before the lock is awaited; `abort` and `pause` cancel and await tasks with the lock held; done-callbacks clear handles | a transfer only makes the moves its state allows; stopping ends |
| Uploads (`transfer/manager.py`) | list of transfers, management queue and flags | management cycle, upload tasks, peer requests, application calls, shares cycle | slots are counted before the tasks that take them have run; eight awaits in an upload that can each fail; requests that arrive during a cycle | no more uploads than slots, one per user, no slot leaks, no request is lost |
| Downloads (`transfer/manager.py`) | the same list, futures of file connections | queue remotely, offers, refusals, receiving, application calls | the peer decides when it offers or gives up; offers race with aborts; an interrupted download must be asked for again | a processing download has a task; an aborted one leaves no file |
| User tracking (`user/manager.py`) | per user: wanted flags, state, queue of requests, task, retry task | track, untrack, retry, disconnect | requests arrive while the server is being asked, while the task ends, while a retry is due | the server watches a user exactly while somebody wants it |
| User manager (`user/manager.py`) | weak table of users, copy of friend and block lists | server messages, comparing the lists once a second | settings change at once, the event comes later | changes are noticed |
| Distributed network (`distributed.py`) | parent, children, distributed peers with branch level and root, potential parents | connection events, branch messages, server parameters | awaits between choosing a parent and telling everybody; connections that close meanwhile | parent and children are open connections; children and server know our place |
| Peer connections (`network/network.py`, `network/connection.py`) | connections and their states, the list of them, expected connections and responses | connect directly, indirectly, or both in a race; accept; close; cancel | timeouts race with late answers; the losing attempt is cancelled while it succeeds | a call ends with the right connection or none; what is open is listed |
| Server session (`client.py`, `network/network.py`, `network/connection.py`) | state of the connection, session of the client and of each service, watchdog, reader, ping | connect, login, announce, read, reconnect, disconnect, stop | three tasks that log in, read and close; the session is announced to eight services that may suspend while the connection closes | the session is that of the connection and shared by all; what was lost is regained, what was closed on purpose is not |
| Rate limiter (`network/rate_limiter.py`) | bucket, time of the last refill | take, refill, copy | rounding, idle time | the limit |
| Obfuscation, tickets (`protocol/obfuscation.py`, `utils.py`) | a key, a counter | encode, decode, next | wrap-around | decode inverts encode, tickets are distinct |
| Rooms (`room/manager.py`, room commands) | rooms with users, members, operators, tickers; futures of commands | messages of the server, commands, favourites at login | several messages describe one change, commands race with what others do, the connection is lost | the table is the server's when nothing is under way; an answered command sees its effect |
| Search (`search/manager.py`, search commands) | table of requests, timers, wishlist task, two generators of tickets | search, time out, remove, replies | timers against removal and reuse of tickets; the wishlist is cancelled with the connection | results go to their request; a request ends |
| Shares (`shares/manager.py`) | shared directories, the items of each, an index of terms, a cache | scan, add, remove, update, query, browse, find | a scan runs in an executor while directories change and other scans finish; nested directories | searching, browsing and downloading show a peer the same files |
| Interests, commands, events, settings, naming, UPnP, messages | | | declarations, plain I/O or data | |

The parts interact through the event bus, which awaits each listener in turn
(`events.py`), through direct calls (`TransferManager` asks the shares manager
for a file, the user manager for a status and the network for connections) and
through the settings, which everybody reads at any time.

## Modules

| Module | What it models |
|---|---|
| `TransferState` | the fields of a transfer and what each operation of each state class does to them |
| `TransferLoop` | the event loop: the FIFO of ready callbacks and its turns, coroutines, the transfer's lock, cancelling and awaiting tasks, done-callbacks, the management task, stopping and starting the client |
| `Uploads` | the upload side of `TransferManager` on top of `TransferLoop` |
| `Downloads` | the download side of `TransferManager` on top of `TransferLoop` |
| `MCUploads`, `MCDownloads`, `MCDistributed` | instances for TLC |
| `Tracking` | one user's entry in `UserTrackingManager`, its tracking task and timer, the connection to the server |
| `Watch` | what tracking promises, without requests, messages or retries; `Tracking` implements it |
| `Distributed` | one client's place in the search tree: `DistributedNetwork` and the distributed connections |
| `Session` | the connection to the server, the tasks that log in, read, ping and watch, and the session on it |
| `Search` | searches, their tickets, table and timers, and the wishlist, on top of `Session` |
| `Rooms` | the rooms the client knows, the server's rooms, the messages between them, and the commands |
| `PeerConnect` | the attempts of `create_peer_connection`, connections that peers make, and the list of connections |
| `Shares` (instance `MCShares`) | shared directories, their items and the index of terms, scans in the executor, the files on disk |
| `TransferLoop_proof`, `Uploads_proof`, `Downloads_proof`, `Rooms_proof`, `Tracking_proof`, `Session_proof` (also of `Search` and `Shares`), `Distributed_proof`, `PeerConnect_proof` | theorems and proofs |

### How the code corresponds to the model

**Coroutines.** A coroutine is a record in `co`: the transfer it works for, its
job, where it is suspended (`pc`), and, while it is in an operation of a state
object, the class the operation was looked up on. A callback of the loop is an
element of `ready`. An action runs the callback at the head of `ready` up to
its next suspension, as `asyncio` does, so that code between two awaits is
atomic and nothing else is.

**Turns.** `asyncio` runs the callbacks that were ready at the beginning of a
turn and polls for I/O and timers only between turns. `left` counts what is
left of the turn: only at 0 can the outside (I/O, timers, calls of the
application, messages of peers) put callbacks behind those that are ready. So
a callback that two steps of one turn schedule is not overtaken by the outside,
and two messages may still arrive in one turn.

**State operations.** `Enter` is `await transfer.state.op(...)`: the class is
bound first (`_wrap_lock`), then the lock is taken or queued for
(`_with_state_lock`). `Perform` runs the operation; `Hold` is an `abort` or
`pause` that suspends while it awaits the tasks it cancelled or the removal of
the file; `Settle` is the transition, with the listener's request for a
management cycle and the hand-over of the lock.

**Cancellation.** `Task.cancel` marks the task; the `CancelledError` reaches it
at the await where it is. A cancelled task ends at once in the model, while the
code may still await `disconnect` first: nothing can happen to the task in
between that the model does not allow, as the end can be delayed arbitrarily.

**The manager.** `mgmt` is where the management task waits, `wanted` the one
item of its queue, `shares` the flag for a shares cycle. `TransferCycle`,
`SharesCycle` and `SharesCycleEnds` are `_management_job` up to its awaits.

**The outside.** Peers answer, refuse, time out or close as they like; a
choice in an action covers the outcomes of one await. Status, block list and
shares change at any time between two turns. The block list is the settings'
and changes at once, while the event comes later (`BlockListNoticed`).

**Restart.** `Restart` is `stop` and `write_cache` followed by `read_cache` and
`start` in a new process: the tasks are gone, the transfers in the list come
back with the states `read_cache` corrects them to, in the order of the store.
A transfer that is not in the list is forgotten.

### Tracking

Users share nothing but the connection, so `Tracking` models one of them. The
variables `tracked` to `retry` are the user's `TrackedUser`: `at` is where its
task is suspended and `then` where it goes on after `cancel_task` or after the
listeners were told, which several places of the code await. An action is the
code between two suspensions: `TakeRequest` is the body of the loop in
`_tracking_task` up to its first await, `SendAdd`, `AwaitAnswer`, `Timeout`,
`Confirmed` and `Failed` are `_request_tracking` and what follows it, `Forget`
is the done-callback.

`toServer` and `toClient` are the two directions of one TCP connection: in
order and without loss as long as it lasts, empty from `CLOSING` on. Sending is
as in `DataConnection.send_message`: dropped silently on a closing connection,
an exception while there is no stream. A failed write is `WriteError`, which
calls `disconnect` from inside the sending task, as `_send` does.

The server is external: it answers an AddUser with whether the account exists
and watches the user from then on, a RemoveUser ends that, and a lost connection
ends it for everybody.

`Watch` is the abstract specification: `wanted`, the state listeners know, what
the server does or was asked to do, and whether it can be asked. The mapping is
`Promise` in `Tracking`. It says, for instance, that a user is wanted anew only
after listeners were told UNTRACKED, that TRACKED is said only of a user whom
the server watches or was asked to watch last, and that no TRACKED survives to
a new connection.

### Distributed

`Distributed` is one client; the peers around it send what they like. A
connection is used once: `link` says what became of it, `listed` is
`Network.peer_connections`, `asked` and `attempts` are the connections to
potential parents and those whose task still runs. `peers`, `branch`, `parent`,
`children` and `potential` are the fields of `DistributedNetwork`.

Handlers of messages run in the reader of their connection, one at a time:
`reader` says at which await of `_set_parent` (`tasks`, `others`, `server`) or of
`reset` (`children`, `parent`) the reader is, and `awaited` for which connections
or tasks. A reader that waits handles no other message. Handlers of closed
connections run in whatever task closes them: `Closed` is all of it unless the
parent was lost, when the handler waits until the server was told.

Those who tell the server something wait in `sends`. They go on in the order in
which they began: their messages are written in that order, and the loop wakes
them in that order. What the server (`serverTold`) and the children (`told`) know
changes when the message is queued, as messages to one receiver stay in order.
The order matters: `_unset_parent` tells the children "level 0" after that wait
without looking whether there is a new parent, and the new parent's own
announcement comes later only because its wait began later.

`disconnect` on a connection that is being made sets its state but does not stop
`connect`, so the connection comes up later and is used although it is no longer
`listed` (`AfterDisconnect`, `Connected`).

### Session and Search

`Session` has the tasks that touch the connection to the server: the
application (`app`), the watchdog (`dog`), the reader and the ping. Each
variable says at which await its task is; `Busy` is a task that waits for its
own `disconnect`. `conn` is `ServerConnection.state`, and `opens` numbers the
connections, so that a session is named by the connection it belongs to and the
session of an old connection can be told from that of the new one. `stage` is the
listener of `SessionInitializedEvent` that is being called: `Announce` is one of
them, as `EventBus.emit` awaits one after another. `Disconnect` is
`disconnect` up to the wait for the transport with what the listeners of CLOSING
do, `Closed` is the rest with what those of CLOSED do. `Stop` has the three
outcomes of calling `disconnect` on a connection that is up, being made, or
closing already.

`Search` extends it: every step of `Session` is one of `Search` in which the
wishlist task may be cancelled (`WishlistCut`), as the listeners of CLOSING do. A
search draws a ticket (`Draw`), sends, and is entered in the table afterwards
(`Sent`). It gets a timer if the timeout in the settings is positive at that moment:
0, the default of `request_timeout`, keeps the request, and requests of commands never
have one. A message of a search is dropped silently on a closing connection and raises
while there is no stream, where only the ticket is used up (`Unopened`). A ticket is the number of the
draw in its generator; that the generators wrap around at 2^32 is not reached.
`Replied` is where a reply to a search goes.

### Rooms

`truth` is the server's table and `rooms` the client's. The server (external)
tells in `toClient` what it does, in order, and the client handles one message at a
time: a handler is an operator that gives the room after its message (`Joined`,
`MembershipGranted`, ...), and `Handle` is the handler of whatever came. A
command is a record in `call`: sent, waiting for the expected response, answered
once the listeners have returned (`handled`, `CompleteFutures`), and over after its
`handle_response` (`Return`). `Matches` is `ExpectedResponse.matches`. The loss of the connection resets the rooms and drops
both directions; the next session joins the favourites.

### PeerConnect

A call is `create_peer_connection`; the connection it makes itself has its
name, the one the peer makes for it has the name of a socket. `conn` is the
connection with its state, `making` where the task that makes it is, `listed` and
`init` what the network and the peer manager know of it. `closing` is a `disconnect`
that still awaits the transport: it goes on to CLOSED although `connect` or `accept`
may have set CONNECTED over its CLOSING. The direct attempt waits
for the address, then for the transport; the indirect one for the future of the
ticket or for CannotConnect (`future`, `refusal`). `Falls`, `Wins`, `Returns` and `Raises` are
what the call does with what its attempts gave; `Delivers` is `PierceFirewall` reaching the waiter.
Connections may be closed or lost and the call cancelled at any await.

### Shares

A directory lies in those `Below` names; an item is a file
with the directory object it was found for, because `items` outlive the directory
they were found in: a removed directory's items move to the parent and keep
the old object with the old share mode. `walks` are scans in the executor, with
the children that were shared when each began; `Walked` is what comes back. The
index (`terms`) holds items weakly: what is no longer held anywhere may be collected at
any time. `Found`, `Browsed` and `Requested` are what a peer gets from `query`,
`create_shares_reply` and `get_shared_item`. Two variables only record what the
property speaks of: `fresh` are the directories scanned since the last change, and
`overwritten` those of them where a scan that had begun before the change ended later and put
its older items in place of the newer. `Restart` writes the cache, reads it and
loads the settings: the code adds the configured directories that are new one after the
other, each taking items from its nearest parent. `Loaded` gives the result at once: an
item moves to the innermost new directory in its old directory (`Place`), in whatever order
they are added.

## Runs

All bounds are CONSTANTS of the modules, set in the `.cfg` files:

- `Tasks`, `Calls`: identities of tasks and of calls and handlers. A task's
  identity is reused when nothing refers to the task any more; a cycle that
  would need more waits until one is free, which only delays it. A call's
  identity is used once, so `Calls` bounds how many calls and messages come.
  When they are used up and the peers stay silent the system may stop, which is
  why the configurations switch the check for deadlocks off.
- `Backlog`: the outside joins only while fewer callbacks are ready. Two is
  enough for a call and a message, or a call and the end of some I/O, to fall
  into one turn behind the management task; three adds one more.
- `MaxChanges`: how often the world (status, block list, shares, a failed upload,
  a restart) changes.
- `CachedStates`: states of the transfers that come from the cache.

| Run | Bounds | What it shows |
|---|---|---|
| `uploads_slots` | 5 uploads in two cases: 2 of one user, or 1 of each of 3 users; 2 slots, 3 tasks, 1 call that queues, backlog 3 | the limit of slots holds although the cycle counts slots before the tasks it created have taken theirs; a user is not served twice, whenever the uploads are queued again |
| `uploads_stops` | 1 upload, 3 tasks, 2 calls of every kind, 1 change | no path through errors, aborts, pauses, removal, blocking, unsharing or a restart leaks a slot; no management request is lost |
| `uploads_live` | 1 upload, 3 tasks, 1 abort or pause, 1 change of the block list, backlog 3 | calls that stop a transfer return, and requested cycles take place |
| `downloads` | 1 download from three stored states, 3 tasks, 2 calls of every kind, 1 change | a DOWNLOADING download is being received; interrupted downloads are asked for again |
| `tracking` | 2 flags, 4 requests, 2 losses of the connection, 1 answer that is too late, 1 failed write | tracking implements `Watch`; nobody stays watched whom nobody wants; no retry is lost; in the end the server is in step unless a write failed |
| `distributed` | 3 connections to 2 users, 2 of them to potential parents, levels 0 and 1, 3 messages, 1 child at most, 1 lost session | after no order of events is there a parent that is gone, a candidate that is neither taken nor refused, or a search of the server that disagrees with us; children are told our place; nobody waits for ever |
| `session` | 3 losses or refusals, 2 WishlistIntervals, 1 search, 1 search command, 1 wishlist item | the session is that of the connection and every service has it; somebody reads, one at a time; a lost session is regained, a closed one is not; a request entered with a timeout ends; a request gets no other's results |
| `rooms` | a public and a private room, 1 other user, 2 changes by others, 1 command, 1 lost connection | the client's rooms are the server's whenever nothing is under way; an answered command finds its effect; favourites are joined again with `AutoJoin` off, which is when the code joins them |
| `rooms_favorites` | 1 command, 1 change, 1 lost connection, `AutoJoin` on | a violation, see below |
| `peer_connect` | 1 call in either mode, 1 request of the server, 1 connection of a peer, 2 closings, losses or cancellations | a call that is over leaves nothing running and has the right connection; what is open is listed; calls end |
| `shares` | 2 nested directories with a file each, 2 modes, 2 changes of files, 3 calls that change what is shared, 3 scans | a file whose directories were all scanned after the last change is searched, browsed and downloaded as the disk and the share modes say, unless an older scan ended later in one of them |
| `uploads_abort` | 1 upload | a violation, see below |

The hazards are races of two or three coroutines over one transfer, or of a few
transfers over the slots, so one to three transfers at a time, three tasks (one running,
one whose done-callback is still to come, one new) and one or two calls make them
happen; TLC reports every action and every alternative of the next-state
relations as taken.

`SlotLimit` and `OneUploadPerUser` are checked with calls that only queue; that the
peers' requests keep them as well is proved (`Undisturbed`, below), and `uploads_stops` runs
those requests. With aborts
and pauses neither can hold: an `initialize` bound to QUEUED waits for the lock behind
the abort and takes a slot for the ABORTED upload after a cycle gave that slot to
another; the loss of a task's handle (`uploads_abort`) leaves stray tasks as well.

Four requests are enough for track, untrack, track and untrack with a retry
between any two of them, and the two losses for a reconnection that fails or is
lost again. Once requests, losses and answers are used up the system may stop.

Three messages let one parent complete its values and change them, or let two
candidates compete; three connections are a parent, its successor and a child,
in any roles. `ChildrenInformed` is stated of one session because the code does
not tell the children when a parent is lost without one, and
`ClosedIsForgotten` excludes failed writes to the server because then
`_on_state_changed` raises before it forgets the peer.

Three losses are a session that is lost, a reconnection that fails and another loss
during the next login or announcement. Two intervals are the second of one connection,
which ends the reader (see below), or one on each of two; `ReaderLoops` is stated while
fewer than two came, because a second one contradicts it. One request of each kind is enough: two draw
from each pair of generators, and a ticket taken twice is a collision.

Two changes by others with one command put a message before, between and after the
messages of the command, and let the room be granted and revoked, or be left and
joined, around it. `RoomsAgree` compares only when nothing is under way, and only what
the messages tell the client: of a room it is not a member of, not the members.

In `peer_connect` the two closings may hit the connection of the call, that of the
peer and the one to the server, in every combination, before and after each await.

`PeersSeeAlike` is stated of each file, and what is scanned or changed around other files
does not matter. It excepts three things the code does and the run would report at
once: a directory in which a scan begun before the last change ended after the newer
one (`overwritten`), a directory that is removed and shared again (`gen`), and items
that nothing holds any more but the collector has not taken from the index.

### Fairness

`uploads_live` assumes that the loop runs every callback that is ready and goes
on to the next turn, that the pause of the management task ends, and that I/O
that was cancelled comes back. `asyncio` guarantees the first, timers the
second, cancellation the third. Nothing is assumed of peers, users or the
application. The pause and the end of cancelled I/O need strong fairness because
they can only join `ready` between turns.

`tracking` assumes that the loop runs the tracking task, that timers fire, that
the server handles what it is sent and its answers are handled, that closing a
connection ends and that the watchdog connects again. `Connecting` needs strong
fairness: the watchdog sleeps for ten seconds, in which the task comes to a wait
of more than one turn (`Waits`), but is not there at every moment. Nobody has to
ask and the account need not be created.

`session` assumes that the loop runs every task that is ready, that a login is
answered, refused or ends with the read timeout, that connecting and closing end
(both have timeouts), and that timers fire. `HandlersAreShort` is a bound on time: the
watchdog sleeps longer than a handler, an announcement or a failing login takes.
`SessionRegained` then holds of every connection the watchdog watches unless the
server refuses, closes it, or the application stops; nothing is assumed of the
server, which may fail up to the bound. `RequestEnds` rests on timers
alone and speaks only of requests that were entered with a positive timeout.

`rooms` assumes that the server handles what it is sent and messages are handled, and
that the client logs in again; `peer_connect` that connecting, closing and the indirect
attempt end, as they have timeouts, and that the server answers a request for an address
while it is there. Nothing is assumed of peers.

### Disagreements

The runs `uploads_abort` and `rooms_favorites` state what a docstring and the
documentation of the settings say, and TLC finds executions of the code that
contradict it. The others were met while modelling, and with other properties the
models show them:

- `uploads_abort`: a task ends, the cycle creates a new one for the same
  upload before the done-callback of the old one has run, and the callback
  clears the new handle (`transfer/model.py:363`). An abort then cancels nothing
  and the upload goes on.
- Downloads: an offer that is handled while an abort removes the file
  creates a receiving task (`transfer/manager.py:1419`), which does not look at
  the result of `initialize` and writes the file of an ABORTED download.
- Downloads: two offers in one turn create two receiving tasks. When the first has
  completed, the application may queue the COMPLETE download again, which resets its
  path, and a third offer makes it INITIALIZING; the second task then carries out its
  `start_transferring`, finds no path and raises (`transfer/manager.py:1105`, "no cover"):
  the download stays DOWNLOADING with nobody receiving. It takes four calls and
  three tasks; `DownloadingHasTask` excepts it by asking only for downloads with a path.
- Downloads: when the offset cannot be sent, `incomplete` is called in
  INITIALIZING, which does not define it (`transfer/manager.py:838`): the
  download stays INITIALIZING for ever.
- Tracking: a write to the server fails. `_send` disconnects in
  the task that `send_server_messages` created and the tracking task awaits; the
  handler of CLOSED awaits the tracking task (`user/manager.py:719`). Each waits
  for the other, and requests for the user are never handled again.
- Tracking: a request to track that is queued after the task returned and
  before its done-callback has run goes with the entry (`user/manager.py:710`),
  which is what the comment at `user/manager.py:577` wants to prevent.
- Session: `stop` after a login that timed out returns at once, because the connection
  is CLOSED already (`network/connection.py:254`); the watchdog goes on and
  connects again (`network/network.py:387`).
- Session: a second WishlistInterval on a connection cancels the wishlist task and
  awaits it; its CancelledError goes through the handler and ends the reader
  (`search/manager.py:405`), although the loop is to run "until the connection is
  closed" (`network/connection.py:295`).
- Search: commands take their tickets from the client's generator (`commands.py:554`),
  the manager from its own, and both enter the same table. A command and a search
  get the same ticket: results go to the wrong one, and the timer of the one removes
  the other. "The results generated by this query will stored in the returned object"
  (`search/manager.py:115`). Requests of commands have no timer. A timer whose
  request was removed raises KeyError (`search/manager.py:328`).
- `rooms_favorites`: favourites are joined only when `auto_join` is off
  (`room/manager.py:537`), which it is not by default (`settings.py:154`).
  `docs/source/SETTINGS.rst:134` says of it "Automatically rejoin rooms when logon is
  successful", and line 138 that favorites "will automatically be joined".
- Distributed: `docs/source/DESIGN.rst:71-76` says that a branch root, which gets
  ServerSearchRequest and has no parent, advertises `ToggleParentSearch: false`. The code
  sends no such message on that request (`distributed.py:403-421`): the server is asked to
  look for a parent exactly while there is none, branch root or not, and that is what
  `ServerKnowsSearch` states. Its event changes nothing the model has.
- Rooms: a command to leave or drop a room may raise KeyError in
  `handle_response`, when the room list that follows removes the room first.
- Peer connections: the wait for an address has no timeout (`network/network.py:690`); a
  connection that is closed while it is made comes up unlisted; one whose task is
  cancelled while it opens stays listed; a second success of a race, completed while
  it is cancelled, stays open; accepting sets CONNECTED after a close
  (`network/connection.py:186`); a future that was cancelled in the same turn makes
  `set_result` raise.
- Shares: of two scans of a directory at once, the one that ends last decides: if it
  began earlier, it removes the items that the other found and puts back those it did not
  (`shares/manager.py:565-573`), until the next scan, while `docs/source/USAGE.rst:606` says "newly
  found items will be added and items that are no longer present will be removed".
- Shares: a directory that is removed and added again leaves items with the old
  object and mode even after a scan; items of a removed directory are found until the
  collector runs; items moved to the parent keep the removed directory's mode until a
  scan, while the docstring (`shares/manager.py:469-471`) says that the file "will be shared with
  EVERYONE again"; reading the cache gives moved items wrong paths until a scan; adding a child during
  its parent's scan lists items twice until the next one.

An operation bound to one state and run in another (`transfer/state.py:19`) can
also make a move its transfer's state does not define: `initialize`, bound to
QUEUED, waits for the lock behind an abort and makes the ABORTED upload
INITIALIZING. An upload that was interrupted by stopping the client is
INCOMPLETE afterwards (`transfer/manager.py:159`), a state "only used for
downloads" (`transfer/state.py:314`), and is not taken up again. A new level or root of
our parent is passed on to the children (`distributed.py:449`) and not to the
server, which `docs/source/DESIGN.rst:111` asks for too. The models have this
behaviour.

## Proofs

`Uploads_proof` proves, for any finite set of uploads, any tasks, calls, users,
ranks and number of slots, under `LoopAssumption` and `UploadsAssumption`:

- `TypeCorrect`: `Spec => []TypeOK`;
- `NoSlotLeaks`: `Spec => []SlotHasDriver`, the main result about uploads;
- `Inductive`: `Spec => []UploadsInv`, from which both follow;
- `NoRequestLost`: `Spec => []NoLostRequest`;
- `SlotsRespected` and `UsersServedOnce`: `Undisturbed => (Spec => []SlotLimit)` and the
  same for `OneUploadPerUser`.

Neither of the first two is inductive by itself. `TypeOK` needs to know that a coroutine
that waits for a lock carries a real operation of a real class (`Works`), for
when the lock is granted these become the transfer's fields. `SlotHasDriver`
needs three more facts: a handle names a task of its own upload (`HandleOwned`),
so that an abort cancels no task of another upload and starves it of its
driver; an operation that was suspended moves on to a state that takes no slot
(`Stopping`); and only a task carries the operations that take a slot, and goes
on where it drives the upload (`TakesSlot`). Steps of the loop are treated once
in `TransferLoop_proof`, as lemmas about what `Settle`, `Hold`, `Perform` and
`Enter` preserve, and `Uploads_proof` adds what they do to slots.

`NoLostRequest` is inductive on top of `UploadsInv`. Every upload that the next cycle
would choose (`Chosen`) is served: a cycle is requested or running, or a task has not yet
begun or waits to be initialised, or an operation holds the upload's lock, which ends in
a transition that requests a cycle. The proof needs that the choice depends on the
states, the list and the status alone (`ChosenSame`), and that a step which makes an
upload eligible also requests a cycle.

`Undisturbed` says that the application does not abort, pause or remove, and that
block list and shares do not change; queueing, the peers' requests, failures, statuses,
restarts and any number of cycles remain. The cycle counts slots in states, and its tasks take them
later, so the limit needs a second invariant, `CalmInv`. `Calm`: nobody
holds a lock while others run. `FifoInv`: the FIFO holds at most one callback of the management
task, and the first step of every task comes before it; so when a cycle runs, the tasks
of the last one have taken their slots. `ClaimInv`: the uploads that are processing or whose
task has not begun (`Claimed`) are listed, are at most `Slots` and have different users. That a
cycle keeps this is a fact about its choice: no more are chosen than are free
(`ChosenFew`, by an injection into the free slots), and those chosen have
different users, who have no upload under way (`ChosenApart`). With `remove`, `blocked` or
`shared` TLC finds no violation on instances of two uploads either, but locks are then held across callbacks,
`CalmInv` fails, and nothing is proved.

`Downloads_proof` proves, for any finite set of downloads, any tasks and calls, under
`LoopAssumption` and `DownloadsAssumption`:

- `TypeCorrect`: `Spec => []TypeOK`;
- `NeverAbandoned`: `Spec => []DownloadingHasTask`;
- `RetriesIncomplete`: `Spec => []IncompleteRetried`;
- `Inductive`: `Spec => []DownloadsInv`, from which they follow.

`DownloadsInv` has the shape of `UploadsInv`: handles name tasks of their own download, an
operation that was suspended is one that stops the download, and `start_transferring`
is carried only by a task that receives afterwards (`TakesOver`). Both properties speak of a
task that waits for the lock; they are inductive because what it carries was looked up in
a state that nobody changes without the lock, or because whoever holds the
lock goes on to a transition. The case of two receiving tasks (above) was found when this proof failed.

`Rooms_proof` proves, for any finite sets of rooms and users, any commands and bounds, under
`RoomsAssumption` and `NoneAssumption`:

- `TypeCorrect`: `Spec => []TypeOK`;
- `AnswersAreVisible`: `Spec => AnswerIsVisible`;
- `RoomsFollow`: `Spec => []RoomsAgree`;
- `RoomsInvariant`: `Spec => []RoomsInv`, from which the first two follow.

`RoomsInv` says what messages there may be (`Message`: four kinds are only ever about
ourselves, which `MembershipRevoked` relies on), that a command that waits has an answer,
and that what the last handled message says is in the rooms until its futures are
completed (`HandledShown`): between the two the rooms change only when the connection is
lost.

`RoomsAgree` speaks of the moments when no message is under way, so what is inductive is
about the messages that are (`Follows`): handled in order, they bring each room of the
client to the server's. `Brings(r, messages, from, to)` says this with a set of possible
rooms between every two messages, like the assertions between the statements of a
program, so messages can be followed one after the other (`BringsOn`) and a handled one
dropped (`BringsRest`). For each change of the server one lemma (`JoinsTells` to
`DisownsTells`, together `DoesTells`) takes the room through the messages that tell of it.
`Same` divides agreement into `Presence`, who is there, and `Rights`, what they
are. The handlers of a change give up `Rights` for a while: `_on_operator_granted` takes out
the operator it should add, `_on_room_list` adds rooms without their members.
`Presence` is kept throughout, which is why a list that comes at any time, even to a client
that knows no room, ends in agreement (`ListUpdateSays`). Of the server this needs that
only members are in a private room and only members are operators (`ProperRoom`, kept by every change).

`Tracking_proof` proves, for any set of flags and any bounds, under
`BoundsAssumption`:

- `TypeCorrect`, `NoGhostIsTracked`, `RetryIsKept`, `RemoveIsSentOnce`: the
  invariants the run `tracking` checks;
- `TrackingImplementsWatch`: `Spec => Promise!Spec`, the safety part of the
  refinement: initial states map to initial states, and every action maps to a
  step of `Watch` or changes nothing there;
- `KnownTracked`: `Spec => []TrackedIsWatched`, a fact that follows from it;
- `TrackingInvariant`: `Spec => []TrackInv`, from which they follow.

`TrackInv` adds to the properties what makes them inductive: which flags, state
and timer go with the place where the task is (`TaskInv`, `RetryInv`), what can be
under way on a connection in each of its states (`LinkInv`), that a task that asked
is waiting for an answer to the last message sent (`AskInv`), and that
RemoveUser is the last message only while nobody wants the user (`LeaveInv`).

`Session_proof` proves, for any number of losses and intervals, of every behaviour of
`Search`, which runs the session and the searches together:

- `SessionInvariant`: `Spec => []SessionInv` of `Session` alone, and
  `SearchesKeepSession`: a step of a search is a step of the session or leaves it alone;
- `TypeCorrect`, `OneSession` (`SessionAgrees`), `ClosedStaysClosed` (`EofIsFinal`) and
  `SomebodyReads` (`ReaderLoops`), which follow.

`SessionInv` adds to these properties that application and watchdog never connect
(`OneConnects`), log in or announce (`OneLogsIn`) at the same time and that no reader
runs meanwhile: two that announce would give services different sessions. `Told`
says who has the session while an announcement is at its n-th service, `LossesCount`
that a connection is made again only after a loss, and `Helping` that the wishlist
task belongs to an open connection.

It also proves, for any finite sets of searches, commands and items of the
wishlist, under `SearchAssumption`, `SearchTypeCorrect` and `ResultsGoToTheirRequest`
(`ResultsBelong`). Requests of one generator have different tickets (`TicketsDiffer`)
because a ticket is at most the number drawn so far (`TicketsCount`), and the table
holds a request under its own ticket (`TableKnows`). The generators do not wrap around
in the model, as they do after 2^32 tickets in the code, and `ResultsBelong` excepts
the collisions of commands described above.

The same module proves of `Shares`, for any finite tree of directories, any files, modes
and bounds, under `SharesAssumption` and `TreeAssumption` (paths are a tree: among
directories around the same one there is an innermost):

- `SharesTypeCorrect` (`SharesTypeOK`) and `PeersAgree` (`PeersSeeAlike`);
- `SharesInvariant`: `SharesSpec => []SharesInv`, from which they follow.

`SharesInv` says that a walk which nothing outdated found what a walk would find now, and
that a directory which is fresh and not overwritten holds exactly that (`Current`); that items and walks belong to
objects that exist (`Kept`), so that a directory shared only once has items of its present object;
and that objects are counted within the bound (`Counted`). The step that matters
is the end of a walk: `Applied`, which joins and subtracts sets whose equal elements are not
the same, leaves just what was found when no older object is left (`AppliedIs`). From
there the properties of a tree give that a file is in the one directory whose children do not
have it, its innermost one (`HomeIs`). `PeersAgree` is about a file whose own directories
are up to date while others need not be, so it also needs that no other directory holds an
item of the file: items lie in the directory that holds them, wherever additions, removals and
restarts moved them (`Contained`).

`Distributed_proof` proves, for any finite set of connections of any users and any
levels, limits and bounds, under `DistributedAssumption`:

- `TypeCorrect`, `ParentAndCandidates` (`ParentAgrees`), `ForgottenWhenClosed`
  (`ClosedIsForgotten`), `SearchIsKnown` (`ServerKnowsSearch`), `ChildrenKnowPlace`
  (`ChildrenInformed`) and `NoCircle` (`AwaitedEnds`): the invariants the run
  `distributed` checks;
- `DistInvariant`: `Spec => []DistInv`, from which they follow.

The handlers suspend while others change what they read, so `DistInv` says who is
where. A peer was connected, and nothing is known of who is none (`PeersKnown`).
The values of a parent stay complete, so that there is always a place to tell
(`ParentComplete`). Who waits for a message to the server waits for exactly one
(`SendsKnown`, `ReadersKnown`). While nobody is on the way from setting a parent to
telling the server, the server knows whether we search (`ServerTold`). The children
are told, or the last of those who still wait for the server tells them
(`ChildrenTold`): an earlier one may do so with values of its own time, and it is
this order that `ChildrenInformed` needs.

`PeerConnect_proof` proves, for any sets of calls, requests and sockets and any
bound on closings, under `PeerConnectAssumption`, `TypeCorrect`, `CallsLeaveNothing`
(`CallsSettle`), `OpenIsListed` (`ListedWhileOpen`) and `PeerInvariant`:
`Spec => []PeerInv`. The assumptions only keep the names of calls, requests, sockets
and of a future's states apart. `PeerInv` says of each connection that there is no transport
before it is opened, that while it is open or being opened it is listed, or was
disconnected early, that `closing` goes with an open transport, and that who is done made it
initialised (`Sound`; of accepted sockets `SoundSocket`). Of each call it says that its
futures are pending only while its indirect attempt waits, that a future that got a
socket has one made with its own ticket, and that the result is one of these or was
found before anything was tried (`CallOK`). No step takes back that a connection was
initialised or how the task that made it ended (`Later`), so a result stays right
whatever other calls do.

Not proved: `SlotLimit` and `OneUploadPerUser` when uploads may be removed, blocked or
unshared (with aborts and pauses they do not hold, see Runs). Only model-checked: the
liveness properties (`StopReturns`,
`RequestServed`, `InSyncUnlessStuck`, `SessionRegained`, `RequestEnds`, `CallsEnd`,
`FavoritesRejoined` and the fairness part of `WatchKept`),
which are out of the prover's reach together with ENABLED. No recursive operator is used.

## Not modelled

The list of components in `PROJECT.json` says for each part what is left out. In
the modelled parts these are: answers to peers and place-in-queue messages,
progress and speeds, user tracking on behalf of transfers, and the tickets of
file connections: a file connection arrives or times out. Whether a message
could be sent and the connection made is one choice. Searches leave out answering
the queries of peers, rooms the chat, peer connections the kind of connection and the
listening sockets, the session what services do when they start and stop.

Whole parts that are not modelled: the layouts of messages and their serialisation
(`protocol/`), which are data without control; UPnP, plain I/O through a library;
interests, settings, naming and logging, which are declarations; the rate limiter and
obfuscation, whose behaviour is arithmetic over time and keys and interacts with nothing
else here (a full bucket is not refilled and `last_refill` stays old, so the next
refill counts idle time, `network/rate_limiter.py:116`); the user manager's table,
which one handler at a time writes.

## Plan

1. Done: `TransferState`, `TransferLoop`, `Uploads` with proofs, `Downloads`.
2. Done: `Tracking` against `Watch`, with the proof of the refinement.
3. Done: `Distributed` with proof.
4. Done: `Session`, `Search`, `PeerConnect` and `Rooms` with proofs, `Shares`.
5. Done: `Downloads` with proof; `NoLostRequest` and, undisturbed, the slots of `Uploads`.
   `Rooms` and `Shares` entirely but for liveness.
6. `FileConnections`: the table of tickets between uploader and downloader.
7. `Session` composed with `Tracking` on disconnection.
