# A TLA+ verification project for heziMTP

heziMTP is a macOS application that copies files between a Mac and a Nintendo
Switch running an MTP responder (DBI or Sphaira) over USB. All paths below are
relative to the repository; the implementation is under `src/`.

Contents: 1 inventory, 2 how the modules are split and the plan, 3 what each
module models, 4 runs, bounds and fairness, 5 theorems and their proofs,
6 disagreements between code and documentation, 7 what is not modelled.

## 1. Inventory

Three threads run: the **main thread** (AppKit, WKWebView and every bridge
action), the **monitor thread** (`App::device_monitor_loop`) and one **worker
thread** per `TransferEngine`. Four mutexes exist: `App::device_mtx_`,
`MTPSession::mtx_`, `TransferEngine::mtx_` and `App::finder_drops_mtx_`. The lock
order is `device_mtx_` before either of the next two. Much of `App`'s state is
also read or written with no lock at all.

| component | source | state it keeps | operations | talks to |
|---|---|---|---|---|
| TransferEngine | `src/transfer/TransferEngine.*` | `pending_`, `history_`, per item `state`, `cancel`, `bytes_done`, `error_msg`; `shutdown_`; the worker | enqueue, cancel, cancel_all, all_transfers, has_active, destructor, worker_loop | MTPOperations (worker), App (clients) |
| MTPSession transfers | `src/mtp/MTPSession.cpp` 469-601 | bytes sent/written, the file, the data container | `send_data_from_file`, `receive_data_to_file` | the USB bulk pipes |
| MTPSession containers | `src/mtp/MTPSession.cpp` 312-467 | `transaction_id_`, `last_op_code_`, `connected_` | send_command, send_data, receive_data, receive_response, bulk_read, bulk_write | libusb, the device |
| MTPSession lifecycle | `src/mtp/MTPSession.cpp` 81-310 | `ctx_`, `handle_`, `ep_`, ids, claimed interface, `connected_` | find_device, find_endpoints, connect, disconnect, destructor | libusb |
| MTPOperations | `src/mtp/MTPOperations.*` | none (the session's mutex) | get_storage_ids ... create_directory | MTPSession |
| dataset codecs | `src/mtp/MTPOperations.cpp` 8-108, 183-243, `src/mtp/MTPSession.cpp` 12-79 | none | encode/decode strings, arrays, ObjectInfo, StorageInfo, DeviceInfo, property list | the containers that carry them |
| App device lifecycle | `src/ui/App.mm` 76-173, 408 | `session_`, `ops_`, `engine_`, `connected_`, storages | init, shutdown, monitor loop, on_device_connected/disconnected, reconnect | everything below it |
| App browser state | `src/ui/App.mm` 175-407 | `remote_nav_stack_`, `remote_entries_`, `remote_refreshing_`, local panel, status, finder drops | navigate_*, refresh_*, do_*, state_json | MTPOperations, TransferEngine |
| WebUI bridge | `src/ui/WebUI.mm` | the main queue | handleAction, sendRawResult | App, WKWebView |
| front end | `src/ui/webroot/app.js` | `_pending`, `S`, selections, fingerprints | call, bridgeResponse, poll, render*, menu and key handlers | the bridge |
| entry point | `src/main.mm` | the process | start, end | App |
| build, styling | `CMakeLists.txt`, `build.sh`, `cmake/`, `app.css`, `index.html` | - | - | - |

What is hard in each, and what makes it correct (every point is a line of
`hazards` in `PROJECT.json`, with the property that covers it or the reason why
none does yet):

- **TransferEngine.** Clients, worker, monitor scan and destructor interleave
  with few locks: item states and cancel flags are atomics, `error_msg` is not,
  the destructor takes no lock. Correct: first in first out, one at a time, a
  cancelled item that waits never starts, outcomes are final, `has_active` never
  says "idle" during a transfer, the destructor returns, every transfer ends.
- **MTPSession transfers.** The device learns that a phase is over from packet
  sizes alone; files change while they are read, writes fail half way, lengths
  exceed 32 bits. Correct: an upload ends exactly once and whole; a download that
  reports success has the whole payload and leaves nothing in the pipe.
- **MTPSession containers and MTPOperations.** Ids of answers are not compared,
  so one unread or late answer shifts all later ones. Correct: refusals, cuts
  and timeouts leave host and device in step, or get them back into step; no
  foreign command between the announcement of an upload and its SendObject; a
  process that ends in the middle of something does not lock out the next one.
- **MTPSession lifecycle.** The bus is listed twice per attempt and changes
  between any two calls; endpoints are added up over several settings; connect()
  may throw at every step. Correct: the device opened is the one found, its
  endpoints are those of the interface claimed, a usable device is connected in the
  end.
- **Dataset codecs.** Bare pointers walk over data that may be cut anywhere,
  whose counts may claim anything, one field at a time and each with its own
  check. Correct: readers stay inside what was received and in step with the
  device, a name comes back as it was sent, and is text.
- **App.** Connecting, pinging and dropping happen on
  two threads; `connected_` and the three objects change in different critical
  sections. Correct: the objects belong together, nothing is called after it is
  gone, claimed interfaces are released, a plugged device is found, page calls
  return.
- **App browser, bridge, front end.** The page acts on a snapshot up to 400 ms
  old (plus whatever the main thread was blocked for), with a selection that
  survives navigation, and rebuilds its table only where the list has changed,
  with new handlers each time. The stack changes while the monitor lists. One
  name that is not UTF-8 makes the whole answer nil, which the page gets as `null`:
  it asks again, but shows and acts on its old state until the name is gone. Correct:
  list, path and table belong together, an action reaches the object the user saw, a
  drop uploads once, the page keeps up.

## 2. Modules and plan

| order | module | stands for | state |
|---|---|---|---|
| 1 | `TransferQueue` | what the transfer engine promises its clients (abstract) | done |
| 2 | `TransferEngine` | queue, items, worker, destructor, client calls; implements `TransferQueue` | done |
| 3 | `TransferEngineProofs` | theorems about 2 | done |
| 4 | `FileUpload` | `send_data_from_file` packet by packet | done |
| 5 | `DataPhaseIn` | data-in phases and the response after them, read by read | done |
| 6 | `AppLifecycle` | App, monitor, session objects, device that comes and goes | done |
| 7 | `Transactions` | operations as containers over two pipes, shared session; the process that ends and starts again | done |
| 8 | `MTPStrings`, `Datasets` | strings and names on the wire; builders and readers of every dataset | done |
| 9 | `DatasetsProofs` | theorems about 8 | done |
| 10 | `Connect` | the search for a device, the attempts to open it, and what they leave behind | done |
| 11 | `Browser` | page, bridge, navigation and the monitor's listing | done |
| 12 | `FileUploadProofs`, `DataPhaseInProofs` | theorems about 4 and 5, for every size of file, packet and chunk | done |
| 13 | `ConnectProofs` | theorems about 10, for any number of devices | done |
| 14 | `AppLifecycleProofs` | theorems about 6, for any number of connections, clicks and stalls | done |
| 15 | `TransactionsProofs` | theorems about 7, for any number of calls, faults, cuts and processes | done |
| 16 | `BrowserProofs` | theorems about 11, for any tree and any number of sessions, clicks and calls on the way | done |
| - | `Transactions` with `FileUpload`, `DataPhaseIn` | that a whole data phase there implements `SendData`, `ReceiveFile` here | planned |

`MC*` modules instantiate a module for TLC. Every module keeps to recursive-free
definitions and named assumptions so that it can be proved about.

The modules divide the program by layer and meet at narrow interfaces.
`TransferEngine` follows `run_download` and `run_upload` only to chunks, checks
and exceptions; `FileUpload` and `DataPhaseIn` are those calls' data phases in
bytes; `Transactions` is the sequence of containers around them, with every
thread that shares the session; `AppLifecycle` has a session and an engine as
objects that exist or not, an engine that is idle, queued or active, and a
transaction that is one step under the session's mutex. `Connect` opens up the one
step in which `AppLifecycle` gets a session, `Datasets` what the containers of
`Transactions` carry, and `Browser` the page calls of `AppLifecycle`, without its
races between the threads' objects.

## 3. What each module models

The names of the code are kept where TLA+ allows it. `map` in `PROJECT.json`
gives the source lines of every definition. *History variables* record something
the properties need and the code does not store; no guard reads them (bounds
aside). A definition called `Mut...` is a plausible bug, used only to show that a
property would notice it; no other definition refers to it.

**TransferQueue, TransferEngine.** `pending`, `history`, `shutdown` and `mtx` are
the members; `state`, `cancel`, `moved` (`bytes_done`), `errorMsg` the fields of
each `TransferItem`; `wpc` is where the worker is in `worker_loop`, `owner` where
the owner is in the destructor, `scanAt` the loop index of `has_active`, `reader`
the item `state_json` is formatting. One step is a critical section or one
access to something another thread can see: the worker's pop under the lock
(`Test`), each look at the cancel flag, each store of a state, the two halves of
assigning `error_msg`. `has_active` holds `mtx_` over several steps because the
worker stores states without it. `enqueue` and `cancel` are single critical
sections. The condition variable is modelled with its window: `test` finds the
predicate false, `park` still owns the mutex, `parked` can be notified; spurious
wake-ups are allowed. A transfer is 1 to `MaxChunks` chunks, and any call may
throw. `doomed` and `scanQuiet` are history variables. The refinement maps the
order of the queue to `history`, the status to `state` and the set of cancelled
jobs to the flags.

**FileUpload.** Bytes are counted. `first` is the write that carries the header
with the beginning of the file, `test`/`read`/`check` one turn of the loop, `zlp`
the empty packet. `size` is what was announced, `onDisk` what the file has now,
which another program may change at any time; `eof` is the stream's eofbit. The
endpoint sees full packets and short ones: `ends` counts the marks after which
the device takes the data phase for over. A failed write may have delivered any
number of full packets; the result of the empty packet is not looked at by the
code, so it may be `lost`.

**DataPhaseIn.** The pipe holds what the device will send: bytes of the data
container, perhaps an empty packet (devices differ), a response. A bulk read ends
when its buffer is full, at a short or empty packet, or runs on into the next
container where nothing separates the two. `call` tells `receive_data_to_file`
from `receive_data`; the answers are a whole data phase, one cut short by the
device, or a refusal. `total` is the 32-bit length field, all ones beyond
`MaxLen`. Data are read with buffers of `Chunk`, the response with one of
`SmallChunk`. The destination is assumed to take every byte (`ofstream::write` is not
checked by the code).

**AppLifecycle.** `session`, `ops`, `engine` name the connection an object belongs
to; a call through a null pointer, or through the monitor's raw pointer (`ptr`) when
its object is gone, sets `crashed`, which ends the behaviour: that is the abstraction of undefined
behaviour. `claimed` is what holds the interface on the bus, `up` the session's
`connected_`, `nav` and `entries` the connection the navigation stack and the
listing come from. The monitor goes through `top`, `connect`, `install`, `setup`,
`announce`, `poll`, `raw`, `ping`; either thread drops the connection (`drop`,
`join`, `close`, `offline`) or refreshes (`refresh`, `clear`, `list`, `listed`).
`device_mtx_` is held while a critical section waits for the session or for the
engine's worker (`LockDevice`). The page may press Reconnect, refresh, delete or
make a folder (`Change`), poll (`Snapshot`, `Copy`) or use the engine (`TestEngine`, then
`UseEngine`, which reads `engine_` again), one at a time, for all of them run on the main thread. The engine is
`idle`, `queued` or `active`; its join waits for a running transfer only, the lost
wake-up being `TransferEngine`'s subject. The device is plugged and unplugged at
will; an unplug kills its handle for good. A pipe of a plugged device may stall
`MaxStalls` times. Navigation within a connection is not distinguished.

**Transactions.** `out` and `in` are the bulk pipes as sequences of containers, a
"part" what went out of a data container whose write failed or was cut, a "rest"
what is left of one in the bulk-in pipe; a read that meets a rest may take a piece,
all of it, or run into what follows. `Script` gives every operation, the
handshake of `connect()` and the CloseSession of `disconnect()` as the code's
sequence of primitives; `SendCommand`, `SendData`, `ReceiveData`, `ReceiveFile`,
`ReceiveResponse` are the primitives with their checks. Operations hold the
session's mutex from their first command to their end; the handshake and
`disconnect()` do not take it. `Fails` is a bulk call that fails or times out
although an answer still comes, `TimesOut` one when nothing will come, `Cut` a
cancel (or a local file that does not open) between a command and its response.
The device is modelled from what the code expects of it: it answers commands in
order, drops data it does not expect, takes a command during a data-out phase
for the end of the data and refuses, and buffers what the host does not read. It
may refuse any command. As the code has it, TransactionCancelled counts as granted
in the response to a transfer, and not in that to the announcement of an upload. `Quit` is the end of the process at any moment: `terminate:` exits inside `ui.run()`, `shutdown()`
is never reached, pipes and device stay as they are, with half a container if one
was on its way. `Retry` is the monitor's next attempt to connect, in this process or
the next. `granted`, `mixed`, `lied`, `since`, `left` (how the last process left the
device) and `crossed` (CloseSession was sent beside another call) are history
variables. What is aligned to packets is the subject of `FileUpload` and
`DataPhaseIn`.

**MTPStrings, Datasets.** A file name is a sequence of bytes, a string on the wire a
count and units. `Encode` and `Taken`/`Decode` are the writers and readers of the
code, with the count in one byte of `CountCap` (255) and each unit coded to UTF-8 by
itself; `IsUtf8` is the reference definition. In `Datasets` a dataset is its layout:
each field has a size, and what a reader gets for a field is right if it reads the
field's own bytes. `p` is the cursor of the code; `at`, `intact` and `right` are
history: where the field really begins, which fields were received whole, which were
read where they are. Once the cursor has left the device's place, what it reads is
arbitrary (`Accidents`: any count, any units), and a name decoded from it is shown like
any other. A behaviour announces an upload (`Announce`, with
the size of the container that `send_data` writes at once), lets the device keep the
name, and reads a dataset of which `end` bytes have arrived: ObjectInfo,
StorageInfo, DeviceInfo or an array of handles.

**Connect.** `bus` is libusb's list of the devices plugged; devices come and go and
other programs claim and release interfaces (`taken`) between any two steps.
`found` is what `find_device` chose, `dev` the device of the second listing in
`connect()`, `ep` the endpoints, `up` is `connected_`, and `grip` what the session really has of the
device. A handle that is lost before its claim is not followed: it keeps nobody out. `held` are interfaces claimed by a handle
that was never closed; they keep later claims out until the device is unplugged. A
device's description is its ids, its MTP class and the settings that `find_endpoints`
walks through. The handshake is one step, and a session ends by a bulk failure or by
Reconnect.

**Browser.** `queue` is the main queue with the page's calls in order, each handled
in one step but `get_state`, which lets the monitor in twice: it reads `connected_`
(`Begin`), collects the path under `device_mtx_` (`Collect`) and adds the list without
(`Answer`). An answer with an unreadable name is `Nil`: the page shows nothing new and
its timer runs on. The monitor connects, refreshes (`lock` between
its two critical sections, `listing` object by object) and disconnects. The page asks
on its timer, receives, renders (`rows`, and the fingerprint `fp` by which it decides
whether to rebuild) and lets the user open folders, go up, choose storages, select
with and without Cmd and Shift (`Marks`; a double click is two clicks first), delete by key or menu, refresh, reconnect and drop. Objects are
handles in a tree; a later session uses the same handles. `Bad` are those whose name
would not come out as UTF-8. `skipped`, `overtaken` and `careless` are history
variables (see the conditions in 4).

## 4. Runs, bounds and fairness

A *violation* run shows one documented statement that the code does not keep (6).

| run | states | shows |
|---|---|---|
| `engine` | 651 753 | `FailedHasReason`, `IdleAnswerIsTrue`, `ImplementsQueue` (the engine implements `TransferQueue`), `EveryTransferEnds`, `JoinEndsUnlessWakeupLost`, `CancelTakesEffect` |
| `upload` | 127 713 | `EndIsSeen`, `NothingAfterEnd`, `Complete`, `Terminates` |
| `data_in` | 17 341 | `OkIsWhole`, `OkLeavesPipeEmpty`, `UnalignedArrives` |
| `data_in_large` | violation | `LargeArrives` |
| `app` | 54 990 | `ObjectsTogether`, `EntriesOfSession`, `SafeWithoutReconnect`, `ReleasedUnlessStalled`, `ReplugFound`, `UnplugNoticed`, `CallsReturn` |
| `app_detect` | violation | `AutoDetect` |
| `transactions` | 164 070 | `OperationsStayInStep`, `SuccessIsReal`, `CutUploadHeals`, `RestartHeals`, `PairUnbroken`, `CallsEnd` |
| `transactions_cut` | violation | `AnswerIsMine` |
| `datasets` | 1 223 521 | `TypeOK`, `IntactFieldsAreRight`, `NameSurvives`, `ShownIsText`, `PropListEnds` |
| `connect` | 25 565 | `FoundIsOpened`, `EndpointsOfClaimed`, `UsableIsConnected` |
| `browser` | 1 301 081 | `TypeOK`, `PanelShowsItsPath`, `PathIsOfTheTree`, `RowsAreTheFiles`, `DeletesAreOnScreen`, `PageCatchesUp` |
| `browser_drop` | violation | `OneDropOneUpload` |

What is proved for every instance (5) is not repeated in a run, the types above all,
unless a property of the runs rests on it.

**Bounds.** `engine` has two items of one or two chunks: one waits for the other, and
a cancel falls before, between and after the bulk transfers of both directions; more
items cannot break the order, for the theorems about the same properties hold for
any number of them. `upload` scales sizes so that every remainder modulo packet and
chunk occurs (header 1, packets of 2 and of 4, chunks of two packets, files up to 20
bytes, `MaxLen` below the largest container); `data_in` does likewise (header 2,
packet 4, chunk 8, `MaxLen` 23). `app` has one press of Reconnect and one stall, each
at any moment, any number of unplugs, and three identities of connections, which are
reused: one that lives, one whose handle leaked or whose pointer is still held, one
being built; TLC would stop if a fourth were needed. `transactions` has two
operations after the handshake, a disconnect, one cut, one failed call or end of the
process, and one more attempt to connect. Two operations are enough because the
states between operations are few: `OperationsStayInStep` says that an operation that
begins in step ends in step, so a third begins where the second began; with a fault
or a cut the second operation is the one that meets what the first left behind.
`datasets` has a byte that counts to 4 instead of 255, local names of up to 5 bytes of
two kinds, device names of units of every length in UTF-8 and surrogates, the units 0,
of one byte and half of a pair (`Strays`) where a cursor has lost its place, and cuts
datasets at each of 91 places, beyond the longest. `connect` has two devices of seven
kinds (a Switch, with and without a responder, phones, a device whose class is in
another configuration, endpoints split over two settings, two MTP interfaces) and
one bulk error on a plugged device; two devices are what it takes to find one and
open the other. `browser` has two storages, one of them empty, a file beside a folder with a folder in
it, two sessions, and two clicks or keys at any moment, beside any number of Escapes and clicks
on the path: the smallest number that selects and deletes, or opens twice. It counts one drop handler and `browser_drop` two (`MaxHandlers`), for
no property of the first depends on them. Bounds are constants
(`MaxClicks`, `MaxStalls`, `MaxCalls`, `MaxFaults`, `MaxRetries`, `MaxSessions`, `MaxSize`, `MaxHandlers`,
`Sizes`, `Offered`, `Cuttable`, `MaxChunks`, `Names`, `Natives`, `Texts`, `Strays`, `Ends`, `MaxElems`,
`Kinds`) and appear only in guards and initial states.

**Deadlock** is checked in `connect` and `browser`. Elsewhere an engine that was destroyed, a
data phase that is over, a program that crashed, a session that is closed and a dataset
that has been read take no step. Blocking is
covered by the liveness properties instead.

**Fairness.** Threads run and every bulk call returns, for each has a timeout: weak
fairness of a thread's own steps. A mutex is granted to a thread that asks again
and again (strong fairness of taking it): its rivals give it up for a person's
pauses or for the monitor's two seconds of sleep. Nothing is fair for clients, the
user, the cable, faults or spurious wake-ups. In `TransferEngine` the lock is the
only strongly fair action; in `AppLifecycle` and `Transactions` a thread's steps
are one strongly fair action, which is the same assumption, for a thread has at
most one step it can take and loses it only by waiting for a mutex (or, for a
read, for the device, which answers). In `Connect` the monitor tries again every two
seconds and a ping of a dead device fails: weak fairness of `Try` and of `SessionFails`
on a dead handle. In `Browser` the timer fires, the main queue and the monitor go on
and answers arrive: weak fairness of each; a thread that waits for `device_mtx_` waits
for one listing.

**Conditions in the properties** name what is known to break them otherwise.
`ReleasedUnlessStalled` excludes stalls: a failed bulk call clears `connected_`,
and `disconnect()` then returns before it releases the interface
(`MTPSession.cpp:296`). `ReplugFound` assumes that no handle has leaked in this way
and nobody pressed Reconnect; `app_detect` is what happens else.
`SafeWithoutReconnect` excludes Reconnect, which may close the session under a ping
that is on the wire. `UnplugNoticed` needs the transfer queue to rest, as the monitor
pings only between transfers.
`OperationsStayInStep` and `SuccessIsReal` assume that no bulk call fails and
nothing is cut, and that no process left an answer behind (`Undisturbed`): then what
answers GetDeviceInfo may be anything, for ids are not compared. `IntactFieldsAreRight`
excludes strings padded behind their zero (`WellMade`), `NameSurvives` names of 255
bytes and more and those that are not ASCII, whose bytes come back as characters of
their own. `ShownIsText` excludes names with surrogate pairs, and datasets cut before the
name begins (`BeforeName`): there `mtp_str` takes other bytes for a name, which may well
be half of a pair. `FoundIsOpened` needs devices with different ids, `EndpointsOfClaimed`
settings that have both endpoints. `UsableIsConnected` is about the first device that
matches: one behind it on the bus is never tried. `PanelShowsItsPath` excludes a
navigation while the monitor lists (`skipped`: the stack changes, the list does not)
and a state collected across two sessions; `PathIsOfTheTree` a folder opened from a
list that is no longer, or not yet, that of the top (`overtaken`: a second double click
within one poll); `DeletesAreOnScreen` is over `rows`, the table, which is empty while
it says "Loading…" although the page holds a list. The code does let Delete reach what
is not in the table: the selection survives every change of it (`app.js:526`), and Cmd+A
takes the list where no table is shown (`app.js:541`). Both set `careless`, and the
property says that nothing else leads there and that Escape or a plain click ends it.
`PageCatchesUp` waits until no listed or entered folder or file has an unreadable name
any more; until then the page keeps its old state.

## 5. Theorems

**`TransferEngineProofs`** proves with TLAPS, for any set `Items` and any `MaxChunks`:

| theorem | property |
|---|---|
| `TypeCorrect` | `TypeOK` |
| `PendingTail` | `PendingIsTail` |
| `InOrder` | `ServedInOrder` |
| `OneActive` | `ActiveIsCurrent` |
| `ReasonFirst` | `FailedHasReason` |
| `IdleAnswer` | `IdleAnswerIsTrue` |
| `DoomedWait` | `DoomedNeverStart` |
| `FinalOutcome` | `OutcomeIsFinal` |
| `EngineImplementsQueue` | `ImplementsQueue`, the refinement |

Assumptions: `NoneAssumption` (`None` is no item and no lock holder) and
`MaxChunksAssumption` (a positive number). `Items` may be infinite.

None of the properties is inductive by itself: that the order is kept depends on
the worker holding the item it popped, that on the lock, and so on. The inductive
invariant is

    IInv == TypeOK /\ WorkerInv /\ LockInv /\ QueueInv /\ TransferInv /\ DoomInv /\ ScanInv

- `WorkerInv`: the worker's local is the newest item popped, Queued until it is
  activated, Active until it is dropped.
- `LockInv`: who holds `mtx_` follows from where the worker and the scan are.
- `QueueInv`: `pending_` is the tail of `history_`, which has each created item
  once; behind the tail all are over but the worker's.
- `TransferInv`: what has not started has moved nothing and failed nowhere; a
  failure has its reason.
- `DoomInv`: an item cancelled while it waited is at most popped.
- `ScanInv`: a scan that has seen no quiet moment has left only finished items
  behind it, so the Active one is still ahead.

`InitIInv` shows that it holds initially; one lemma per action or group of alike
actions (`EnqueueStep`, `ScanSteps`, `PopStep`, `EndSteps`, ...) that its steps keep
it, `NextIInv` collects them, `Invariance` is the temporal conclusion and the
theorems follow. `Places` and `HeldItem` are the facts about positions in the two
sequences. For the refinement every action is shown to be a step of `TransferQueue`
or to leave its variables alone, with `IInv` giving `AtHead` for the item popped.

**`DatasetsProofs`** proves for strings, arrays, datasets and cuts of any length, any
largest count, and any even header and packet size:

| theorem | property |
|---|---|
| `TypeCorrect` | `TypeOK`: the cursor stays inside what was received |
| `IntactFields` | `IntactFieldsAreRight` |
| `AnnouncementEnds` | `PropListEnds` |
| `NamesSurvive` | `NameSurvives` |
| `ShownAsText` | `ShownIsText` |

Assumptions: `CountCapAssumption`, `WireAssumption` (numbers; header and packet size
are even) and `StringsAssumption` (file names are bytes other than zero, a unit has 16
bits, also a stray one, devices count their strings right, and their names fit the count). `IntactFieldsAreRight` is not inductive: that the next field is read
right depends on where the cursor is. `InStep` adds just that: while the field to come
begins inside what was received, the cursor is at it. `Typed` is `TypeOK` with the types
of what is read. `TakenBounds` says what the readers of strings take (its
`CHOOSE` of the first zero needs `HasLeast`), `TakenWhole` that a whole, well made
string is taken whole, `EncodeIsString`, `TextIsText` and `TerminatedIsString` follow a
name to the device and back, `CursorStaysInside` and `WholeFieldIsRead` are one step of
a reader, and `AnnouncementEnds` rests on `OddIsNoMultiple`.

`NumbersBeforeName` and `OnTheWay` say that a cursor that has met only whole numbers
before the name is where the name begins. For the last two theorems, `Stored` says what
the device keeps of a name (`EncodedWhole`: all of it if it is short enough), and `Shown`
that what was read behind those numbers is a beginning of that, decoded, and all of it
when the field was read from its own bytes (`TerminatedText`, `TerminatedWhole`).
`Decode` and `IsUtf8` are recursive functions, and as no rule of induction can be used (an
operator is its parameter), each is shown to exist and to obey its equation by hand:
`OutIs` from the least length at which there would be no such function, `OkIs` from the
least set of positions that is closed under the steps of `IsUtf8`. `Cuts` is where a
sequence of bytes falls into characters. `UnitIsChar` shows that a unit which is no half
of a surrogate pair becomes one character, of the shortest form; `CutsGrow` that one more
character behind a text that can be cut leaves one that can be cut; `CutsAreUtf8` that such
bytes are UTF-8. `OutIsUtf8` and `OutOfPlain` (ASCII is decoded to itself) then look at the
least number of units for which they would fail.

**`FileUploadProofs`** proves for every size announced, size on disk, packet, chunk and
header that `SizesAssumption` admits (the header fits a packet, a chunk is a number of
packets), whatever happens to the file meanwhile:

| theorem | property |
|---|---|
| `TypeCorrect` | `TypeOK` |
| `EndSeen` | `EndIsSeen` |
| `WholeUpload` | `Complete` |
| `NothingFollows` | `NothingAfterEnd` |

`Complete` holds at the end because at every moment the bytes delivered are the header
and what was sent of the file, with an end marked only by the last write (`Delivered`), a
write that ends in a short packet is the last one (`ShortIsLast`), and a file that never
was shorter than announced is read to its end (`Kept`); `Begun` and `Over` say this of the
state before the first write and of the one in which the data phase is over.

**`DataPhaseInProofs`** proves for every size of container, packet and chunk, and for both
kinds of device (with and without an empty packet at the end):

| theorem | property |
|---|---|
| `TypeCorrect` | `TypeOK` |
| `WholeAndNothingElse` | `OkIsWhole` |
| `PipeEmpty` | `OkLeavesPipeEmpty` |
| `UnalignedSucceeds` | `UnalignedArrives` |

The invariant accounts for every byte: what was read and what is in the pipe is what the
device had to send (`Accounted`), so a call that has received what the length field says
has left nothing of it behind. `Separate` says that a container that does not fill its
last packet never runs together with the response: its reads end where packets do.
`Answered` says where the response is, `Placed` what holds before each read. `Sizing`,
`MultiplesAdd` and `RemainderOf` are the arithmetic of packets, `ReadKeeps` and
`ReadLosesNothing` the facts about a single bulk read.

**`ConnectProofs`** proves for any number of devices on the bus, of any kinds:

| theorem | property |
|---|---|
| `TypeCorrect` | `TypeOK` |
| `FoundOpened` | `FoundIsOpened` |
| `EndpointsClaimed` | `EndpointsOfClaimed` |

Assumption: `NullAssumption`. The two listings of the bus are related by `Chosen`: the
device that is opened has the ids of the one found, and its endpoints are those that
`find_endpoints` adds up over its settings. `Gripped` says which of handle, claim and
`connected_` the session has at each step. That the scan ends at a first setting is
`FirstIsIn`.

**`AppLifecycleProofs`** proves for any number of clicks and stalls, provided there are
endlessly many names of connections (`Endless`; the runs reuse three):

| theorem | property |
|---|---|
| `TypeCorrect` | `TypeOK` |
| `HaveObjectsTogether` | `ObjectsTogether` |
| `ShowSession` | `EntriesOfSession` |
| `MonitorSafe` | `SafeWithoutReconnect` |
| `HandlesReleased` | `ReleasedUnlessStalled` |

The properties speak of the moments when nobody holds `device_mtx_` or nobody has pressed
Reconnect; the invariant says what is true in between: which thread holds the mutex where
(`Locked`), in which part of a drop an object is missing (`Together`), which pointers a
thread may still use (`Pointed`), that the monitor connects only while nothing is shown
(`Shown`), where, without Reconnect, a session exists (`Alone`), and, without stalls, which
one is claimed (`Claimed`). One lemma per group of alike actions shows that every part is
kept.

**`TransactionsProofs`** proves for any number of calls, faults, ends of the process and
attempts to connect, and for every choice of operations that are offered and may be cut:

| theorem | property |
|---|---|
| `TypeCorrect` | `TypeOK` |
| `StaysInStep` | `OperationsStayInStep` |
| `NothingIsClaimed` | `SuccessIsReal` |
| `NextProcessConnects` | `RestartHeals` |
| `NothingInBetween` | `PairUnbroken` |
| `CutHeals` | `CutUploadHeals` |

Assumption: `BoundsAssumption` (`Nobody` is no thread; the bounds are numbers). That the
wire is in step between two calls says nothing of what is on it during one, so the
invariant has two halves.

    IInv == Scalars /\ Flags /\ Control /\ Data

- `Control` holds in every behaviour: at which step a thread is and with which id
  (`Calls`), who holds the mutex (`Locked`), what may run beside the handshake and
  CloseSession (`Alone`), that a call on the wire has the newest id (`Latest`).
- `Data` has the types of the pipes and, where nothing has failed and nothing was cut,
  what they hold at each step of a call (`Paired`, step by step in `Exchange`), what they
  hold without one (`Between`: nothing, or a data phase that a process left open), and
  that what was claimed was granted (`Truth`).

`PairUnbroken` needs `Control` only, and so no condition on faults. After an upload that
was cut `Exchange` does not hold; `CutInv`, inductive together with `IInv`, says what does:
until the next call has ended the device is inside the data of the upload, and takes what
that call sends for them (`Dropping`, `Facing`) or has refused it; from then on a call
finds what it expects, behind at most one data container that no command waits for
(`Loose`, `Strayed`). `DeviceOnPending`, `DeviceOnData`, `DeviceOnDropping` and the lemmas
like them are what the device makes of each content of the pipes; the lemmas ending in
`On` are the host's steps; `StepKeepsInvariant` and `SlicedStep` are what these have in
common.

**`BrowserProofs`** proves for any tree of finitely many objects, any number of sessions,
clicks and deletes on the queue:

| theorem | property |
|---|---|
| `TypeCorrect` | `TypeOK`: with the types, at most one state is on its way |
| `PanelOfItsPath` | `PanelShowsItsPath` |
| `PathOfTheTree` | `PathIsOfTheTree` |
| `RowsOfTheFiles` | `RowsAreTheFiles` |
| `DeletesOnScreen` | `DeletesAreOnScreen` |

Assumptions: `TreeAssumption` (every object has a parent, folders are no storages, `Null`
and `Nil` are none of the things they stand in for) and `BoundsAssumption`. What the page
shows was read some steps ago by another thread; the invariant follows a listing from the
device to the screen:

    IInv == Typed /\ Waiting /\ Listing /\ Collected /\ Told /\ Built /\ Careful
              /\ PathIsOfTheTree

- `Typed`: among the types, that a folder is opened from a list of its parent (`MeansWell`).
- `Waiting`: the page waits exactly while one get_state, or its answer, is on its way, so
  states arrive in the order in which they were collected.
- `Listing`: the entries, and those that the monitor is about to add, are children of the
  top of the stack, unless the stack changed under the listing.
- `Collected`: what the first half of `state_json` took still holds when the second half
  adds the entries, unless the session has changed.
- `Told`: so the files of an answer, and of the snapshot, are of the folder on its path.
- `Built`: the table is built of the list that the fingerprint is of, and that is the one
  of the snapshot.
- `Careful`: a selection made since the table last changed is in the table.

`Grows` and `Shrinks` are what the queue does, `Refreshes` is refresh_remote on its own;
`PageKeeps`, `CallKeeps`, `SendKeeps` and `LookKeeps` are what the monitor, a handled call,
a call made and a click that makes none have in common; `MarksKeep` is a click on a row,
and `ShownRows` why Cmd+A on a table takes only its rows.

Only model-checked: all liveness properties, for the prover does not handle fairness
(`EveryTransferEnds`, `JoinEndsUnlessWakeupLost`, `CancelTakesEffect`, `Terminates`,
`ReplugFound`, `UnplugNoticed`, `CallsReturn`, `CallsEnd`, `UsableIsConnected`,
`PageCatchesUp`). Every safety property of the passing runs is proved.

## 6. Disagreements between code and documentation

- `data_in_large`: an object whose container does not fit 32 bits is cut there
  (`MTPSession.cpp:483`; README: "Large file support").
- `app_detect`: `connected_` is stored outside the critical section that made it
  true; after a Reconnect at the wrong moment the App believes in a connection
  that does not exist, or never finds one again (`App.mm:153`, `170`; README:
  "Automatic device detection").
- `transactions_cut`: a download cut between its command and its response leaves
  its data and its response to the next operation (`MTPSession.cpp:474`, `501`).
- `browser_drop`: every rebuild of the remote table adds a drop handler to its
  container, so a later drop uploads a file several times (`app.js:280`; README:
  "Drag files from left → right to upload").

Two more limits are conditions of properties above. The engine's destructor stores
`shutdown_` and notifies without the mutex; between the worker's predicate and its
block both are missed and the join never returns (`TransferEngine.cpp:27-29`), which
`JoinEndsUnlessWakeupLost` excludes. After a data container that fills its last packet
the response read gets the device's empty packet, or the response has been read as
file data (`MTPSession.cpp:497`), which `UnalignedArrives` excludes.

## 7. Not modelled

Time (timeouts are events, the 180 s of an install are a wait), speeds and the texts
of codes; the local disk, which never fills and whose panel is a plain listing;
memory, as far as it is not an object that exists or not or `error_msg` being
assigned: neither the arrays a count may ask for nor the device list that an
exception leaks. In the front end the local panel, the list of transfers, sorting
and layout; in the bridge the calls of these, the file picker, window and menu; new
folders are in `AppLifecycle` and `Transactions` but not in `Browser`, and which folder
an upload goes to is in none. A DeviceInfo without payload, whose header is parsed in
its place, and alternate settings that share an interface number are left out of
`Datasets` and `Connect`. `enqueue_finder_drop` has no caller, so the finder drops that
`state_json` would process stay empty. Other data races on plain members are listed
under `hazards`. Build files and styling have no behaviour.
