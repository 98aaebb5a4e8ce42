# libsensact in TLA+

libsensact gives applications one interface to sensors and actuators: an
application connects to a device by name, gets and sets named variables, and
disconnects. What happens underneath depends on the backend of the device: a USB
link that speaks the sensact packet protocol, an emulator, or a backend of the
application's own. This directory holds TLA+ models of the library, their TLC
configurations, and proofs checked by TLAPS. Paths below are relative to the
repository.

## The system

| part | code | state | operations |
|---|---|---|---|
| session table, registry | `src/sensact.c`, `src/session.c` | `session[40]`, `device_list`, `backend_list`, `session_mutex` | `sa_register_devices`, `sa_register_backend`, `sa_list_backends`, `sa_connect`, `sa_disconnect` |
| protocol client | `src/sensact.c` (`send_command`), `src/packet.c` | `packet_counter`, `error`, `sa_error` | `sa_get_*`, `sa_set_*`, `create_request_packet`, `verify_response_packet` |
| protocol server | `src/packet.c` | none | `verify_request_packet`, `decode_request_packet`, `create_response_packet` |
| USB backend | `src/plugins/usb.c` | `session[i].data`, `session[i].connected` | `usb_connect`, `usb_disconnect`, `usb_reconnect`, `usb_read`, `usb_write` |
| plugin manager | `src/plugin-manager.c`, `src/plugin.c` | `plugin_list`, `plugin_item` | `plugin_load`, `plugin_unload`, `register_plugin` |
| list | `src/list.c` | doubly linked nodes, iterators | add, insert, pluck, pop, poll, iterate |
| emulator backend | `src/sensact-emulator.c`, `src/sensact-emulator/` | `id`, `var`, one handle per sensor, sensors in shared memory | the backend calls |
| BLE link | `src/ble/ble.c`, `src/ble/gatt_att.c` | one socket, characteristics table | connect, disconnect, discover, read, write |
| BLE update loop | `src/ble/ble_update.c` | connection state, retry counter | `update_loop` |
| SensorTag | `src/ble/TI_sensortag.c` | table of sensors, calibration data, filter of the gyroscope | search for handles, reading conversions |

How the parts interact:

* `sa_connect` copies the calls of a backend into the slot of a session. The
  get/set functions call through the slot **without** `session_mutex`; only
  registration, connect and disconnect take it. `sa_register_devices` writes
  `device_list` without it, and `sa_connect` reads `device_list` before taking it.
* The default get/set calls run `send_command`: build a packet, `write` it, `read`
  a response header, `read` a payload if the header announces one.
* `usb_read` and `usb_write` reconnect by themselves when the link is lost, and so
  change `connected` and `data` of a slot from the unlocked path.
* Loading a plugin runs its registration function, which calls
  `sa_register_backend`; unloading leaves the backend registered.
* The BLE programs use their own link, not the session table; `update_loop` runs in a
  thread of its own and publishes readings in global variables.

What is hard to get right, component by component, and what makes each correct:

* *Session table.* Several threads search, fill and release slots; error exits at
  every step; data left in a slot by calls that failed. Correct: a handle has one
  owner, a session in use keeps its device and its backend, links are neither
  leaked nor closed twice, the mutex is always given back.
* *Exchange.* Requests and responses are paired by a 16-bit id, transfers time out,
  answers arrive late, the cable is pulled between any two transfers and the reconnect
  logic hides it. Correct: a caller never gets another request's answer, success
  means that the device executed the request, every call returns.
* *Packets.* Fixed-width length fields. Correct: what a device decodes is what the
  client encoded.
* *Plugins.* Load, register and unload in any order and from several threads, and failures
  between their steps. Correct: the list of plugins agrees with what is open, no backend
  is registered twice, no session or registry entry refers to unloaded code.
* *Emulator.* State that belongs to a session is global. Correct: a session sees its own
  sensor's values.
* *BLE.* Failures between scanning, connecting, discovering and reading; responses
  without ids; a discovery that must get past whatever the device packs into its answers.
  Correct: one open socket at most, a dead link is dropped after the retries, the table
  holds the device's characteristics, a reading belongs to its request.

## The modules

| module | models | composed with |
|---|---|---|
| `SessionPool` | what the session layer promises: a pool of handles | abstract specification |
| `Session` | session table, registration, connection state of the USB backend, several threads | implements `SessionPool` |
| `SessionProofs` | proofs about `Session` | |
| `Exchange` | `send_command` over USB transfers, the packet ids, a device | |
| `ExchangeProofs` | proofs about `Exchange` | |
| `Packet` | request packets: encoder against decoder | |
| `PacketProofs` | proofs about `Packet` | |
| `LinkedList` | the doubly linked list, as operators on its nodes | |
| `LinkedListProofs` | its operations do to the list what they say of a sequence | |
| `Plugins` | plugin manager, registration, lookups and sessions that hold calls | uses `LinkedList` |
| `PluginsProofs` | proofs about `Plugins` | uses `LinkedListProofs` |
| `Gatt` | discovery of services and characteristics, the table they fill, a device | |
| `SensorTag` | reading sensors, the search for handles, the gyroscope's filter | extends `Gatt` |
| `SensorTagProofs` | proofs about `SensorTag` and `Gatt` | |
| `BleUpdate` | the update loop, its L2CAP socket and ATT requests, a sensor | |
| `BleUpdateProofs` | proofs about `BleUpdate` | |
| `Emulator` | the emulator backend, its globals and its sensors in shared memory | |
| `EmulatorProofs` | proofs about `Emulator` | |

`MCSession`, `MCExchange`, `MCPacket`, `MCPlugins`, `MCSensorTag`, `MCBleUpdate` and
`MCEmulator` instantiate them for TLC; the `.cfg` files are the runs. `PROJECT.json` names, for
every definition that models code, the lines it stands for.

### Session

*State.* `deviceList`, `registered` and `mutex` are `device_list`, `backend_list` and
`session_mutex`. A slot of `session[]` is spread over `allocated`, `connected` (sets of
slots), `device`, `calls` (the backend whose function pointers are installed) and
`disconnect` (kept apart because `sa_connect` tests it before it is set). `open` is
the set of links that backends hold, which stands for `session[i].data` and the USB
handle behind it. `pc`, `table`, `arg` and `slot` are the calls in progress, one per
thread. `held` is a history variable: the handles each thread got and has not given
back.

*Actions.* `RegisterDevices`, `RegisterBackend`, `Connect`, `Disconnect` and `Transfer`
are the entries of the functions. `TakeMutex` is every `pthread_mutex_lock`;
`RegisterBody` is the critical section of `sa_register_backend`. `sa_connect` is
`ConnectSlot` (find a slot and a device), `ConnectInstall` (find and install the backend),
`ConnectOpen` or `ConnectFails` (the backend's `connect`), `ConnectClaim`; every failing
step is part of `ConnectFails` and ends in `ConnectError`, the common exit.
`sa_disconnect` is `DisconnectCheck`/`DisconnectRefused`,
`DisconnectClose`/`DisconnectFailed`, `DisconnectFree`. The unlocked path is `Transfer`,
ended by `TransferDone` or `TransferLost`, and after a loss the four steps of
`usb_reconnect`: `ReconnectCheck`, `ReconnectClose`, `ReconnectOpen` or
`ReconnectFailed`, `ReconnectMark`. A step ends where another thread can observe or
change something.

*Assumptions about callers.* A handle passed in was obtained from `sa_connect`; names
are unique in a device table. With `Shared = FALSE` a thread uses only handles it
obtained itself; with `Shared = TRUE` any thread uses any handle.

### Exchange

*State.* `counter` is `packet_counter`; `pc`, `request`, `loaded` and `response` are the
locals of `send_command` and `create_request_packet` in each session; `connected` is
`session[i].connected` and `alive` says whether its libusb handle reaches the device;
`toDevice` and `fromDevice` are the bulk pipes. `result`, `made` and `executed` are
history variables, and every request has a `tag` that the code does not have.

*Actions.* `CallStamp`, `CallExpect`, `CallLoad` and `CallStore` are the three reads and
the write of `packet_counter` in `create_request_packet`; `CallRefused` is its error
exit. `Write*`, `Header*` and `Payload*` are the three transfers of `send_command` and
everything up to the next transfer, one action per outcome: done, timeout, link lost
and reopened, link lost. An uninitialised value in the code is a choice: the count
that `usb_write` and `usb_read` return after a reconnect may be negative or not, and a
buffer that was not filled holds `Garbage`. `DeviceAnswer`, `DevicePayload`, `Fault`,
`Unplug` and `Plug` are the environment.

*Abstractions.* A name and a value are the tag of their request; the contents of packets
are the subject of `Packet`. Header and payload travel as separate transfers, of the
sizes that the client asks for. A payload read in place of a header is refused. Results
of `get_data` and `get_char` differ only in size, which is left out. `raced` is a history
variable: two callers were in `create_request_packet` at a time. They then lose
increments of `packet_counter`, and a call may wait for an id that is not the one in its
packet; what is said of ids excepts this.

### Packet

*State.* One request: the arguments of `create_request_packet`, the packet, and what
`decode_request_packet` returned. The lengths have the widths of their fields
(`ByteMod`, `ShortMod`), the buffers their sizes, and `strcpy`, `memcpy` and `strncpy`
are modelled byte by byte because they overlap: the value is copied over the terminator
of the name.

### LinkedList and Plugins

*State.* A list is a record of `first`, `last`, `length` and the memory of its nodes (`next`,
`prev`, `data`, and which are allocated); the operations of `list.c` are operators on it, and
`Represents` relates it to the sequence it stands for. In `Plugins`, `plugin_list`,
`plugin_item`, `plugin_item_p` and `plugin` are the globals of the plugin manager,
`backend_list` is the sequence of entries that lookups read, `images` is what the dynamic
linker keeps of each plugin (references, address), `sessions` are the entries whose calls
some session holds, and `mutex` and `calls` the calls in progress. `crash` says that
the process ended and why; `closed` and `overlaps` are history variables.

*Actions.* `plugin_load` is `Load`, `LoadSearch`, `LoadOpen` or `LoadFails` (`dlopen`),
`LoadAdd` and `LoadRegister`, which calls the plugin's `plugin_register`: `RegisterBackend`
(`register_plugin` reads the global `plugin` before it waits for the mutex) or
`RegisterNothing`, `RegisterLock`, `RegisterSearch`, `RegisterAdd`, and the return into the
manager, `Callback`. `plugin_unload` is `Unload`, `UnloadSearch`, `UnloadRegister` (the same function is
called again), `UnloadClose` or `UnloadFails` (`dlclose`) and `UnloadPluck`. `Connect` and
`ListBackends` are the lookups, `Use` is a call through a session. A step ends where
the manager calls out or touches a global that another call changes.

*Abstractions.* An image that is mapped again after it was closed may lie elsewhere: then the
old entry is wild. The functions of the list are single steps, which is wrong of calls that
overlap because nothing locks the list; what is said of the list is said of calls that do
not.

### Gatt and SensorTag

*State.* `device` is the device at the other end: its services and characteristics. `owed` are
the requests it has still to answer, `pipe` the answers and notifications that wait in the
socket. `phase`, `start` and `waiting` are the point and the start handle of the
discovery, or the point of the reading; `found`, `count` and `known` are `characteristics_table`,
`total_num_attr` and the entries that `nbr_attr` shows. `data_handle`, `result` and
`sensor_status` belong to the call in progress; `gyro` holds the globals of the
gyroscope's filter. `late` and `disturbed` are history variables, and an answer carries
the number of the request that it belongs to, which the code does not have.

*Actions.* `Request`, `RequestFails`, `LastReached` and the four outcomes of a read
(`ReceiveServices`, `ReceiveCharacteristics`, `ReceiveRefused`, `ReceiveTimeout`) are
the loops of `discoverServices` and `discoverCharacteristics`. `Refuse`, `Start`, `Enable`,
`ReadRequest`, `ReadDone`, `ReadRefused`, `ReadTimeout` and `WriteFails` are `ble_get_float` and
`ble_get_string`. `Reconnect` is a disconnect and a connect. `Respond`, `RespondRead`,
`Notify` and `Leave` are the device, which packs as many elements into an answer as it
likes, up to what fits.

*Abstractions.* Entries that do not fit in the table are kept in `found`, and may be missing
from `known`. In the code they overwrite `nbr_attr`, which is assigned afterwards, and then the
global that the linker puts behind `characteristics_table`. The damage to that global is not
modelled: after an overrun, the model speaks of builds in which nothing that it describes lies
there. The writes of `Enable` are one step: a connection lost between them fails the call as
one lost before or after them does. Requests and answers are records, not bytes. The filter of the gyroscope is
in integers, in sixths of a degree. The other conversions are left out: a value is where
it comes from and how long it is, which is all that the handlers test.

### BleUpdate

*State.* `state` and `retries` are `ble_conn.state` and `ble_conn.rw_retry_cnt`; `step`
is the point `ble_get_float` has reached; `sock` is `ble.l2capSock` and `open` the
descriptors the kernel holds open; `known` says whether the accelerometer's data and
configuration handles are in `characteristics_table`; `enabled` is its bit in
`ble.sensor_status`. `owed` and `pipe` are the responses that the sensor has still to send
and that wait in the socket. `measuring`, `streak`, `leaks` and `published` are history
variables.

*Actions.* One per `case` of `update_loop` and outcome of the call made in it.
`ble_get_float` is split where time passes: `ReadEnable`, `ReadRequest`, and a response
(`ReadDone`, `ReadRefused`) or none (`ReadTimeout`), or a write that fails
(`ReadUnsent`). `ReadFails` and `ReadDone` contain what `update_loop` does with the
result. `Respond`, `Leave` and `Return` are the sensor. The status LED is left out.

### Emulator

*State.* `id`, `var` and `handle` are the globals of the backend; `id` holds the session
whose request it came from, which is all that the test in `verify_response_packet` can tell
apart here. `at` is the three sensor pointers that `shmat` fills and `mapped` the process's
shared memory attachments: a pointer may outlive its attachment, and its address may be
given to another sensor. The BLE sensor has a second pointer, `bledevice`, which gets its
value when `create` has returned and which everything else but the detaching reads
(`Shown`). `Invalid` is `(void *) -1`, what `shmat` returns when it fails. `named` says
whether the names and functions in a segment have been filled in, `store` holds the values.
`sensor` is the part of the session table that matters: what each slot is connected to.
`request`, `length` and `size` are locals of `send_command` and `emulator_read`. `alone` and
`returned` are history variables, and `wild` records that the process used memory that was
not the sensor's; nothing is said about what happens then.

*Actions.* `emulator_connect` is `Attach`, `AttachFails` (`shmget`) or `AttachInvalid`
(`shmat`, whose result is not tested), `Create` (the fields) and `Connected` or
`ConnectError`; other sessions' calls can run between these. `Disconnect` is one step under
`session_mutex`. A get or set is split where it reads or writes a global: `Write` (`id`),
`WriteVar` (`var`), `WriteApply` (the setters), `HeaderId` or `HeaderRefused`,
`HeaderLength`, `PayloadSize`, `PayloadCopy`.

*Abstractions.* Fields of the same type and sensor behave alike, so `ambTemp` stands for the
five floats of the sensor hub and `pitch` for its three integers. An integer for the hub
passes through a float and arrives as 0 (`Stored`): so does every integer below the bits of
1.0, which bound `Values`. A partly copied value is `Garbage`. A get names its variable's type.
`emulator_write` terminates the copied name one byte past its allocation, which
allocators pad; this is left out.

## What the runs check

| run | instance | shows |
|---|---|---|
| `session` | 2 threads, 2 slots, own handles | handles are exclusive; a session has its device's backend; links are neither leaked (a backend that refuses to close excepted) nor closed twice; an owner is refused only while the link is down; the pool is implemented |
| `session_shared` | 2 threads, 1 slot, shared handles | the mutex is given back and transfers return, also when a reconnect meets a disconnect |
| `plugins` | 4 plugins, 2 of them with the same backend, 3 nodes, 2 threads | the list is a sequence under every operation; plugins and images agree; backends are registered once; lookups are safe unless something was unloaded |
| `exchange` | 2 sessions, 3 requests, 2 ids, one call at a time | a stale answer is accepted only after the ids wrapped; success means that the call's own request was executed (exceptions below); a successful call leaves nothing behind |
| `exchange_overlap` | 2 sessions, 2 requests, overlapping calls | a call waits for the id it sent unless two callers took ids at a time; a lost link is reported; every call returns |
| `packet` | names up to 4, values up to 3, `ByteMod` 3 | what is decoded was encoded, at and around the maximum lengths, except the name whose length is stored as 0 |
| `sensortag` | 2 devices, a table of 3 entries, 2 connections | discovery fills the table with the device's characteristics; how old and whose a value can be, for three sensors and one feature the table does not have; the angle settles after timely readings; discovery ends on devices without one-handle services, calls return |
| `ble_update` | 2 descriptors, 3 retries, 2 responses | one descriptor per connection and failed discovery; a connection is dropped after exactly the retries; the status bit belongs to the connection; dead links are given up and the loop recovers |
| `emulator` | 2 slots, 2 addresses, overlapping calls | an old handle opens no other session's sensor; writes and reads stay on the session's own sensor; calls left in peace return the right value, or store the value that was set (integers of the sensor hub excepted) |

Three runs show where the code does not do what its comments say:

* `exchange_garbage`: the device is unplugged and plugged again between header and
  payload. `usb_read` reconnects and reports success, and the get succeeds with the
  contents of an uninitialised buffer.
* `emulator_detached`: closing an emulated session leaves its pointer behind, and the next
  call on another emulated session goes through it ("read data from sensors").
* `ble_update_foreign`: discovery ends early and reports success, `find_att_handle` reports
  success without a handle, and the loop publishes what it read from an arbitrary
  attribute.

Some properties name exceptions that are themselves behaviours of the code:

* `OkMeansExecuted`: an `RSP_ERROR` without a message is a success (`sensact.c:344`); an answer
  that is `IdMod` or more requests old is taken for the present request's, which may never have
  been sent (`usb.c:148`); nothing is said after two callers took ids at a time.
* `SetTakesEffect`: an integer that is set on the sensor hub (pitch, roll, yaw) is copied into a
  float and converted back, and 0 is stored (`sensact-emulator.c:147`). The property says of
  these only that the call returns `SA_OK`.
* `ClosesOpenLinks`, `LinksAccounted`, `RefusedOnlyWhenDown`: checked for threads that use only
  their own handles. With shared handles a reconnect and a disconnect may both close the link
  (`usb.c:114`).
* `ListImplementsSequence`, `LoadedAgree`: nothing is said after calls of the plugin manager
  overlapped (`plugin-manager.c:80`).
* `DecodesWhatWasSent`: a name of 256 bytes arrives empty (`packet.c:78`).
* `LookupsSafe`: after `plugin_unload` the registry still points into the image
  (`plugin-manager.c:174`); a plugin without `plugin_register` is called all the same
  (`plugin-manager.c:113`); calls of the manager that overlap may free a node twice.
* `SocketsAccounted`, `Recovers`: a failed discovery loses its descriptor (`ble_update.c:299`).
* `TableFaithful`: the table may be overrun by the entries of one answer (`ble.c:287`).
* `OwnValue`: with messages left over, a value of the same length may be another sensor's.
* `AngleSettles`: a reading so late that one full turn is not enough (`TI_sensortag.c:236`).
* `Terminates`: a service that consists of its declaration is discovered for ever
  (`gatt_att.c:148`).
* `ExpectsIdSent`, `StaleOnlyAfterWrap`: nothing is said after two callers took ids at a
  time (`packet.c:97`).

These are hazards that the models contain and that no property catches; `PROJECT.json` lists
them with a note.

### Bounds

* `MaxSessions` 1 or 2 for 40, two threads: a race needs two calls and one slot; with two
  slots both a free and a taken one exist. The proofs cover all numbers.
* `MCDeviceTables`: two tables that give the same device different backends, and a
  device only one of them has, so that replacing the table during a lookup matters.
* `IdMod` 2 for 2^16 and `MaxRequests` 3 (2 with overlapping calls): a late answer meets a
  call with the same id after the first wrap.
* `ByteMod` 3, `NameMax` 3, `ValueMax` 2: the maximum name is as long as the modulus of its
  length field, as in the code (256), and both lengths are exceeded by one.
* `RetryCount` 3 for 5, `MaxPending` 2: below, at and above the limit; one response to the
  present request and one late. Two descriptors: one can be lost and the loop goes on.
* `Plugins`: three nodes, so that a list has a first, a middle and a last one; four plugins,
  one of each kind that the code tells apart; `MaxOpens` 2, for an image opened twice by
  loads that overlap; `MaxOverlaps` 1: what is said of overlapping calls needs two
  of them once, and the call that reaches the bound is the last one that begins. Only the
  image of `usb` moves. Nodes, threads and its two places are symmetric.
* `SensorTag`: a table of `MaxAttr` 3 entries against devices with three characteristics
  (exactly full) and six (overrun); answers of one wide or two narrow elements; values
  of two lengths, two sensors with the same; two connections, two reads each: one
  answer late and a call that meets it. Rates and gaps are on both sides of a full turn.
* `Emulator`: two slots, so that a connect finds a slot with a history; two addresses, so that
  a detached one is mapped again; requests of one-byte and four-byte variables of all
  three sensors. `EmulatorProofs` covers all requests, sessions and addresses.

### Fairness

* `Session`: weak fairness of the steps of each thread inside a call. Backend calls return
  because libusb calls have timeouts. Nothing is assumed about who gets the mutex next.
* `Exchange`: weak fairness of the steps of each caller inside a call. The device and the
  cable owe nothing.
* `SensorTag`: weak fairness of the discovery and of a reading once begun; both are loops of
  one thread whose reads have timeouts. The device owes nothing. The application need
  not begin another reading.
* `Emulator`, `Packet` and `Plugins` have no liveness property: their calls do not wait, but
  for `session_mutex`, which `Session` treats.
* `BleUpdate`: weak fairness of the loop, which is a thread that only sleeps and makes calls
  with timeouts; strong fairness of a successful connect, because scanning is
  repeated for ever and a sensor in range does advertise. `Recovers` needs the
  second, `DeadLinkGivenUp` only the first.

## What is proved

`SessionProofs` proves for any threads, slots, backends and tables that satisfy the
assumptions in `Session`:

* `SessionInvariant`, the inductive invariant `SessionInv`. It says which thread is in a
  critical section (`MutexInv`), what a call at each point may rely on (the slot it
  works on is free until claimed, the device it copied belongs to the table it
  copied, the installed backend is the device's), and that the handles held are the
  slots allocated. None of the safety properties is inductive alone: that the slot
  a connect claims is still free follows only from what the mutex keeps other calls
  from doing. From it follow `TypeCorrect`, `ExclusiveHandles`, `BackendOfSession`, the
  action property `SessionsStable`, and the refinement `PoolImplemented`.
* `OwnedInvariant` under the assumption `~Shared`, which adds that a transfer and a
  disconnect never work on the same slot, so that `connected`, `open` and the point a
  call has reached agree. From it follow `OpenLinksClosed`, `NoLinkLost` and
  `OpenLinkReleasable`. Without the assumption the first is false: `usb_reconnect` of one
  thread and `sa_disconnect` of another both see `connected` and both close the link.
* `CallsEnd`: no step takes a call back to a point it has left, and a call has the mutex
  exactly from its lock to its return. With the fairness of the steps this is why
  `MutexReleased` and `TransferReturns` hold.

`PacketProofs` proves for all names, values, widths and sizes that decoding inverts
encoding (`RoundTrip`). The argument is about the buffer: the value starts at the length
as it is stored, so the bytes before it are the name's and not `NUL`, and the decoder
cuts at the same place. `DecodedIsSent` and `PacketTypes` follow with the invariant
that a packet is the encoding of accepted arguments.

`ExchangeProofs` proves every safety property of `Exchange` for any sessions, number of requests
and width of the id. The argument follows a request through the pipes of its session: the
tags in them are in the order of the calls, and a payload is directly behind the header
that announced it (`QueueInv`); an answer says truly what was executed (`AcceptedTruthful`); a call that
succeeded over an untroubled link found the pipes drained. This gives
`CleanCorrect` and, with the value of `connected` at each point of a call, `LossCorrect`.
For the ids, the invariant says that the counter is the number of requests made modulo
`IdMod` and that a packet carries its tag modulo `IdMod` as long as nobody raced
(`ExpectsCorrect`). Two tags with the same id are then equal or at least `IdMod` apart, and
the order in the pipe says which is older (`StaleCorrect`). `OkCorrect` joins the two: an answer
that is accepted is truthful and, unless it is a whole wrap old, the answer to this call. Two results are about what the
library does not do when transfers fail: `ExecutedOnce` says that a request that waits for
the device waits nowhere else and was not executed before, because the requests still to be
written or executed are kept apart from those executed (`OnceInv`); `CallsEnd` says that no
call goes back to a transfer it has left.

`LinkedListProofs` proves that `list_add`, `list_insert`, `list_pluck`, `list_pop` and `list_poll` take a
list that represents a sequence to one that represents the sequence the name says, for any
nodes and any length: a refinement of the pointers by `Append`, `InsertAt` and `RemoveAt`.
`ForwardVisits` and `BackwardVisits` say that the iterators show the nodes in order and in
reverse, and then `NULL`. What an iterator has shown is a recursive function; that a
function with its equations exists and is unique is proved by induction over a set of
numbers, through the least one missing from the set (`SetInduction`), because the
library's induction takes a predicate.

`PluginsProofs` proves for any threads, plugins, backends and addresses:

* `RegistryCorrect`. A thread between the search and the addition holds the mutex, and the
  name it did not find is still not there.
* `LookupsCorrect`. An entry is mapped, or its plugin was closed at some time (`Sound`). The
  plugin that registers is known to be one of these although `plugin` is a global that
  overlapping calls overwrite.
* `LoadedCorrect`. The list and the images agree between calls; during the only call, how
  far they are apart follows from the point it has reached (`Progress`). Unlinking a node
  removes exactly one item of its name, by what `LinkedListProofs` says of
  `list_pluck`.
* `ListCorrect`. `plugin_list` represents a sequence as long as calls do not overlap.
* `SequenceImplemented`. Every operation of `list.c` and both iterators do to `plugin_list`
  what they say of that sequence: `ListCorrect` with the theorems of `LinkedListProofs`.
  The nodes are assumed to be finite in number, so that a list has a length.

`SensorTagProofs` proves for any devices, table size, packing of answers and bounds:

* `TableCorrect`. The table holds the characteristics below the start handle, each once; no
  answer to a request can be late when nothing was disturbed, so that a refusal means
  that there is no more.
* `LagCorrect`. The messages in flight are no more than those given up and notified, and one
  more while a call waits; the numbers in the socket are in the order of the requests.
* `AngleCorrect`. One full turn taken off brings an angle back that a timely reading moved.
* `OwnCorrect`. No read request and no value is under way while the table is filled
  (`QuietInv`). Afterwards every request owed, every sensor that notifies and every value in
  the socket belongs to a feature that is read, and with nothing left over (`late = 0`)
  they are the present call's own (`SourceInv`). A value that a call stores is therefore
  its own, or has the length the call wants and comes from another feature that was read.
  It rests on `SensorAssumption`: a value handle belongs to one characteristic, and a sensor
  of the table sends as many bytes as its handler takes. No other theorem needs it.
* `DiscoveryAdvances`. An answer that is read moves the start handle or ends its part of the
  discovery, also when it answers an earlier request, on devices whose services have more
  than one handle. This and the bound on handles are why `Terminates` holds.

`BleUpdateProofs` proves `RetriesExact` (the counter equals the failures in a row),
`SocketsInvariant` (each step changes the abandoned descriptors and the count of failed
discoveries alike) and `EnabledInvariant`. The last needs to know that a value in the pipe
or still owed shows that the sensor was enabled over this connection, because the
status bit is set when the value is read. `DeadLinkFinite` says that a dead link that the
loop holds on to stays dead, and that a reading over it takes a response that was left
over or counts a retry: both run out, which is why `DeadLinkGivenUp` holds.

`EmulatorProofs` proves every property of the `emulator` run. The key is
`HandleOpensOwnSensor`: handles are never reset, but a disconnect detaches every sensor
that its handle matches, so a handle left over meets a mapped sensor only in the window
in which that sensor is being connected again. With it, a setter that passes the
handle comparison works on the session's own sensor. `AloneInv` and `EffectInv` follow
the globals and the stored value through a call that no other session interferes with.

Every module with proofs also has the theorem of its type invariant.

Model-checked only:

* all liveness (`TransferReturns`, `CallReturns`, `DeadLinkGivenUp`, `Recovers`, `Terminates`): under
  fairness, out of reach of the prover; and `MutexReleased`, which is stated with `~>`. Proved
  is the part of them that is safety, what a step does to what is left to do:
  `CallsEnd`, `DiscoveryAdvances` and `DeadLinkFinite`. That a step is possible at all
  (`ENABLED`) is left to TLC. For `Recovers`, which needs strong fairness, nothing is proved;
* the three violations.

## What is not modelled

* What `sa_list_backends` returns: it writes every name at the start of its result. That it
  reads every entry is modelled. `sa_register_device`, `sa_unregister_device` and
  `sa_unregister_backend` are empty.
* The text of error messages, the global `error` and `sa_error`.
* `list_first`, `list_last`, `list_remove` and `destroy_list`, which nothing in the library calls.
* Memory: leaks of iterators, of list copies, and of `usb_data` after a failed connect.
* The byte layout of attribute requests and answers, `create_response_packet` (the device of
  `Exchange` stands for it) and `verify_request_packet`, which compares one byte.
* The emulator's answer to an unknown variable: `RSP_OK` with length 0, which is a success.
* The floating-point conversions of `TI_sensortag.c`, the LED, logging, printing, `test.c`,
  the test programs and the BLE demo programs.

## Plan

The order was by how much depends on the part: sessions, exchange and packets, the update
loop, the emulator, then the list, the plugin manager and the BLE discovery, with the proofs
above. What is left:

1. `ble_update.c` over `SensorTag`: the update loop has its own, smaller link so that it can be
   checked with retries; a refinement would join the two.
2. Abstract specifications for `Exchange` (a call that executes a request at most once) and
   `Plugins` (a set of loaded plugins), with refinements as that of `SessionPool`.
3. The overlapping of calls inside the functions of `list.c`, which would say how far a
   plugin manager without a lock can go wrong.
