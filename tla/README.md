# Verification of the kitchen activity detection firmware

The repository holds the firmware of a device that watches a kitchen with a
thermal camera: two microcontrollers on a Thingy:91 (`nrf52840/`, `nrf9160_ns/`),
a data collector for training images (`dataCollector/`), the modules they share
(`modules/`) and a companion app (`heaty_companion/`). This directory holds TLA+
models of its parts, the TLC runs that check them and the theorems that TLAPS
proves about them. Paths below are relative to `src/`.

## 1. The system

All firmware is built the same way. A *module* is an event listener, a message
queue and a thread. Listeners run on the **system workqueue**, one event after
the other in the order of `EVENT_SUBMIT`; a listener turns the event into a
message, copies its payload to the heap and puts it into the module's queue with
`k_msgq_put(..., K_FOREVER)` (`modules/common/modules_common.c:52`). The module
thread, of the lowest priority, takes messages and acts on them by its `state`.
Drivers and the BLE host call back from interrupts and from threads of their own.
Modules interact only through events, except for what they write in callbacks.

| component | state | operations | interacts with |
|---|---|---|---|
| BLE module `modules/bt/bt_module.c` | `state`, `conns[]`, `conn_cnt`, `msgq_bt` | connect, disconnect, MTU exchange, advertise, toggle, `serialSend` | communication control, UART bridge, BLE host |
| UART bridge `nrf52840/src/commCtrl/bridge/modules/` | `subscriber_count`, `enable_rx_retry`, block reference counters, TX ring, `cdc_ready` | driver callbacks, subscribe, forward | UART driver, USB, BLE module |
| file module `modules/fs/` | `state`, `msgq_fs`, mounted card, open files | write, append, read, delete, set-up | data collector control, FAT file system |
| communication control `nrf52840/src/commCtrl/commCtrl_module.c` | `state`, queue | route heat maps and commands | sensor, BLE module, MCU exchange |
| MCU exchange `modules/mcu_exchange/` | receive buffer, queue | send, receive, parse | the other microcontroller |
| MQTT `modules/mqtt/` | `state`, client, poll thread | connect, publish, receive | analysis, MQTT library |
| analysis `nrf9160_ns/src/analysis/` | `state`, queue, history of heat maps | turn readings into messages | sensors, MCU exchange, MQTT |
| heat map sensor `modules/sensors/` | interval, work item | read, set interval | communication control, data collector |
| camera `modules/camera/` | `state`, interval | capture, cut into parts | data collector control |
| data collector control `dataCollector/src/control.c` | file name, counter | events to files and BLE | camera, sensor, file and BLE modules |
| nRF9160 application `nrf9160_ns/src/` | none beyond its modules | route, sample, analyse | MQTT, MCU exchange |
| PNG encoder `modules/lodepng/` | none between calls | a heat map to a PNG file | analysis, through `modules/utils.c:203` |
| companion app `heaty_companion/lib/logic/` | state machine, subscriptions | scan, connect, discover | BLE module |

What is hard here, and where the properties aim: three contexts write one module's
variables without a lock; callbacks and interrupts fall between two steps of a
handler; a cooperative workqueue blocks on a queue whose reader may be slow or
stuck; payloads and buffers pass from owner to owner; errors are reported through
the queue of the module that failed; connections come and go in the middle of a
message. `PROJECT.json` lists these hazards one by one, at their lines.

What makes each component correct:

- BLE module: the table of connections is the host's; a message is heard whole and
  in decodable chunks or not at all, and its buffer is not overrun; the device stays
  reachable.
- UART bridge: buffers are neither reused early nor lost; no transfer is lost or
  doubled; the receiver runs for subscribers and for nobody else.
- file module: what control submits is on the card, in order, unless an error was
  reported; the module leaves its error state when the card is back.
- analysis and MQTT: readings reach the broker in order, once; copies and strings
  have one owner; the state follows the session, and a lost one is restored.
- MCU exchange and communication control: a heat map arrives once, in order, and
  whole unless the line was disturbed; no message goes back and forth.
- heat map sensor: a map has all its pixels, a start that reports nothing leaves a
  usable sensor, and measuring goes on whatever fails.
- camera and data collector control: an image is on the card and arrives at the app
  whole, or the app does not take it for one.
- app: what it shows was sent, a connection that is gone is noticed, and old calls
  leave nothing behind.
- PNG encoder: what is decoded is what was encoded.

## 2. The modules

| module | models | checked by |
|---|---|---|
| `SerialChunk` | the arithmetic of chunks and MTUs in `serialSend()` and `exchange_func()` | `bt_live`; `BtModuleProofs` |
| `BtModule` | `modules/bt/bt_module.c`, its services and its share of the workqueue | `bt_links`, `bt_live`, `bt_blocked`; `BtModuleProofs` |
| `UartBridge` | `uart_handler.c`, `usb_cdc_handler.c`, the UART driver below them | `uart_bridge`, `uart_retry`; `UartBridgeProofs` |
| `FsModule` | `modules/fs/`, fed by `dataCollector/src/control.c` | `fs_module`; `FsModuleProofs` |
| `CloudPath` | `analysis_module.c`, `modules/mqtt/` and the workqueue between them | `cloud_path`, `cloud_reconnect`; `CloudPathProofs` |
| `Feed` | what `CloudPath` promises, for one session | `cloud_path`, as a property |
| `HeatPath` | `mcu_exchange.c` on both microcontrollers, the line between them, `commCtrl_module.c` and its likes on the nRF9160 | `heat_path`; `HeatPathProofs` |
| `MlxEeprom` | the calibration of `MLX90640_API.cpp` | `heat_sensor`; `HeatImageProofs` |
| `HeatSensor` | `modules/sensors/`: start and reading of the infrared sensor | `heat_sensor`; `HeatImageProofs` |
| `Companion` | the state machine of the app and its subscriptions | `image_path`; `ImagePathProofs` |
| `ImagePath` | camera module and data collector control, composed with `Companion` | `image_path`; `ImagePathProofs` |
| `Lz77` | the string matcher of `lodepng.c`, one operator for each turn of its loops | `png`; `HeatImageProofs` |
| `Matcher` | the blocks of `lodepng_deflatev` and that matcher, without the rest of the encoder; `Png` extends it | `png`; `HeatImageProofs` |
| `Huffman`, `Deflate`, `PngImage` | the other algorithms of `lodepng.c` | `png` |
| `Png` | `lodepng_encode`, step by step, and the reader | `png` |
| `Queues` | counting entries of a queue, and the order of their numbers | `QueueProofs` holds its lemmas |

The modules named `MC...` give constants, inputs and symmetry for TLC.
Definitions named "Mutant of ..." are variants of the definition below them with a
plausible bug; no specification uses them. `PROJECT.json` says which property
each of them breaks.

### BtModule

State: `state`, `conns`, `connCnt` are the variables of the C file (`connCnt`
wraps, the code's `uint8_t`, modulo `CntMod`). `linked`, `exchanging`, `advOn` are
what the host stack knows. `evq`, `msgq` are the two queues, `worker` where the
workqueue is, `thread` where the module thread is with its locals (`slot`, `off`, `len`
are `i`, `offset`, `transactionLength`; `space` is the size of `chunk[]`, from which
`decoded_chunk_size` follows). `live` counts payloads allocated and not freed. `heard`
and `orphan` are ghosts: how much of the message at hand each peer has heard, and whether
the entry it is sent through has lost a peer meanwhile.

`serialSend()` sizes `chunk[]` once and reads the MTU and the connection again in every
turn of its loop, so a turn is two actions. `EncodeChunk` cuts the chunk with the MTU of
that moment; when it is longer than `chunk[]` the stack of the thread is overwritten,
and the thread stops there or goes on unharmed (`SurviveOverrun`, which has no fairness).
`Notify` passes the chunk to the connection found then: to its peer, or, when the entry is
empty, to every peer that is subscribed (`heaty_service.c:60`, `serial_nrf91_bridge_service.c:90`).
So after a peer has left, the rest of its message goes to the next peer in the entry or to
all, as in the code; `HeardWholeOrNot` says who may hear a part, and that nobody else does.
Three things are simplified: the MTU is read once for each of its uses in a turn; of what overwriting the
stack can do, only stopping and nothing are considered; and the error event of
a chunk that was not sent is submitted with the notification, not 5 ms later.

Granularity: the BT RX thread and the workqueue are cooperative, so a callback or
a handler is one action unless it blocks: `HandleEvent` may leave the worker
`blocked` (`PutResumes`), and `advertise()` is cut where `bt_le_adv_start()` waits
for the controller. The module thread is preempted anywhere, so it is cut at every
access to shared variables: the check of an entry, the head of `serialSend()`,
every turn of its loop, the stop of advertising and the assignment after it.
`GetMessage` merges the return of `k_msgq_get` with the switch that follows;
nothing is done between them.

Of the environment: the host keeps advertising across connections while it has
connection objects (the `ONE_TIME` option is not used). `heaty_service_send_heat_map`
reports no error to a peer that is not subscribed; the bridge does.
`BT_EVT_START_ADVERTISING` is handled as in the code; nothing in the repository
submits it, so no run does. The data types are `HEAT`, base64 to every
connection, and `UART`, raw to bridge subscribers. Pictures of the data collector
go the way of `HEAT`.

### UartBridge

The driver is modelled from how `uart_handler.c` uses it: `rx` is its receiver
(buffer, next buffer, whether it will ask for one), `tx` its transmitter. Its
callbacks are the actions `RxReady`, `RxBufRequest`, `RxBufferFull`, `RxError`,
`RxStopped`, `TxDone`, which may come between any two steps. Events are handled
one by one; `uart_tx_enqueue()` is two steps, `TxPut` and `TxStart`, because
`UART_TX_DONE` may come between the ring buffer and the flag. Data is a length.
The driver refuses to enable until it has stopped, and every transfer it accepts
ends in `UART_TX_DONE`, one of no bytes too. `UART_TX_ABORTED` is left out: nothing
calls `uart_tx_abort()` and there is no flow control. `poll_dtr()` is one step:
both of its callers run in cooperative threads. `bleNet` and `overdrawn` are ghosts: CCC
writes that enabled less those that disabled, and whether that was ever negative.

### FsModule

The module thread is at `get`, `setup` (in `init_fs_module()`) or `write` (in
`fs_helper_file_write()`), the last two with the message it works on. `Setup` and
`Write` have one disjunct per way to end. `handles` counts the free file objects of
the file system: a short write returns without `fs_close()` (`fs_impl.c:168-171`).
`stored` is the sequence of parts on the card, `sent` how many parts control has
submitted. At most one error event exists at a time, which is proved, so the event
queue needs a bound for parts only. Requests come after the `READY` of main,
because the event queue is a FIFO and main submits first. Reading and deleting are
left out: nothing submits these requests.

### CloudPath and Feed

Two modules behind one workqueue: `msgq` holds the queues of both, `worker` the event
at hand and the listeners that have still to put it, in either order because the
linker orders listeners. A put is a step of its own (`Put`), which waits for
room; the copy of a payload is made before, in `HandleEvent`. `ready` and
`analysis` are the state and the message at hand of the analysis thread, `state` and
`mqtt` those of the MQTT thread, whose calls into the network are steps of their own
(`InitClient`, `Connect`, `Publish`), because the poll thread and callbacks run
meanwhile. `copies` and `strings` count `my_malloc` less `my_free`.

`session` is the session as the MQTT library and the broker have it: `none`,
`waiting` for the CONNACK, `refused`, `up`, `dead` (broken, and the library
does not know), `closed`. The library is external and modelled from how
`mqtt_client.c` uses it: it calls `mqtt_evt_handler` with `MQTT_EVT_CONNACK`
whatever the answer, disconnects with `MQTT_EVT_DISCONNECT` when reading, a ping or
a write fails, and answers later calls with an error and no event. A refused
connection is two steps, as in the code: `Connack` sets `CONNECTED`, `InputFails`
sets it right. `PollEnds` is the end of the loop that calls nobody back.

Readings are numbered and are values, heat maps, or other events of the link to the
nRF52840, which the analysis module copies and frees only. Their contents, topics and
the classifier are abstracted. `MQTT_EVT_CONNECT` and `MQTT_EVT_SUBSCRIBE` are left
out since nothing submits them; without a subscription nothing is received.
A publish that the broker has not acknowledged is not repeated by the code, so that
"reached the broker" is the step `Publish`.

`Feed` is the abstract view: readings are `taken`, some are `given` in their order
while the only session is open. `CloudPath` maps `given` to the ghost `published` and
`phase` to `Phase`, a function of `session`; `ImplementsFeed` says that it implements
`Feed` under this mapping.

### HeatPath

Every variable of the program but `ready` is a function of the side, `nrf52` or
`nrf91`. `worker`, `evq` and `msgq` are as in `CloudPath`. A message on the line is a
number of pieces (`Size`) and the zero byte; `mcu` is the message that the thread of
`mcu_exchange.c` is in `send_message()` with, and the piece that is next, since
`uart_poll_out()` is preempted between two bytes. `SendPiece` is one byte out
of one side and the receive interrupt of the other: `Receive` collects it, ends a
message at the zero byte, or empties a full buffer. `up` is false after
`parse_message()` has read the fields of text that is none (`utils.c:100`); the side
then does nothing until it restarts. `Restart` loses all of a side, also between two
pieces. `disturbed` is a ghost: it is set by a restart, and by a piece that
comes while the receive interrupt is not enabled yet. Bytes that the UART itself
drops or changes are not modelled. When `encode_message()` returns `NULL` nothing is sent
and the copy is freed (`mcu_exchange.c:93`): this is `EncodeFails`, and the ghost `unsent`
names the heat maps that it has cost. Allocations whose result the code uses without a test (the copies
of `event_handler()`, the items of `parse_message()`) are taken to succeed.

### HeatSensor and MlxEeprom

Two threads and the sensor: `thread` is at a step of `init_mlx60940_internal()`, each of
which is one transfer or more that may fail; `reader` is in `read_heat_map()`, cut at
every transfer, because the sensor (`Measure`) goes on between them. `chip` is the
status register, `control` the other one. `map` says of every pixel whether it was
computed, and with which auxiliary data: `ReadPage` keeps those of the reading before,
or what was on the stack, when `ValidateAuxData()` fails. The mode, resolution and rate that
`I2CWrite()` compares with `dataCheck`, a static that keeps its value, are the only
contents of registers. `device` is whether `MLX90640_I2CInit()` has found the bus
(`FindDevice`). When it has not, the start gives up, but the first reading was scheduled before
(`sensor_mlx90640.cpp:159`) and transfers through a `NULL` device
(`MLX90640_I2C_Driver.cpp:69`): `Fault`, after which the microcontroller stays stopped or
starts again (`Restart`, which has no fairness: what a fatal error does depends on the build). `overrun` and `sent.torn` are ghosts: of the two pages of the
map, one was finished before the flag of the other was cleared. The first map
is read 20 seconds after the start: the start has ended by then or never will, which
`SetInterval` and `Due` assume.

`MlxEeprom` computes what the firmware keeps of an EEPROM as far as it is integers (or
fractions with a fixed denominator): all fields, the pixels that are broken or
outliers, and the warnings. `kta[]` and `kv[]` are found by scaling, as in the code, with
integers for the doubles (`Doublings`, `Scaled`); `alpha[]` is not. `OffsetSum` is what is
stored to an `int16_t` and may wrap there. `Endless(ee)` says that the scaling loop
(`MLX90640_API.cpp:1208`) does not end. The pixels of a warning are listed and nothing
uses them: `BadPixelsCorrection` has no caller. Temperatures are left out.

### Companion and ImagePath

`Companion` is the app. Transitions are the list in the code; `events` is its stream of
events, handled one by one; `onEnter` is `Enter`. What it awaits is counted in
`asking` and `enabling`. Two things are taken from how the code uses Dart and
flutter_blue: waiting events are handled before the next input or answer (`Quiet`),
and an answer of the peripheral completes every call of its kind that waits, also
one from an earlier visit of the state. `sub` is the field that holds the
subscription, which stays non-null when it is cancelled, and `live` how many
subscriptions get notifications: a continuation that is resumed after its state
was left overwrites the field and leaves the other one listening, so that text is
collected twice (`ListenersCounted` bounds this, and `ReceivedIsTaken` shows that no wrong
image comes of it). `abandoned` is a ghost; it needs no bound, since presses have one.

`ImagePath` composes it with the device: `TakeImage` and `SendImageChunck` are the loop of
`camera_module.c`, `HandleCameraData` is `control.c` with the file it writes
(`Store`) and the texts it sends, `Tick` the clock that names files. Bytes are numbered, so
that files and received images can be compared with what was taken. An old file is
as long as `OldLen`: `fs_impl.c` opens it without truncating (`fs_impl.c:156` says
"unlink not required"), and `FilesHoldImage` allows the tail of an old file after a shorter image.
The queues to the card and to BLE keep their order and do not fail; failures are
the subject of `FsModule` and `BtModule`.

### Png and its algorithms

`modules/lodepng/` is a vendored library that the repository has adapted: the hash has
1024 values instead of 65536, the window is 32 instead of 2048, and a node of
`ColorTree` has 8 children instead of 16. The nRF9160 encodes every heat map with it.
`Png` takes a call (`job`) through `lodepng_encode`: the checks, the choice of a colour mode,
conversion, filters and interlacing, then for each block the string matcher, one turn of its
loops at a time, and the bits, then the chunks. The reader undoes it, whole or with bytes
missing at the end. The reader is on no device; it is modelled because it defines what an
encoded image means, and its definitions (`Inflate`, `Decode`, `Unfilter...`) come
from the decoder in the same file. A few calls compute only code lengths.

`Huffman` has code lengths by the boundary package-merge of the library, with its
lists as sequences; `Deflate` blocks and the zlib stream; `PngImage` colour modes, filters
and Adam7. Bits, bytes and samples are numbers in sequences. `RECURSIVE` operators are used
in these three, which `Png` extends, and no theorem is about them.

`Lz77` is the string matcher, `encodeLZ77()`. Its locals and the hash are a record `lz`;
`lz.phase` says where it is: about to `arrive` at a position, in the `search` along the
chains (`Try` is one turn of the loop), to `decide` what to do with the match
found, to `emit` a token, or to `cover` the positions of a match. The hash is a ring of
`windowsize` positions with two chains through it; its entries outlive the positions and the
block that they were made for. `head` and `headz`, which the code fills with -1, are
functions that grow. `countZeros()` and the comparison of bytes are a `CHOOSE` of the place where
their loops stop. `getHash()` is computed bit by bit, with exclusive or as an addition without carry,
and `HashBits` is the width of `HASH_BIT_MASK`.
`hash->zeros` is not initialised by the code: its slots are `Unset` here, and `SearchSound`
says that no such slot is a candidate.

`Matcher` is `lodepng_deflatev()` reduced to that matcher, on any data: blocks of
`BlockSize`, one hash for all of them, and a reader that undoes every token
as it comes (`told`, which is no state of the program; `Undo` is the copy loop of
`inflateHuffmanBlock()`). `Png` extends it: the data that the filters leave are its `data`
(`Filter` is a `SetData`), `EnterBlock` is its `Begin` or `OpenBlock`, `Match` its `NextTurn`
and `WriteBlock` its `CloseBlock` together with the bits. The data, the settings and the matcher are thus
written by several steps of `Png`, and `ImplementsMatcher` (`MatcherSpec`, of the encoder)
says that all of them together behave as `Matcher`: none replaces the data under a block, opens a block
with another hash, or goes on without closing one. What is proved of `Matcher` therefore
holds of the encoder, and `png` checks `MatchesReachBack` and `SearchSound`
in every state of it. Stored blocks, and blocks of single bytes (`use_lz77` is off), have no
part in the matcher and are one step (`Store`, `EncodePlain`).

The device asks for 8 bits of grey with the default settings. The calls also cover the other
modes and settings of the interface, with three exceptions, in which the library loses
data (no call of the device reaches them):
two colours of a palette that differ only in alpha (`lodepng.c:3125`, from the 8
children; the comment above still says 16 "because the alpha channel is used too"),
a palette of one bit with greys that need more (`lodepng.c:3828`), and empty input of
a zlib stream with stored or fixed blocks (`lodepng.c:2090-2100`: nothing is written,
or a division by zero, at which `Matcher` and `Png` stop). Left out are failing allocations (which `WRITEBIT`
and `addLengthDistance` do not notice, `lodepng.c:434-437`), the node
pool, CRCs, ancillary chunks, ICC profiles and files.

## 3. The runs

| run | instance | what it shows |
|---|---|---|
| `bt_links` | 2 peers, 2 entries, queue of 1, `UART` data of 20 bytes in MTUs of 17 | the table of connections, the ownership of payloads, overruns of `chunk[]`, and who hears a message, under every interleaving of callbacks and thread |
| `bt_live` | 2 peers, 1 entry, queue of 1, heat maps | chunks at whole base64 groups; the send of a heat map that started after the exchange ends; the button recovers |
| `bt_blocked` | as `bt_live` | **violation**: the workqueue blocks for good |
| `uart_bridge` | 3 blocks, 2 USB blocks, ring of 2, 3 events | blocks, transfers, USB blocks, and the count of subscribers against the port |
| `uart_retry` | USB only | **violation**: the receiver runs for nobody |
| `fs_module` | an image of 6 parts, a map of 2, queue of 2, 2 file objects, 2 events | recovery, payloads, order and completeness of files |
| `cloud_path` | 4 readings of three kinds, queues of 1 | order and uniqueness at the broker, ownership across two modules, states, and that a burst drains |
| `cloud_reconnect` | 1 reading | **violation**: no connection after the first |
| `heat_path` | 2 heat maps, queues of 1, a heat map of 2 pieces, a buffer of 3 | maps once and in order, toggles by presses only, faults only after a disturbance, copies freed, undisturbed maps that were encoded arrive |
| `image_path` | 2 images of 0 to 3 bytes in parts of 2, 5 presses, 3 seconds | images on the card and at the app, listeners, lost connections |
| `heat_sensor` | 2 lines of 4 pixels, 7 EEPROMs, 2 control registers | maps are whole, a start without error is usable, measuring goes on, or a missing bus is told before it faults |
| `png` | images of 2 to 20 pixels in 15 modes, byte strings up to 29, frequencies of 5 symbols | that the encoder behaves as `Matcher` around its blocks, what the tokens say and the search relies on, code lengths, round trip |

Bounds. Two peers on two entries let an entry be freed and taken again by another
peer, and on one entry make a peer wait for the other's; a queue of one fills with
one message, so the workqueue blocks often; 20 bytes take two chunks at the
smallest MTU (17 raw, 12 in base64), so a chunk can fail or a peer can leave
between two chunks. `bt_links` has that MTU only, and 0 before the exchange: an overrun
comes from 0. With two MTUs an entry that changes hands may overrun, too, which
`OverrunsNeedLateMtu` allows by `orphan`; the theorem is for any set of MTUs. `CntMod = 2` makes `conn_cnt` wrap within a run: the
first disconnect sets it to `CntMod - 1`, as in the code, and only that it is not
zero matters then. Three receive blocks are the code's `BRIDGE_UART_BUF_COUNT`: two
for the driver and one that an event holds. A ring of two bytes is emptied, filled
and overflows. `MaxEvents` bounds what waits in the event manager (error events of
`BtModule` beyond it are not appended) and `MaxNet` the CCC writes of one kind. Six
parts fill both queues, the blocked put and the thread, and leave some to submit
after a recovery. Queues of one (ten in the code) let the workqueue wait for the analysis
thread and for the MQTT thread in turn while both submit; four readings fill the
event queue, both message queues and both threads.

`heat_path`: a buffer of three pieces holds a heat map of two and overflows on a
second, as the 4 kB of the code do when a terminator is lost; `MCBudgets` lists which
inputs come together: two maps and a restart, a map with an error and a press,
a press and a restart. `image_path`: sizes 0, 1 and 3 are an empty image,
one part, and two with a shorter last one; budgets trade presses for images and
seconds. A notification is one
byte of an image: the cut into packets is `BtModule`'s. `heat_sensor`: four columns
let two pixels touch in a line, in a column, at a corner, and differ by one across the end of
a line; at least three columns are assumed in general (`GridAssumption`), the
library has 32. `png`: a byte string of 29 and a window of 8 make the rings wrap three
times; a window of one has no search at all, those of 8, 16 and 32 follow chains of at most 1, 2 and 4 candidates
(`windowsize / 8`); bytes 0 and 4 are such that the masked hash takes `0 0 4` for three zeros;
`MinBlock` and `MaxBlock` (65536 and 262144 in the code) are 9 and 10, so that an
image takes several blocks, and `MaxStored` (65535) is 8.

Types are a run's property in `bt_links`; elsewhere `TypeCorrect` is proved, or types are part of
the inductive invariant (`MatcherInv`).

`CHECK_DEADLOCK FALSE` stands in `FsModule.cfg`, where everything may have been
written, in the configurations of `BtModule`, where all may wait for a peer, and in
those of `CloudPath`, where all readings may have been taken, and in `HeatPath.cfg`,
`ImagePath.cfg` and `Png.cfg`, where all inputs may have been used.

Fairness. Safety runs have none. `bt_live` and `bt_blocked` assume that the
scheduler runs a ready thread (weak fairness of the module thread), that the
workqueue, a FIFO of work items, serves each pending item (strong fairness: an item
is disabled while the worker is blocked), that the controller answers, and that an
MTU exchange ends, with the ATT time-out at the latest. Peers, the button and other
modules owe nothing. `fs_module` assumes weak fairness of the workqueue and of
the module thread; control owes nothing. `ButtonRecovers` assumes in its formula that
presses go on being taken and that the controller does not refuse for ever.
`cloud_path` and `cloud_reconnect` assume that the
workqueue and the two module threads run when they can (a ready thread runs and a
call into the network returns, with a time-out at the latest); weak fairness is
enough because a thread that is enabled stays so until it acts. The poll thread may
wait in `poll()` for ever and the network owes nothing. Readings are bounded, so
`PathDrains` says that what a burst has allocated is freed in the end.
`CardRecovers` assumes that the card can be set up from some time on.
`heat_path` assumes weak fairness of the threads and workqueues of both sides; nobody
has to press and nothing has to restart. `image_path` assumes it of the device's
threads, of the events of the app and of notifications on a connection that stays; the
user, the peer's connection and the clock owe nothing. `heat_sensor` assumes that
threads run, that the delay of a work item passes and that the sensor measures; a
microcontroller that has faulted need not start again. `bt_live` assumes nothing of a
thread whose stack is overwritten.

## 4. What the violations show

- `bt_blocked`: between `connected()` and the end of the MTU exchange the usable MTU
  is 0. A heat map handled then has `decoded_chunk_size` 0, and
  `serialSend()` sends empty chunks for ever (`bt_module.c:638-671`). The queue
  fills and the listener blocks the workqueue. The comment at
  `modules_common.c:58-61` promises otherwise.
- `uart_retry`: `UART_RX_DISABLED` honours a retry noted before the last subscriber
  left (`uart_handler.c:175`), against the comment at `uart_handler.c:74`.
- `cloud_reconnect`: once the session is closed nothing connects again:
  `MQTT_EVT_CONNECT` has no sender and `CONFIG_MQTT_RECONNECT_DELAY_S`
  (`Kconfig.mqtt_module:50-52`) no user. Every later reading is refused and freed.

No run shows them, but they were met on the way: the subscriber count of the bridge
may become negative, against the assertion at `uart_handler.c:446`, because every CCC write is
an event (`bt_module.c:439-462`) and a client may disable without having enabled.
`CountNeverBelowPort` says that this is the only way: as long as BLE has not disabled more than
it had enabled, the assertion holds, and an open port is counted. Raw data is written past the end of `chunk[]` when the
MTU is exchanged in the middle of a send (`bt_module.c:660`), and only then, or when the
entry changes hands (`OverrunsNeedLateMtu`); the start of the sensor hangs on an EEPROM without supply coefficients; and
the three cases of `lodepng` above.

## 5. The proofs

Every theorem is about `Spec` (`MatcherSpec` in `Matcher`) for all values of the constants that satisfy the
named assumptions (`BtAssumption`, `UartAssumption`, `FsAssumption`,
`CloudAssumption`, `HeatAssumption`, `GridAssumption`, `SensorAssumption`,
`NoMsgAssumption`, `AppAssumption`, `ImageAssumption`, `MatcherAssumption`): any sets of peers, blocks and
files, any queue lengths, sizes and MTUs of at least 23, any data and settings to compress. All follow one pattern: types
first, then a strengthening that is inductive together with `TypeOK`, one step per action.
Every invariant of a run is proved, except `CodesOptimal` and `Restored` of `png`.

- `QueueProofs`: what `Append` and `Tail` do to the number of entries of a kind,
  from the facts on finite sets; all accounting invariants rest on it. And what they do
  to the order of numbers: a `Chain` is a sequence of stages (queues, a thread, a blocked
  put) in which all numbers of one are before those of the next; `ChainMove` says that it
  stays one when an entry moves to the next stage, `ChainShrink` when one is dropped.
- `BtModuleProofs`: the usable MTU is 1 modulo 4 and at least 17, a full chunk fills it
  exactly, and `ChunksFit`; `TypeCorrect`; `PayloadsCorrect` by counting messages over the
  queue, the worker and the thread; `ChunksCorrect`, strengthened by: the chunk size
  is a multiple of three and the offset is one too or at the end;
  `SlotsCorrect`, inductive with the types, by a pigeonhole lemma: as long as the
  host has a connection object left, an entry is free for the peer that gets it;
  `OverrunsCorrect`, strengthened by `RoomInv`: an MTU belongs to a peer whose exchange is over, so
  it does not change until the peer leaves, and `chunk[]` has its size unless the send began
  before it or the entry was orphaned; `HeardCorrect`, strengthened by `HeardInv`: the peer of the entry has
  heard as many bytes as the offset says, those of later entries none, and the others all or
  none.
- `UartBridgeProofs`: `TypeCorrect`; `TxFlagCorrect`, inductive with the types;
  `RefsCorrect`, over the kinds of holders; `CdcBlocksCorrect`; `CountCorrect`, from the
  balance (`SubscribersAccounted`: the count and the announcements that wait are the port and
  the CCC writes) and `CountInv`: no beginning of the queue brings the count below zero.
- `FsModuleProofs`: `TypeCorrect`; `RecoveryCorrect`, strengthened by
  `SetupConsumes`: the card is set up for the very message that the state asks for, so
  that the step that leaves the state uses up the event that led to it;
  `PayloadsCorrect`; `PartsCorrect`: the card, the thread, its queue, the blocked put and the
  event queue are a chain of the parts of each file, strengthened by `Unreported`: until an error
  is reported the module leaves `INIT` only with `READY`, which is before all parts (`ReadyFirst`).
- `CloudPathProofs`: `TypeCorrect`; `HeapCorrect` by counting over two queues, the
  workqueue and two threads; `StateCorrect`, strengthened by `ConnInv`: a thread about to
  connect is in `DISCONNECTED` with no session, so the callbacks come after its last
  write; `ErrorCorrect`, strengthened by `StartInv`: until the client is set up no
  notice exists, because `READY` is the first message and `INIT`, once left, does not
  come back; `FeedImplemented`, step by step: a reading that is submitted is `Take` of
  `Feed`, `Publish` is `Give`, a change of the session is `Open` or `Close`, everything else
  a stutter. It rests on the chain of eight stages from the first event queue to the MQTT thread:
  what is published next is behind all that was published before.
- `HeatPathProofs`: `TypeCorrect`; `LineInStep`, where a step of one side and the receive
  interrupt of the other keep the buffer equal to what was sent;
  `FaultsNeedACut`, strengthened by `Traffic`: which messages may be in which queue of
  which side (`May`), and that what is in a `DATA` event is a whole message as long as
  nothing was disturbed; `CopiesFreed` by counting over the two queues of a side and its thread;
  `MapsKeepTheirOrder`, by the chain of heat maps over fourteen places, from the sensor over the line
  to the analysis: a message on the line is where its first piece is, and one that is cut,
  glued to another or thrown away only leaves the chain, as everything of a side does that
  restarts. `PressesToggle` counts presses over the places of the other way: each step moves
  one on or drops it.
- `HeatImageProofs`, of the sensor: `ModestParametersFit`, that with offsets and slopes of moderate
  size (`OffsetsModest`, `KtaModest`) every integer kept of an EEPROM, those of each pixel as
  well but for `alpha[]`, fits the variable that it is stored in, and `ParametersMayOverflow`, that without this
  an offset wraps and a `kta` does not fit, by an EEPROM that does so; `DefectsFound`, that extraction without a warning has seen every
  defect although its search stops early, and that no two of them touch; `TypeCorrect`;
  `ReadyIsUsable`, strengthened by `Started`: what each step of the start has done;
  `MapsAreWhole`, strengthened by `Pages`: the pixels written so far are those of the
  subpages read (`Written`), and the next is the other one unless the sensor overran
  (`Reading`, `OtherSubpageNext`); `FaultsAreTold`, the part of `HeatCycles` that is an invariant,
  strengthened by `Told`: until a bus is found nothing is transferred, and a start that
  has looked for one in vain has failed.
- `HeatImageProofs`, of the string matcher: `TokensSayTheData` and
  `SearchIsSound`, both from one invariant, `MatcherInv`, about the number `v` of positions that
  have been visited, which is the position or one or two more, by the phase (`Arriving`, `Searching`,
  `Emitting`, `Covering`). `Ring` says what `v` visits leave in the hash: heads are unset
  or slots of visited positions; a link of a chain stays where it is or leads to a
  slot that was written; and the streak recorded for each of the last
  `windowsize` positions is one of zeros that are there (`IsStreak`). From it follows that a
  candidate is a byte of the data less than a window back (`CandidateOK`, by `SlotPosition`: which position a slot
  stands for), that the bytes skipped unseen agree because both sides are zeros, and so that
  the match found is one (`IsMatch`), as is the one deferred at the position before
  (`Deferring`). A deferred match that is taken after all steps back
  behind what was visited, which is why `v` may run ahead, and why a position may be entered in the ring
  twice (`RingStep`). With `IsMatch`, undoing a token adds the next bytes of the data
  (`ToldOK`). None of it needs the hash to mean anything: the proof holds for every
  `HashBits`, and the mask of ten bits of this repository costs compression only.
  The places where loops stop (`CountZeros`, `MatchLength`) exist by `WalkStops`, and that a match
  which overlaps itself repeats what it repeats is shown of the first byte that would
  differ; both rest on `LeastElement`, that a set of naturals has a least one.
- `ImagePathProofs`, of the app: `LossTold`, strengthened by `LossInv`: the state of a device is
  listened to only while there is one, and a `connected` that waits waits alone, with the
  connection still there;
  `ListenersCorrect`, strengthened by `ListenInv`: outside of a discovery the field `sub` can
  cancel the one listener that no abandoned call accounts for. Of the image: `TypeCorrect`, with what is in each queue
  (`QueuesOK`). `ReceivedCorrect` is an argument about one stream, from the camera over the
  event queue (`PartsInv`: parts are contiguous) and `ble` and `air` (`WireInv`: a byte follows the one
  before it or the header of its image, and a header follows a zero byte) to the text
  collected (`TextInv`). What is lost when a connection ends leaves a gap in that stream; but then the
  text is cleared before it is added to again (`ConnInv`: the event that clears it
  waits as long as nobody listens). In the text, places grow by at most one from byte to byte, also
  when several listeners repeat it, so that a text with one header and as many
  bytes as that announced has each byte once. `CardCorrect` follows the bytes to the files: those
  on the card are before all that are still to come (`BytesPlaced`, `Coming`, `QueueOrder`), the seconds of an
  image are past (`SecondsPast`), so parts are only ever added behind, and a first part, which
  is written over an older file, meets no byte of its own image (`NothingMissing`).

The properties on order were stated with filtered and flattened sequences before
(`SelectSeq`, `FlattenSeq`), about which nothing can be proved here, since they are
recursive. They are stated by positions now (`Before`, `InOrder`, `Held`, `Ordered`), which TLC
found to be the same on every state; and `Process` of `Companion` removes the one header of a text
by its position.

Only model-checked: liveness (`HeatSendEnds`, `ButtonRecovers`, `CardRecovers`,
`PathDrains`, `MapArrives`, `ImageArrives`, `HeatCycles`), which the prover's temporal backend
cannot derive from fairness; and in `Png`, whose other algorithms are recursive,
`CodesOptimal`, `Restored` and `ImplementsMatcher`. The last is the link from the theorems about
`MatcherSpec` to the run `png`, whose specification is that of `Png`.

## 6. Not modelled, and the plan

Not modelled, by component:

- `https_client.c`: an adapted sample, one sequential request of blocking calls. It keeps
  no state that a later call depends on. (It does not return its socket to the caller
  and releases neither the sockets nor the header buffer on every path.)
- memory hooks and statistics: compiled for the nRF9160 with
  `CONFIG_HEAP_MEMORY_STATISTICS` only. Its totals are updated outside the lock
  (`memory_statistics.c:90`) and read by the log alone; ownership of
  memory is checked in the modules that own it.
- watchdog, settings, shell commands, LEDs and `usb_console.c`: glue and diagnostics.
- registers of the camera (`modules/camera/arducam_mini_2mp/`): tables of constants and
  transfers, from which only the length of an image enters.
- floating-point temperatures, `BadPixelsCorrection` and other functions of the
  sensor library that nothing calls.
- settings of the camera, which never arrive since it stays in `STATE_INIT`
  (`camera_module.c:154`).
- attribute tables, baud rates, power states that are not configured, text of messages,
  `analysis_impl.c` (in no build file) and the generated classifier.
- of `lodepng`: what "Png and its algorithms" lists.

What would come next, in this order: heat maps in `Companion`; the composition of `ImagePath`
with a card that fails, through `FsModule`; and code lengths (`Huffman`) without recursive
operators, so that `CodesOptimal` can be proved.
