----------------------------- MODULE UartBridge -----------------------------
(***************************************************************************)
(* The UART bridge of the nRF52840: uart_handler.c with the UART driver    *)
(* below it and its subscribers, the USB port (usb_cdc_handler.c) and the  *)
(* BLE client of bt_module.c, above it.                                    *)
(*                                                                         *)
(* The driver's callbacks are interrupts and may come between any two      *)
(* steps; events are handled one after the other on the system workqueue.  *)
(* A handler is one step except for uart_tx_enqueue(), whose two halves    *)
(* (the ring buffer, the flag) the UART_TX_DONE interrupt can separate.    *)
(*                                                                         *)
(* Not here: UART_TX_ABORTED, which nothing can cause (no uart_tx_abort()  *)
(* and no flow control); PM_DEVICE, which is not configured; baud rates.   *)
(***************************************************************************)
EXTENDS Queues, Integers

CONSTANTS
  Blocks,     (* blocks of uart_rx_slab: CONFIG_BRIDGE_UART_BUF_COUNT      *)
  None,       (* no block (NULL)                                           *)
  CdcBlocks,  (* number of blocks of cdc_rx_slab: USB_CDC_RX_BLOCK_COUNT   *)
  RingSize,   (* capacity of the TX ring buffer                            *)
  TxLens,     (* the lengths of data that USB and BLE peers send           *)
  BleWrites,  (* what the BLE client may write to the CCC of the bridge    *)
  MaxEvents,  (* bound: events waiting for the workqueue                   *)
  MaxNet      (* bound: CCC writes of one kind beyond those of the other   *)

ASSUME UartAssumption ==
  /\ None \notin Blocks
  /\ CdcBlocks \in Nat
  /\ RingSize \in Nat
  /\ TxLens \subseteq Nat \ {0}
  /\ BleWrites \subseteq BOOLEAN
  /\ MaxEvents \in Nat
  /\ MaxNet \in Nat

VARIABLES
  count,      (* subscriber_count                                          *)
  retry,      (* enable_rx_retry                                           *)
  rx,         (* the driver's receiver: off, on or stopping, the buffer it *)
              (* fills, the next one, and whether it will ask for one      *)
  refs,       (* ref_counter of each block                                 *)
  slab,       (* the free blocks of uart_rx_slab                           *)
  events,     (* the event manager's queue                                 *)
  worker,     (* the workqueue: idle, or in uart_tx_enqueue() for an event *)
  ring,       (* bytes in the TX ring buffer                               *)
  txStarted,  (* uart_tx_started                                           *)
  tx,         (* the driver's transmitter: busy, and with how many bytes   *)
  cdcFree,    (* number of free blocks of cdc_rx_slab                      *)
  cdcReady,   (* cdc_ready: the DTR line as last polled                    *)
  line,       (* the DTR line as the USB host has set it                   *)
  bleNet,     (* ghost: CCC writes that enabled minus those that disabled  *)
  overdrawn   (* ghost: there have once been more that disabled            *)

rxVars == <<rx, refs, slab>>
txVars == <<ring, txStarted, tx>>
usbVars == <<cdcFree, cdcReady, line>>
ghosts == <<bleNet, overdrawn>>
vars == <<count, retry, rxVars, events, worker, txVars, usbVars, ghosts>>

NoReceiver == [st |-> "off", buf |-> None, next |-> None, ask |-> FALSE]
Receiver == [st : {"off", "on", "stopping"}, buf : Blocks \union {None},
             next : Blocks \union {None}, ask : BOOLEAN]

DataEvent(b) == [kind |-> "uart_data", block |-> b]
TxEvent(kind, n) == [kind |-> kind, len |-> n]
PeerEvent(on) == [kind |-> "peer_conn", on |-> on]

TxEvents == {TxEvent(kind, n) : kind \in {"cdc_data", "ble_data"}, n \in TxLens}
PeerEvents == {PeerEvent(on) : on \in BOOLEAN}
Events == {DataEvent(b) : b \in Blocks} \union TxEvents \union PeerEvents

WorkerIdle == [pc |-> "idle", ev |-> None]

Room == Len(events) < MaxEvents

-----------------------------------------------------------------------------
(* Reference-counted receive blocks *)

(* uart_rx_buf_unref(): the last reference returns the block to the slab. *)
Unref(b) ==
  /\ refs' = [refs EXCEPT ![b] = @ - 1]
  /\ slab' = IF refs[b] = 1 THEN slab \union {b} ELSE slab

(***************************************************************************)
(* enable_uart_rx(), from the counters and the free blocks it finds: a     *)
(* block is allocated with one reference and given to the driver, which    *)
(* refuses it (-EBUSY) until it has stopped, and it is released again.     *)
(* With wanted = FALSE the receiver has just stopped and stays so.         *)
(***************************************************************************)
EnableRx(wanted, free, counts) ==
  IF wanted /\ free # {}
  THEN \E b \in free :
         /\ rx' = [st |-> "on", buf |-> b, next |-> None, ask |-> TRUE]
         /\ refs' = [counts EXCEPT ![b] = 1]
         /\ slab' = free \ {b}
  ELSE rx' = NoReceiver /\ refs' = counts /\ slab' = free

-----------------------------------------------------------------------------
(* The interrupts of the UART driver: uart_callback() *)

(* Mutant of RxReady: the event gets no reference of its own. *)
RxReadyUnreferenced ==
  /\ rx.buf # None
  /\ rx.st = "on"
  /\ Room
  /\ events' = Append(events, DataEvent(rx.buf))
  /\ UNCHANGED <<count, retry, rxVars, worker, txVars, usbVars, ghosts>>

(* UART_RX_RDY: a reference for the event that carries the data. *)
RxReady ==
  /\ rx.buf # None
  /\ rx.st = "on"
  /\ Room
  /\ refs' = [refs EXCEPT ![rx.buf] = @ + 1]
  /\ events' = Append(events, DataEvent(rx.buf))
  /\ UNCHANGED <<count, retry, rx, slab, worker, txVars, usbVars, ghosts>>

(* UART_RX_BUF_REQUEST: the driver gets a next block, or RX overflows. *)
RxBufRequest ==
  /\ rx.ask
  /\ IF slab = {}
     THEN rx' = [rx EXCEPT !.ask = FALSE] /\ UNCHANGED <<refs, slab>>
     ELSE \E b \in slab :
            /\ rx' = [rx EXCEPT !.ask = FALSE, !.next = b]
            /\ refs' = [refs EXCEPT ![b] = 1]
            /\ slab' = slab \ {b}
  /\ UNCHANGED <<count, retry, events, worker, txVars, usbVars, ghosts>>

(***************************************************************************)
(* The buffer is full: UART_RX_RDY for its data, UART_RX_BUF_RELEASED, and *)
(* the driver goes on with the next buffer or stops when it has none.      *)
(***************************************************************************)
RxBufferFull ==
  /\ rx.st = "on" /\ rx.buf # None /\ ~rx.ask
  /\ Room
  /\ events' = Append(events, DataEvent(rx.buf))
  /\ rx' = IF rx.next # None
           THEN [st |-> "on", buf |-> rx.next, next |-> None, ask |-> TRUE]
           ELSE [NoReceiver EXCEPT !.st = "stopping"]
  /\ UNCHANGED <<count, retry, refs, slab, worker, txVars, usbVars, ghosts>>

(* UART_RX_STOPPED: a line error; the driver stops, a retry is noted. *)
RxError ==
  /\ rx.st = "on"
  /\ retry' = TRUE
  /\ rx' = [rx EXCEPT !.st = "stopping"]
  /\ UNCHANGED <<count, refs, slab, events, worker, txVars, usbVars, ghosts>>

(***************************************************************************)
(* The receiver has stopped: UART_RX_RDY for the data not yet reported, if *)
(* there is any (its event inherits the driver's reference), the buffers   *)
(* are released, and UART_RX_DISABLED enables the receiver again if a      *)
(* retry is noted.                                                         *)
(***************************************************************************)
RxStopped ==
  /\ rx.st = "stopping" /\ ~rx.ask
  /\ \E flushed \in BOOLEAN :
       LET held   == {rx.buf, rx.next} \ {None}
           drop   == IF flushed THEN held \ {rx.buf} ELSE held
           counts == [b \in Blocks |-> IF b \in drop THEN refs[b] - 1 ELSE refs[b]]
           free   == slab \union {b \in drop : refs[b] = 1}
       IN  /\ flushed => rx.buf # None /\ Room
           /\ events' = IF flushed THEN Append(events, DataEvent(rx.buf)) ELSE events
           /\ EnableRx(retry, free, counts)
  /\ retry' = FALSE
  /\ UNCHANGED <<count, worker, txVars, usbVars, ghosts>>

(***************************************************************************)
(* uart_tx_start(): the driver is given what is contiguous in the ring     *)
(* buffer, which holds n bytes and may have become empty.  The driver      *)
(* reports every transfer it accepts as done, one of no bytes as well.     *)
(***************************************************************************)
Lengths(n) == IF n = 0 THEN {0} ELSE 1 .. n
Transfer(n) == {[busy |-> TRUE, len |-> k] : k \in Lengths(n)}

NoTransfer == [busy |-> FALSE, len |-> 0]

(* Mutant of TxDone: what has been appended meanwhile is left waiting. *)
TxDoneLeavesRest ==
  /\ tx.busy
  /\ ring' = ring - tx.len
  /\ txStarted' = FALSE
  /\ tx' = NoTransfer
  /\ UNCHANGED <<count, retry, rxVars, events, worker, usbVars, ghosts>>

(* UART_TX_DONE: the flag is cleared, or the rest is transmitted. *)
TxDone ==
  /\ tx.busy
  /\ ring' = ring - tx.len
  /\ IF ring = tx.len
     THEN txStarted' = FALSE /\ tx' = NoTransfer
     ELSE tx' \in Transfer(ring - tx.len) /\ UNCHANGED txStarted
  /\ UNCHANGED <<count, retry, rxVars, events, worker, usbVars, ghosts>>

-----------------------------------------------------------------------------
(* The peers *)

(* The USB host opens or closes the port. *)
SetLine(on) ==
  /\ line' = on
  /\ UNCHANGED <<count, retry, rxVars, events, worker, txVars, cdcFree,
                 cdcReady, ghosts>>

(* Mutant of PollDtr: the port found closed is not remembered as closed. *)
PollDtrForgetsFall ==
  /\ line # cdcReady
  /\ Room
  /\ events' = Append(events, PeerEvent(line))
  /\ cdcReady' = (cdcReady \/ line)
  /\ UNCHANGED <<count, retry, rxVars, worker, txVars, cdcFree, line, ghosts>>

(* poll_dtr(), by the timer or before the data of a port not known open. *)
PollDtr ==
  /\ line # cdcReady
  /\ Room
  /\ events' = Append(events, PeerEvent(line))
  /\ cdcReady' = line
  /\ UNCHANGED <<count, retry, rxVars, worker, txVars, cdcFree, line, ghosts>>

(***************************************************************************)
(* cdc_uart_interrupt_handler(): the port is polled when it is not known   *)
(* open, and the data is copied to a block or dropped.                     *)
(***************************************************************************)
CdcReceive(n) ==
  LET polled == IF ~cdcReady /\ line THEN <<PeerEvent(TRUE)>> ELSE <<>>
      data == IF cdcFree > 0 THEN <<TxEvent("cdc_data", n)>> ELSE <<>>
  IN  /\ Len(events \o polled \o data) <= MaxEvents
      /\ events' = events \o polled \o data
      /\ cdcReady' = (cdcReady \/ line)
      /\ cdcFree' = cdcFree - Len(data)
      /\ UNCHANGED <<count, retry, rxVars, worker, txVars, line, ghosts>>

(* bt_send_nrf9160_bridge_enabled_cb(): an event for every write. *)
BleCcc(on) ==
  /\ Room
  /\ IF on THEN bleNet < MaxNet ELSE bleNet > -MaxNet
  /\ events' = Append(events, PeerEvent(on))
  /\ bleNet' = IF on THEN bleNet + 1 ELSE bleNet - 1
  /\ overdrawn' = (overdrawn \/ bleNet' < 0)
  /\ UNCHANGED <<count, retry, rxVars, worker, txVars, usbVars>>

(* bt_receive_nrf9160_bridge_cb(): data for the UART. *)
BleReceive(n) ==
  /\ Room
  /\ events' = Append(events, TxEvent("ble_data", n))
  /\ UNCHANGED <<count, retry, rxVars, worker, txVars, usbVars, ghosts>>

-----------------------------------------------------------------------------
(* The workqueue: event_handler() *)

Takes(kind) ==
  /\ worker.pc = "idle"
  /\ events # <<>>
  /\ Head(events).kind = kind
  /\ events' = Tail(events)

(* uart_data_event: the subscribers before this one have copied the data. *)
HandleData ==
  /\ Takes("uart_data")
  /\ Unref(Head(events).block)
  /\ UNCHANGED <<count, retry, rx, worker, txVars, usbVars, ghosts>>

(***************************************************************************)
(* peer_conn_event: a subscriber more or less; the last one to leave       *)
(* disables the receiver (refused when it has no buffer), the first one    *)
(* enables it.                                                             *)
(***************************************************************************)
HandlePeer ==
  LET now == IF Head(events).on THEN count + 1 ELSE count - 1
  IN  /\ Takes("peer_conn")
      /\ count' = now
      /\ \/ /\ now = 0
            /\ rx' = IF rx.buf # None THEN [rx EXCEPT !.st = "stopping"] ELSE rx
            /\ UNCHANGED <<refs, slab>>
         \/ now # 0 /\ count = 0 /\ rx.st = "off" /\ EnableRx(TRUE, slab, refs)
         \/ now # 0 /\ count = 0 /\ rx.st # "off" /\ UNCHANGED rxVars
         \/ now # 0 /\ count # 0 /\ UNCHANGED rxVars
      /\ UNCHANGED <<retry, worker, txVars, usbVars, ghosts>>

(* The block of a cdc_data_event is freed after the last listener. *)
CdcBlockOf(ev) == IF ev.kind = "cdc_data" THEN 1 ELSE 0

(* Mutant of TxPut: data that is dropped keeps its block. *)
TxPutLeaksBlock ==
  LET written == IF Head(events).len < RingSize - ring
                 THEN Head(events).len ELSE RingSize - ring
  IN  /\ \E kind \in {"cdc_data", "ble_data"} : Takes(kind)
      /\ ring' = ring + written
      /\ worker' = IF written = 0 THEN worker ELSE [pc |-> "put", ev |-> Head(events)]
      /\ UNCHANGED <<count, retry, rxVars, txStarted, tx, usbVars, ghosts>>

(***************************************************************************)
(* uart_tx_enqueue(), first half: ring_buf_put() takes what it has room    *)
(* for; with no room at all the data is dropped.                           *)
(***************************************************************************)
TxPut ==
  LET written == IF Head(events).len < RingSize - ring
                 THEN Head(events).len ELSE RingSize - ring
  IN  /\ \E kind \in {"cdc_data", "ble_data"} : Takes(kind)
      /\ ring' = ring + written
      /\ IF written = 0
         THEN cdcFree' = cdcFree + CdcBlockOf(Head(events)) /\ UNCHANGED worker
         ELSE worker' = [pc |-> "put", ev |-> Head(events)] /\ UNCHANGED cdcFree
      /\ UNCHANGED <<count, retry, rxVars, txStarted, tx, cdcReady, line,
                     ghosts>>

(***************************************************************************)
(* uart_tx_enqueue(), second half: the flag is set, and the transmission   *)
(* started unless the flag was set.  uart_tx() fails when one is under way *)
(* (the claim is given back and the flag cleared).  The ring buffer may    *)
(* have been emptied since the first half.                                 *)
(***************************************************************************)
TxStart ==
  /\ worker.pc = "put"
  /\ \/ txStarted /\ UNCHANGED <<txStarted, tx>>
     \/ ~txStarted /\ ~tx.busy /\ txStarted' = TRUE /\ tx' \in Transfer(ring)
     \/ ~txStarted /\ tx.busy /\ UNCHANGED <<txStarted, tx>>
  /\ cdcFree' = cdcFree + CdcBlockOf(worker.ev)
  /\ worker' = WorkerIdle
  /\ UNCHANGED <<count, retry, rxVars, events, ring, cdcReady, line, ghosts>>

-----------------------------------------------------------------------------
(* Specification *)

(* After main's READY: event_handler() has initialised the device. *)
Init ==
  /\ count = 0
  /\ retry = FALSE
  /\ rx = NoReceiver
  /\ refs = [b \in Blocks |-> 0]
  /\ slab = Blocks
  /\ events = <<>>
  /\ worker = WorkerIdle
  /\ ring = 0
  /\ txStarted = FALSE
  /\ tx = NoTransfer
  /\ cdcFree = CdcBlocks
  /\ cdcReady = FALSE
  /\ line = FALSE
  /\ bleNet = 0
  /\ overdrawn = FALSE

Driver ==
  \/ RxReady
  \/ RxBufRequest
  \/ RxBufferFull
  \/ RxError
  \/ RxStopped
  \/ TxDone

UsbAndBle ==
  \/ \E on \in BOOLEAN : SetLine(on)
  \/ PollDtr
  \/ \E on \in BleWrites : BleCcc(on)
  \/ \E n \in TxLens : CdcReceive(n) \/ BleReceive(n)

Workqueue == HandleData \/ HandlePeer \/ TxPut \/ TxStart

Next == Driver \/ UsbAndBle \/ Workqueue

Spec == Init /\ [][Next]_vars

-----------------------------------------------------------------------------
(* Properties *)

RxOK ==
  /\ count \in Int
  /\ retry \in BOOLEAN
  /\ rx \in Receiver
  /\ rx.st = "off" => rx = NoReceiver
  /\ rx.ask => rx.next = None
  /\ refs \in [Blocks -> Int]
  /\ slab \subseteq Blocks

QueueOK ==
  /\ events \in Seq(Events)
  /\ worker \in [pc : {"idle", "put"}, ev : TxEvents \union {None}]
  /\ worker.pc = "put" => worker.ev \in TxEvents

TxOK ==
  /\ ring \in 0 .. RingSize
  /\ txStarted \in BOOLEAN
  /\ tx \in [busy : BOOLEAN, len : 0 .. RingSize]
  /\ tx.len <= ring
  /\ ~tx.busy => tx.len = 0

PeersOK ==
  /\ cdcFree \in Nat
  /\ cdcReady \in BOOLEAN
  /\ line \in BOOLEAN
  /\ bleNet \in Int
  /\ overdrawn \in BOOLEAN

(* The types of the variables of the two handlers and of the driver: the   *)
(* driver has no next buffer while it asks for one, and no more bytes are  *)
(* given to it than the ring buffer holds.                                 *)
TypeOK == RxOK /\ QueueOK /\ TxOK /\ PeersOK

DriverHolds(b) == IF b \in {rx.buf, rx.next} THEN 1 ELSE 0

(***************************************************************************)
(* A receive block is referenced once by the driver that may write into it *)
(* and once by every event whose data lies in it; it is in the slab exactly *)
(* when nothing refers to it.  So no block is handed out again while an    *)
(* event still points into it, and none is lost, however the interrupts    *)
(* and the handlers interleave.                                            *)
(***************************************************************************)
RefsMatchHolders ==
  /\ rx.buf # None => rx.buf # rx.next
  /\ \A b \in Blocks :
       /\ refs[b] = DriverHolds(b) + CountIn(events, {DataEvent(b)})
       /\ b \in slab <=> refs[b] = 0

(***************************************************************************)
(* uart_tx_started tells the truth at every interrupt: it is set exactly   *)
(* when the driver transmits, so uart_tx() never fails and two transfers   *)
(* never overlap; and bytes wait without a transfer only while the         *)
(* workqueue is about to start one, so no wake-up is lost.                 *)
(***************************************************************************)
TxFlagTruthful ==
  /\ txStarted <=> tx.busy
  /\ ring > 0 /\ ~txStarted => worker.pc = "put"

(* A block of the USB slab is free or belongs to one cdc_data_event. *)
CdcBlocksAccounted ==
  CdcBlocks = cdcFree + CountIn(events, {TxEvent("cdc_data", n) : n \in TxLens})
                + (IF worker.pc = "put" THEN CdcBlockOf(worker.ev) ELSE 0)

(***************************************************************************)
(* uart_handler.c:446 asserts that the count is never negative: it is not, *)
(* in whatever order the polls of the port, its data and the CCC writes    *)
(* reach the queue, as long as BLE has never disabled more than it had     *)
(* enabled (each write is an event, one that changes nothing as well); and *)
(* no write of BLE makes the handler forget the port: while it is open and *)
(* nothing is waiting, the count keeps the receiver from being disabled.   *)
(***************************************************************************)
CountNeverBelowPort ==
  ~overdrawn =>
    /\ count >= 0
    /\ cdcReady /\ (\A i \in DOMAIN events : events[i] \notin PeerEvents) => count > 0

(***************************************************************************)
(* uart_handler.c:74: "UART RX only enabled when there is one or more      *)
(* subscribers (power saving)".                                            *)
(***************************************************************************)
RxOnlyForSubscribers == rx.st = "on" => count > 0

=============================================================================
