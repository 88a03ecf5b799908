-------------------------- MODULE UartBridgeProofs --------------------------
(***************************************************************************)
(* What the UART bridge keeps for every number of blocks and size of the   *)
(* ring buffer, and every bound of the model.                              *)
(***************************************************************************)
EXTENDS UartBridge, QueueProofs

-----------------------------------------------------------------------------
(* Events *)

(* Events of different kinds are different, and say what they were made of. *)
LEMMA EventsDiffer ==
  /\ \A b : DataEvent(b).kind = "uart_data" /\ DataEvent(b).block = b
  /\ \A k, n : TxEvent(k, n).kind = k /\ TxEvent(k, n).len = n
  /\ \A on : PeerEvent(on).kind = "peer_conn" /\ PeerEvent(on).on = on
BY DEF DataEvent, TxEvent, PeerEvent

(* An event at the head of the queue is of one of the kinds. *)
LEMMA EventKinds ==
  ASSUME NEW e \in Events
  PROVE  /\ e.kind = "uart_data" => e.block \in Blocks /\ e = DataEvent(e.block)
         /\ e.kind \in {"cdc_data", "ble_data"} => e \in TxEvents /\ e.len \in TxLens
         /\ e.kind = "peer_conn" => e.on \in BOOLEAN /\ e = PeerEvent(e.on)
<1>1. CASE \E b \in Blocks : e = DataEvent(b)
  BY <1>1, EventsDiffer
<1>2. CASE e \in TxEvents
  <2>1. PICK k \in {"cdc_data", "ble_data"}, n \in TxLens : e = TxEvent(k, n)
    BY <1>2 DEF TxEvents
  <2>2. e.kind = k /\ e.len = n
    BY <2>1, EventsDiffer
  <2>3. QED
    BY <1>2, <2>2
<1>3. CASE \E on \in BOOLEAN : e = PeerEvent(on)
  <2>1. PICK on \in BOOLEAN : e = PeerEvent(on)
    BY <1>3
  <2>2. e.kind = "peer_conn" /\ e.on = on
    BY <2>1, EventsDiffer
  <2>3. QED
    BY <2>1, <2>2
<1>4. QED
  BY <1>1, <1>2, <1>3 DEF Events, PeerEvents

-----------------------------------------------------------------------------
(* Types *)

LEMMA RxKept ==
  ASSUME TypeOK, UNCHANGED <<count, retry, rxVars>>
  PROVE  RxOK'
BY DEF TypeOK, RxOK, rxVars

LEMMA TxKept ==
  ASSUME TypeOK, UNCHANGED txVars
  PROVE  TxOK'
BY DEF TypeOK, TxOK, txVars

LEMMA PeersKept ==
  ASSUME TypeOK, UNCHANGED <<usbVars, ghosts>>
  PROVE  PeersOK'
BY DEF TypeOK, PeersOK, usbVars, ghosts

LEMMA QueueKept ==
  ASSUME TypeOK, UNCHANGED worker, events' \in Seq(Events)
  PROVE  QueueOK'
BY DEF TypeOK, QueueOK

(* An event of each kind may be appended, and the first one taken. *)
LEMMA EventsTyped ==
  ASSUME TypeOK
  PROVE  /\ events \in Seq(Events)
         /\ \A e \in Events : Append(events, e) \in Seq(Events)
         /\ events # <<>> => Head(events) \in Events /\ Tail(events) \in Seq(Events)
         /\ \A b \in Blocks : DataEvent(b) \in Events
         /\ TxEvents \subseteq Events
         /\ \A on \in BOOLEAN : PeerEvent(on) \in Events
BY DEF TypeOK, QueueOK, Events, PeerEvents

(* A receiver that is started, or found stopped, is well typed. *)
LEMMA EnableTyped ==
  ASSUME TypeOK, count' \in Int, retry' \in BOOLEAN,
         NEW wanted, NEW free \in SUBSET Blocks, NEW counts \in [Blocks -> Int],
         EnableRx(wanted, free, counts)
  PROVE  RxOK'
<1>1. CASE wanted /\ free # {}
  <2>1. PICK b \in free :
          /\ rx' = [st |-> "on", buf |-> b, next |-> None, ask |-> TRUE]
          /\ refs' = [counts EXCEPT ![b] = 1]
          /\ slab' = free \ {b}
    BY <1>1 DEF EnableRx
  <2>2. /\ rx' \in Receiver /\ rx'.st = "on" /\ rx'.next = None
        /\ refs' \in [Blocks -> Int] /\ slab' \subseteq Blocks
    BY <2>1 DEF Receiver
  <2>3. QED
    BY <2>2 DEF RxOK
<1>2. CASE ~(wanted /\ free # {})
  <2>1. rx' = NoReceiver /\ refs' = counts /\ slab' = free
    BY <1>2 DEF EnableRx
  <2>2. rx' \in Receiver /\ rx'.next = None
    BY <2>1 DEF NoReceiver, Receiver
  <2>3. QED
    BY <2>1, <2>2 DEF RxOK
<1>3. QED
  BY <1>1, <1>2

(* The transmitter is well typed, with or without a transfer. *)
LEMMA NoTransferTyped ==
  /\ NoTransfer \in [busy : BOOLEAN, len : 0 .. RingSize]
  /\ NoTransfer.busy = FALSE
  /\ NoTransfer.len = 0
BY UartAssumption DEF NoTransfer, UartAssumption

LEMMA TransferTyped ==
  ASSUME NEW n \in 0 .. RingSize, NEW t \in Transfer(n)
  PROVE  /\ t \in [busy : BOOLEAN, len : 0 .. RingSize]
         /\ t.busy = TRUE
         /\ t.len <= n
<1>1. PICK k \in Lengths(n) : t = [busy |-> TRUE, len |-> k]
  BY DEF Transfer
<1>2. k \in 0 .. RingSize /\ k <= n
  BY UartAssumption DEF Lengths, UartAssumption
<1>3. t.busy = TRUE /\ t.len = k
  BY <1>1
<1>4. t \in [busy : BOOLEAN, len : 0 .. RingSize]
  BY <1>1, <1>2
<1>5. QED
  BY <1>2, <1>3, <1>4

LEMMA TypeInit == Init => TypeOK
<1> SUFFICES ASSUME Init PROVE TypeOK
  OBVIOUS
<1>1. RxOK
  <2>1. rx = NoReceiver /\ rx \in Receiver /\ rx.next = None
    BY DEF Init, NoReceiver, Receiver
  <2>2. count \in Int /\ refs \in [Blocks -> Int] /\ slab \subseteq Blocks
    BY DEF Init
  <2>3. retry \in BOOLEAN
    BY DEF Init
  <2>4. QED
    BY <2>1, <2>2, <2>3 DEF RxOK
<1>2. QueueOK
  <2>1. worker \in [pc : {"idle", "put"}, ev : TxEvents \union {None}] /\ worker.pc = "idle"
    BY DEF Init, WorkerIdle
  <2>2. QED
    BY <2>1 DEF Init, QueueOK
<1>3. TxOK
  <2>1. ring = 0 /\ 0 \in 0 .. RingSize
    BY UartAssumption DEF Init, UartAssumption
  <2>2. tx = NoTransfer /\ tx.len = 0
    BY DEF Init, NoTransfer
  <2>3. tx \in [busy : BOOLEAN, len : 0 .. RingSize]
    BY <2>1, <2>2 DEF NoTransfer
  <2>4. txStarted \in BOOLEAN
    BY DEF Init
  <2>5. QED
    BY <2>1, <2>2, <2>3, <2>4 DEF TxOK
<1>4. PeersOK
  <2>1. cdcFree \in Nat /\ bleNet \in Int
    BY UartAssumption DEF Init, UartAssumption
  <2>2. cdcReady \in BOOLEAN /\ line \in BOOLEAN /\ overdrawn \in BOOLEAN
    BY DEF Init
  <2>3. QED
    BY <2>1, <2>2 DEF PeersOK
<1>5. QED
  BY <1>1, <1>2, <1>3, <1>4 DEF TypeOK

LEMMA TypeDriver == TypeOK /\ Driver => TypeOK'
<1> SUFFICES ASSUME TypeOK, Driver PROVE TypeOK'
  OBVIOUS
<1>1. CASE RxReady
  <2>1. rx.buf \in Blocks
    BY <1>1 DEF RxReady, TypeOK, RxOK, Receiver
  <2>2. RxOK'
    BY <1>1, <2>1 DEF RxReady, TypeOK, RxOK
  <2>3. QueueOK'
    BY <1>1, <2>1, EventsTyped, QueueKept DEF RxReady
  <2>4. QED
    BY <1>1, <2>2, <2>3, TxKept, PeersKept DEF RxReady, TypeOK
<1>2. CASE RxBufRequest
  <2>1. rx.st # "off"
    <3>1. NoReceiver.ask = FALSE
      BY DEF NoReceiver
    <3>2. rx.ask
      BY <1>2 DEF RxBufRequest
    <3>3. QED
      BY <3>1, <3>2 DEF TypeOK, RxOK
  <2>2. RxOK'
    <3>1. CASE slab = {}
      <4>1. rx' = [rx EXCEPT !.ask = FALSE] /\ UNCHANGED <<refs, slab, count, retry>>
        BY <1>2, <3>1 DEF RxBufRequest
      <4>2. rx' \in Receiver /\ rx'.st # "off" /\ ~rx'.ask
        BY <2>1, <4>1 DEF TypeOK, RxOK, Receiver
      <4>3. QED
        BY <4>1, <4>2 DEF TypeOK, RxOK
    <3>2. CASE slab # {}
      <4>1. PICK b \in slab :
              /\ rx' = [rx EXCEPT !.ask = FALSE, !.next = b]
              /\ refs' = [refs EXCEPT ![b] = 1]
              /\ slab' = slab \ {b}
              /\ UNCHANGED <<count, retry>>
        BY <1>2, <3>2 DEF RxBufRequest
      <4>2. rx' \in Receiver /\ rx'.st # "off" /\ ~rx'.ask
        BY <2>1, <4>1 DEF TypeOK, RxOK, Receiver
      <4>3. QED
        BY <4>1, <4>2 DEF TypeOK, RxOK
    <3>3. QED
      BY <3>1, <3>2
  <2>3. QED
    BY <1>2, <2>2, QueueKept, EventsTyped, TxKept, PeersKept DEF RxBufRequest, TypeOK
<1>3. CASE RxBufferFull
  <2>1. rx.buf \in Blocks
    BY <1>3 DEF RxBufferFull, TypeOK, RxOK, Receiver
  <2>2. /\ rx' \in Receiver /\ rx'.st # "off" /\ rx'.next = None
    BY <1>3 DEF RxBufferFull, TypeOK, RxOK, Receiver, NoReceiver
  <2>3. RxOK'
    BY <1>3, <2>2 DEF RxBufferFull, TypeOK, RxOK
  <2>4. QueueOK'
    BY <1>3, <2>1, EventsTyped, QueueKept DEF RxBufferFull
  <2>5. QED
    BY <1>3, <2>3, <2>4, TxKept, PeersKept DEF RxBufferFull, TypeOK
<1>4. CASE RxError
  <2>1. /\ rx' \in Receiver /\ rx'.st # "off"
        /\ rx'.ask = rx.ask /\ rx'.next = rx.next
    BY <1>4 DEF RxError, TypeOK, RxOK, Receiver
  <2>2. RxOK'
    BY <1>4, <2>1 DEF RxError, TypeOK, RxOK
  <2>3. QED
    BY <1>4, <2>2, QueueKept, EventsTyped, TxKept, PeersKept DEF RxError, TypeOK
<1>5. CASE RxStopped
  <2>1. PICK flushed \in BOOLEAN :
          LET held   == {rx.buf, rx.next} \ {None}
              drop   == IF flushed THEN held \ {rx.buf} ELSE held
              counts == [b \in Blocks |-> IF b \in drop THEN refs[b] - 1 ELSE refs[b]]
              free   == slab \union {b \in drop : refs[b] = 1}
          IN  /\ flushed => rx.buf # None /\ Room
              /\ events' = IF flushed THEN Append(events, DataEvent(rx.buf)) ELSE events
              /\ EnableRx(retry, free, counts)
    BY <1>5 DEF RxStopped
  <2> DEFINE held   == {rx.buf, rx.next} \ {None}
             drop   == IF flushed THEN held \ {rx.buf} ELSE held
             counts == [b \in Blocks |-> IF b \in drop THEN refs[b] - 1 ELSE refs[b]]
             free   == slab \union {b \in drop : refs[b] = 1}
  <2>2. free \in SUBSET Blocks /\ counts \in [Blocks -> Int]
    BY DEF TypeOK, RxOK, Receiver
  <2>3. count' \in Int /\ retry' \in BOOLEAN
    BY <1>5 DEF RxStopped, TypeOK, RxOK
  <2>4. EnableRx(retry, free, counts)
    BY <2>1
  <2> HIDE DEF free, counts
  <2>5. RxOK'
    BY <2>2, <2>3, <2>4, EnableTyped
  <2>6. flushed => rx.buf \in Blocks
    BY <2>1 DEF TypeOK, RxOK, Receiver
  <2>7. events' \in Seq(Events)
    BY <2>1, <2>6, EventsTyped
  <2>8. QED
    BY <1>5, <2>5, <2>7, QueueKept, TxKept, PeersKept DEF RxStopped, TypeOK
<1>6. CASE TxDone
  <2>1. /\ ring \in 0 .. RingSize /\ tx.len \in 0 .. RingSize /\ tx.len <= ring
        /\ RingSize \in Nat
    BY UartAssumption DEF TypeOK, TxOK, UartAssumption
  <2>2. ring' = ring - tx.len /\ ring' \in 0 .. RingSize
    BY <1>6, <2>1 DEF TxDone
  <2>3. TxOK'
    <3>1. CASE ring = tx.len
      <4>1. tx' = NoTransfer /\ txStarted' = FALSE
        BY <1>6, <3>1 DEF TxDone
      <4>2. ring' = 0
        BY <2>1, <2>2, <3>1
      <4>3. tx' \in [busy : BOOLEAN, len : 0 .. RingSize] /\ tx'.len = 0
        BY <4>1, NoTransferTyped
      <4>4. txStarted' \in BOOLEAN
        BY <4>1
      <4>5. QED
        BY <2>2, <4>2, <4>3, <4>4 DEF TxOK
    <3>2. CASE ring # tx.len
      BY <1>6, <2>2, <3>2, TransferTyped DEF TxDone, TypeOK, TxOK
    <3>3. QED
      BY <3>1, <3>2
  <2>4. QED
    BY <1>6, <2>3, RxKept, QueueKept, EventsTyped, PeersKept DEF TxDone, TypeOK
<1>7. QED
  BY <1>1, <1>2, <1>3, <1>4, <1>5, <1>6 DEF Driver

LEMMA TypePeers == TypeOK /\ UsbAndBle => TypeOK'
<1> SUFFICES ASSUME TypeOK, UsbAndBle PROVE TypeOK'
  OBVIOUS
<1>1. ASSUME NEW on \in BOOLEAN, SetLine(on) PROVE TypeOK'
  <2>1. PeersOK'
    BY <1>1 DEF SetLine, TypeOK, PeersOK, ghosts
  <2>2. QED
    BY <1>1, <2>1, RxKept, TxKept, QueueKept, EventsTyped DEF SetLine, TypeOK
<1>2. CASE PollDtr
  <2>1. line \in BOOLEAN /\ PeerEvent(line) \in Events
    BY EventsTyped DEF TypeOK, PeersOK
  <2>2. PeersOK'
    BY <1>2, <2>1 DEF PollDtr, TypeOK, PeersOK, ghosts
  <2>3. QueueOK'
    BY <1>2, <2>1, EventsTyped, QueueKept DEF PollDtr
  <2>4. QED
    BY <1>2, <2>2, <2>3, RxKept, TxKept DEF PollDtr, TypeOK
<1>3. ASSUME NEW on \in BleWrites, BleCcc(on) PROVE TypeOK'
  <2>1. on \in BOOLEAN /\ PeerEvent(on) \in Events
    BY EventsTyped, UartAssumption DEF UartAssumption
  <2>2. PeersOK'
    BY <1>3 DEF BleCcc, TypeOK, PeersOK, usbVars, ghosts
  <2>3. QueueOK'
    BY <1>3, <2>1, EventsTyped, QueueKept DEF BleCcc
  <2>4. QED
    BY <1>3, <2>2, <2>3, RxKept, TxKept DEF BleCcc, TypeOK
<1>4. ASSUME NEW n \in TxLens, CdcReceive(n) PROVE TypeOK'
  <2> DEFINE polled == IF ~cdcReady /\ line THEN <<PeerEvent(TRUE)>> ELSE <<>>
             data == IF cdcFree > 0 THEN <<TxEvent("cdc_data", n)>> ELSE <<>>
  <2>1. PeerEvent(TRUE) \in Events /\ TxEvent("cdc_data", n) \in Events
    <3>1. TxEvent("cdc_data", n) \in TxEvents
      BY DEF TxEvents
    <3>2. QED
      BY <3>1, EventsTyped
  <2>2. polled \in Seq(Events) /\ data \in Seq(Events)
    <3>1. \A e \in Events : <<e>> \in Seq(Events)
      OBVIOUS
    <3>2. <<>> \in Seq(Events)
      OBVIOUS
    <3>3. QED
      BY <2>1, <3>1, <3>2
  <2>3. events' \in Seq(Events)
    <3>1. events' = events \o polled \o data
      BY <1>4 DEF CdcReceive
    <3> HIDE DEF polled, data
    <3>2. QED
      BY <2>2, <3>1, EventsTyped
  <2>4. cdcFree' \in Nat
    <3>1. CASE cdcFree > 0
      BY <1>4, <3>1 DEF CdcReceive, TypeOK, PeersOK
    <3>2. CASE ~(cdcFree > 0)
      BY <1>4, <3>2 DEF CdcReceive, TypeOK, PeersOK
    <3>3. QED
      BY <3>1, <3>2
  <2>5. PeersOK'
    BY <1>4, <2>4 DEF CdcReceive, TypeOK, PeersOK, ghosts
  <2>6. QED
    BY <1>4, <2>3, <2>5, RxKept, TxKept, QueueKept DEF CdcReceive, TypeOK
<1>5. ASSUME NEW n \in TxLens, BleReceive(n) PROVE TypeOK'
  <2>1. TxEvent("ble_data", n) \in Events
    BY EventsTyped DEF TxEvents
  <2>2. QueueOK'
    BY <1>5, <2>1, EventsTyped, QueueKept DEF BleReceive
  <2>3. QED
    BY <1>5, <2>2, RxKept, TxKept, PeersKept DEF BleReceive, TypeOK
<1>6. QED
  BY <1>1, <1>2, <1>3, <1>4, <1>5 DEF UsbAndBle

LEMMA TypeWorkqueue == TypeOK /\ Workqueue => TypeOK'
<1> SUFFICES ASSUME TypeOK, Workqueue PROVE TypeOK'
  OBVIOUS
<1> DEFINE e == Head(events)
<1>1. ASSUME NEW kind, Takes(kind)
      PROVE  events' \in Seq(Events) /\ e \in Events /\ e.kind = kind
  BY <1>1, EventsTyped DEF Takes
<1>2. CASE HandleData
  <2>1. e.block \in Blocks /\ events' \in Seq(Events)
    BY <1>1, <1>2, EventKinds DEF HandleData
  <2>2. RxOK'
    BY <1>2, <2>1 DEF HandleData, Unref, TypeOK, RxOK
  <2>3. QED
    BY <1>2, <2>1, <2>2, QueueKept, TxKept, PeersKept DEF HandleData, TypeOK
<1>3. CASE HandlePeer
  <2>1. events' \in Seq(Events)
    BY <1>1, <1>3 DEF HandlePeer
  <2>2. count' \in Int /\ retry' \in BOOLEAN
    BY <1>3 DEF HandlePeer, TypeOK, RxOK
  <2>3. RxOK'
    <3>1. CASE UNCHANGED rxVars
      BY <2>2, <3>1 DEF TypeOK, RxOK, rxVars
    <3>2. CASE EnableRx(TRUE, slab, refs)
      BY <2>2, <3>2, EnableTyped DEF TypeOK, RxOK
    <3>3. CASE rx' = [rx EXCEPT !.st = "stopping"] /\ UNCHANGED <<refs, slab>>
      <4>1. /\ rx' \in Receiver /\ rx'.st # "off"
            /\ rx'.ask = rx.ask /\ rx'.next = rx.next
        BY <3>3 DEF TypeOK, RxOK, Receiver
      <4>2. QED
        BY <2>2, <3>3, <4>1 DEF TypeOK, RxOK
    <3>4. QED
      BY <1>3, <3>1, <3>2, <3>3 DEF HandlePeer, rxVars
  <2>4. QED
    BY <1>3, <2>1, <2>3, QueueKept, TxKept, PeersKept DEF HandlePeer, TypeOK
<1>4. CASE TxPut
  <2> DEFINE written == IF e.len < RingSize - ring THEN e.len ELSE RingSize - ring
  <2>1. e \in TxEvents /\ e.len \in TxLens /\ events' \in Seq(Events)
    BY <1>1, <1>4, EventKinds DEF TxPut
  <2>2. ring' = ring + written
    BY <1>4 DEF TxPut
  <2>3. e.len \in Nat /\ ring \in 0 .. RingSize /\ RingSize \in Nat
    BY <2>1, UartAssumption DEF UartAssumption, TypeOK, TxOK
  <2> HIDE DEF e
  <2>4. written \in 0 .. RingSize - ring
    BY <2>3
  <2>5. ring' \in 0 .. RingSize /\ ring <= ring'
    BY <2>2, <2>3, <2>4
  <2>6. TxOK'
    BY <1>4, <2>3, <2>5 DEF TxPut, TypeOK, TxOK
  <2>7. /\ worker' \in [pc : {"idle", "put"}, ev : TxEvents \union {None}]
        /\ worker'.pc = "put" => worker'.ev \in TxEvents
    <3>1. CASE UNCHANGED worker
      BY <3>1 DEF TypeOK, QueueOK
    <3>2. CASE worker' = [pc |-> "put", ev |-> e]
      BY <2>1, <3>2
    <3>3. QED
      BY <1>4, <3>1, <3>2 DEF TxPut, e
  <2>8. QueueOK'
    BY <2>1, <2>7 DEF QueueOK
  <2>9. PeersOK'
    <3>1. cdcFree' \in Nat
      BY <1>4 DEF TxPut, CdcBlockOf, TypeOK, PeersOK
    <3>2. QED
      BY <1>4, <3>1 DEF TxPut, TypeOK, PeersOK, ghosts
  <2>10. QED
    BY <1>4, <2>6, <2>8, <2>9, RxKept DEF TxPut, TypeOK
<1>5. CASE TxStart
  <2>1. TxOK'
    <3>1. CASE UNCHANGED <<txStarted, tx>>
      BY <1>5, <3>1 DEF TxStart, TypeOK, TxOK
    <3>2. CASE txStarted' = TRUE /\ tx' \in Transfer(ring)
      BY <1>5, <3>2, TransferTyped DEF TxStart, TypeOK, TxOK
    <3>3. QED
      BY <1>5, <3>1, <3>2 DEF TxStart
  <2>2. worker' \in [pc : {"idle", "put"}, ev : TxEvents \union {None}]
        /\ worker'.pc = "idle"
    BY <1>5 DEF TxStart, WorkerIdle
  <2>3. QueueOK'
    BY <1>5, <2>2 DEF TxStart, TypeOK, QueueOK
  <2>4. PeersOK'
    <3>1. cdcFree' \in Nat
      BY <1>5 DEF TxStart, CdcBlockOf, TypeOK, PeersOK
    <3>2. QED
      BY <1>5, <3>1 DEF TxStart, TypeOK, PeersOK, ghosts
  <2>5. QED
    BY <1>5, <2>1, <2>3, <2>4, RxKept DEF TxStart, TypeOK
<1>6. QED
  BY <1>2, <1>3, <1>4, <1>5 DEF Workqueue

LEMMA TypeStep == TypeOK /\ [Next]_vars => TypeOK'
<1> SUFFICES ASSUME TypeOK, [Next]_vars PROVE TypeOK'
  OBVIOUS
<1>1. CASE UNCHANGED vars
  BY <1>1, RxKept, TxKept, PeersKept, QueueKept, EventsTyped
     DEF vars, rxVars, txVars, usbVars, ghosts, TypeOK
<1>2. QED
  BY <1>1, TypeDriver, TypePeers, TypeWorkqueue DEF Next

(***************************************************************************)
(* Type correctness of the bridge: for every number of blocks and size of  *)
(* the ring buffer, the driver is never given more than the buffer holds,  *)
(* and has at most one buffer to go on with.                               *)
(***************************************************************************)
THEOREM TypeCorrect == Spec => []TypeOK
<1>1. QED
  BY TypeInit, TypeStep, PTL DEF Spec

-----------------------------------------------------------------------------
(* Counting events *)

LEMMA Counts ==
  ASSUME TypeOK, NEW S
  PROVE  /\ CountIn(events, S) \in Nat
         /\ \A e \in Events :
              CountIn(Append(events, e), S) = CountIn(events, S) + (IF e \in S THEN 1 ELSE 0)
         /\ events # <<>> =>
              /\ CountIn(Tail(events), S) \in Nat
              /\ CountIn(events, S)
                   = CountIn(Tail(events), S) + (IF Head(events) \in S THEN 1 ELSE 0)
BY EventsTyped, PositionsFinite, CountAppend, CountTail

(* What CdcReceive appends, counted: the kinds of its events are known. *)
LEMMA CountCdcReceive ==
  ASSUME TypeOK, NEW n \in TxLens, CdcReceive(n), NEW S
  PROVE  CountIn(events', S) =
           CountIn(events, S)
             + (IF ~cdcReady /\ line /\ PeerEvent(TRUE) \in S THEN 1 ELSE 0)
             + (IF cdcFree > 0 /\ TxEvent("cdc_data", n) \in S THEN 1 ELSE 0)
<1> DEFINE pe == PeerEvent(TRUE)
           de == TxEvent("cdc_data", n)
           polled == IF ~cdcReady /\ line THEN <<pe>> ELSE <<>>
           data == IF cdcFree > 0 THEN <<de>> ELSE <<>>
           q == IF ~cdcReady /\ line THEN Append(events, pe) ELSE events
<1>1. pe \in Events /\ de \in Events
  <2>1. de \in TxEvents
    BY DEF TxEvents
  <2>2. QED
    BY <2>1, EventsTyped
<1>2. events' = events \o polled \o data
  BY DEF CdcReceive
<1> HIDE DEF pe, de
<1>3. events \in Seq(Events)
  BY EventsTyped
<1>4. events \o polled = q /\ q \in Seq(Events)
  <2>1. CASE ~cdcReady /\ line
    BY <1>1, <1>3, <2>1
  <2>2. CASE ~(~cdcReady /\ line)
    BY <1>3, <2>2
  <2>3. QED
    BY <2>1, <2>2
<1>5. CountIn(q, S) = CountIn(events, S) + (IF ~cdcReady /\ line /\ pe \in S THEN 1 ELSE 0)
  <2>1. CASE ~cdcReady /\ line
    BY <1>1, <2>1, Counts
  <2>2. CASE ~(~cdcReady /\ line)
    BY <2>2, Counts
  <2>3. QED
    BY <2>1, <2>2
<1>6. CountIn(q, S) \in Nat
  BY <1>4, PositionsFinite
<1> HIDE DEF q, polled
<1>7. CASE cdcFree > 0
  <2>1. events' = Append(q, de)
    BY <1>1, <1>2, <1>4, <1>7
  <2>2. CountIn(events', S) = CountIn(q, S) + (IF de \in S THEN 1 ELSE 0)
    BY <1>1, <1>4, <2>1, CountAppend
  <2>3. QED
    BY <1>5, <1>6, <1>7, <2>2 DEF pe, de
<1>8. CASE ~(cdcFree > 0)
  <2>1. events' = q
    BY <1>2, <1>4, <1>8
  <2>2. CountIn(events', S) = CountIn(q, S) + 0
    BY <1>6, <2>1
  <2>3. QED
    BY <1>5, <1>8, <2>2 DEF pe, de
<1>9. QED
  BY <1>7, <1>8

-----------------------------------------------------------------------------
(* The transmitter *)

(***************************************************************************)
(* uart_tx() never finds a transfer under way, and the end of a transfer   *)
(* never leaves bytes behind, for every size of the ring buffer and every  *)
(* split of what the driver is given.                                      *)
(***************************************************************************)
THEOREM TxFlagCorrect == Spec => []TxFlagTruthful
<1>1. Init => TxFlagTruthful
  <2> SUFFICES ASSUME Init PROVE TxFlagTruthful
    OBVIOUS
  <2>1. ring = 0 /\ tx = NoTransfer
    BY DEF Init
  <2>2. txStarted = FALSE
    BY DEF Init
  <2>3. QED
    BY <2>1, <2>2, NoTransferTyped DEF TxFlagTruthful
<1>2. TypeOK /\ TxFlagTruthful /\ [Next]_vars => TxFlagTruthful'
  <2> SUFFICES ASSUME TypeOK, TxFlagTruthful, [Next]_vars PROVE TxFlagTruthful'
    OBVIOUS
  <2>1. CASE UNCHANGED <<txVars, worker>>
    BY <2>1 DEF TxFlagTruthful, txVars
  <2>2. CASE TxDone
    <3>1. tx.busy /\ txStarted /\ ring' = ring - tx.len
      BY <2>2 DEF TxDone, TxFlagTruthful
    <3>2. CASE ring = tx.len
      <4>1. tx' = NoTransfer /\ txStarted' = FALSE
        BY <2>2, <3>2 DEF TxDone
      <4>2. ring' = 0
        BY <3>1, <3>2, UartAssumption DEF UartAssumption, TypeOK, TxOK
      <4>3. QED
        BY <4>1, <4>2, NoTransferTyped DEF TxFlagTruthful
    <3>3. CASE ring # tx.len
      <4>1. tx' \in Transfer(ring - tx.len) /\ txStarted' = txStarted
        BY <2>2, <3>3 DEF TxDone
      <4>2. ring - tx.len \in 0 .. RingSize
        BY UartAssumption DEF UartAssumption, TypeOK, TxOK
      <4>3. tx'.busy = TRUE
        BY <4>1, <4>2, TransferTyped
      <4>4. QED
        BY <3>1, <4>1, <4>3 DEF TxFlagTruthful
    <3>4. QED
      BY <3>2, <3>3
  <2>3. CASE TxPut
    <3>1. worker.pc # "put" /\ UNCHANGED <<txStarted, tx>>
      BY <2>3 DEF TxPut, Takes
    <3>2. CASE ring' = ring
      BY <3>1, <3>2 DEF TxFlagTruthful
    <3>3. CASE ring' # ring
      <4>1. worker' = [pc |-> "put", ev |-> Head(events)]
        BY <2>3, <3>3 DEF TxPut, TypeOK, TxOK
      <4>2. worker'.pc = "put"
        BY <4>1
      <4>3. QED
        BY <3>1, <4>2 DEF TxFlagTruthful
    <3>4. QED
      BY <3>2, <3>3
  <2>4. CASE TxStart
    <3>1. CASE txStarted
      <4>1. UNCHANGED <<ring, txStarted, tx>>
        BY <2>4, <3>1 DEF TxStart
      <4>2. QED
        BY <3>1, <4>1 DEF TxFlagTruthful
    <3>2. CASE ~txStarted
      <4>1. ~tx.busy
        BY <3>2 DEF TxFlagTruthful
      <4>2. txStarted' = TRUE /\ tx' \in Transfer(ring)
        BY <2>4, <3>2, <4>1 DEF TxStart
      <4>3. tx'.busy = TRUE
        BY <4>2, TransferTyped DEF TypeOK, TxOK
      <4>4. QED
        BY <4>2, <4>3 DEF TxFlagTruthful
    <3>3. QED
      BY <3>1, <3>2
  <2>5. TxDone \/ TxPut \/ TxStart \/ UNCHANGED <<txVars, worker>>
    BY DEF Next, Driver, RxReady, RxBufRequest, RxBufferFull, RxError, RxStopped,
           UsbAndBle, SetLine, PollDtr, CdcReceive, BleCcc, BleReceive, Workqueue,
           HandleData, HandlePeer, vars
  <2>6. QED
    BY <2>1, <2>2, <2>3, <2>4, <2>5
<1>3. QED
  BY <1>1, <1>2, TypeCorrect, PTL DEF Spec

-----------------------------------------------------------------------------
(* The receive blocks *)

(* The events whose data lies in a block. *)
DataEvents(b) == CountIn(events, {DataEvent(b)})

(* Steps that leave the blocks alone and append no data of the UART. *)
LEMMA RefsKept ==
  ASSUME RefsMatchHolders, UNCHANGED <<refs, slab>>, rx'.buf = rx.buf, rx'.next = rx.next,
         \A b \in Blocks : CountIn(events', {DataEvent(b)}) = DataEvents(b)
  PROVE  RefsMatchHolders'
BY DEF RefsMatchHolders, DriverHolds, DataEvents

(* An event of another kind is appended or taken. *)
LEMMA OtherAppended ==
  ASSUME TypeOK, NEW e \in Events, e.kind # "uart_data", events' = Append(events, e),
         NEW b \in Blocks
  PROVE  CountIn(events', {DataEvent(b)}) = DataEvents(b)
<1>1. e \notin {DataEvent(b)}
  BY EventsDiffer
<1>2. QED
  BY <1>1, Counts DEF DataEvents

LEMMA OtherTaken ==
  ASSUME TypeOK, events # <<>>, Head(events).kind # "uart_data", events' = Tail(events),
         NEW b \in Blocks
  PROVE  CountIn(events', {DataEvent(b)}) = DataEvents(b)
<1>1. Head(events) \notin {DataEvent(b)}
  BY EventsDiffer
<1>2. QED
  BY <1>1, Counts DEF DataEvents

(* The data of a block is appended. *)
LEMMA DataAppended ==
  ASSUME TypeOK, NEW c \in Blocks, events' = Append(events, DataEvent(c)),
         NEW b \in Blocks
  PROVE  CountIn(events', {DataEvent(b)}) = DataEvents(b) + (IF b = c THEN 1 ELSE 0)
<1>1. DataEvent(c) \in {DataEvent(b)} <=> b = c
  BY EventsDiffer
<1>2. DataEvent(c) \in Events
  BY EventsTyped
<1>3. QED
  BY <1>1, <1>2, Counts DEF DataEvents

LEMMA DataTaken ==
  ASSUME TypeOK, NEW c \in Blocks, events # <<>>, Head(events) = DataEvent(c),
         events' = Tail(events), NEW b \in Blocks
  PROVE  DataEvents(b) = CountIn(events', {DataEvent(b)}) + (IF b = c THEN 1 ELSE 0)
<1>1. Head(events) \in {DataEvent(b)} <=> b = c
  BY EventsDiffer
<1>2. QED
  BY <1>1, Counts DEF DataEvents

(* What is known of a block: its counts are numbers, held once by the driver. *)
LEMMA BlockFacts ==
  ASSUME TypeOK, RefsMatchHolders, NEW b \in Blocks
  PROVE  /\ DataEvents(b) \in Nat
         /\ DriverHolds(b) \in 0 .. 1
         /\ refs[b] \in Nat
         /\ refs[b] = DriverHolds(b) + DataEvents(b)
         /\ b \in slab <=> refs[b] = 0
         /\ b \in slab => b # rx.buf /\ b # rx.next
<1>1. DataEvents(b) \in Nat
  BY Counts DEF DataEvents
<1>2. DriverHolds(b) \in 0 .. 1
  BY DEF DriverHolds
<1>3. refs[b] = DriverHolds(b) + DataEvents(b) /\ (b \in slab <=> refs[b] = 0)
  BY DEF RefsMatchHolders, DataEvents
<1>4. b \in slab => DriverHolds(b) = 0
  BY <1>1, <1>2, <1>3
<1>5. QED
  BY <1>1, <1>2, <1>3, <1>4 DEF DriverHolds

(***************************************************************************)
(* A receiver that is started with a free block, or stays off, when the    *)
(* driver holds nothing and the counts are those of the events.            *)
(***************************************************************************)
LEMMA EnableRefs ==
  ASSUME NEW wanted, NEW free \in SUBSET Blocks, NEW counts \in [Blocks -> Int],
         EnableRx(wanted, free, counts),
         \A b \in Blocks : /\ counts[b] = CountIn(events', {DataEvent(b)})
                           /\ b \in free <=> counts[b] = 0
  PROVE  RefsMatchHolders'
<1>1. CASE wanted /\ free # {}
  <2>1. PICK c \in free :
          /\ rx' = [st |-> "on", buf |-> c, next |-> None, ask |-> TRUE]
          /\ refs' = [counts EXCEPT ![c] = 1]
          /\ slab' = free \ {c}
    BY <1>1 DEF EnableRx
  <2>2. rx'.buf = c /\ rx'.next = None /\ c \in Blocks /\ c # None
    BY <2>1, UartAssumption DEF UartAssumption
  <2>3. ASSUME NEW b \in Blocks
        PROVE  /\ refs'[b] = DriverHolds(b)' + CountIn(events', {DataEvent(b)})
               /\ b \in slab' <=> refs'[b] = 0
    <3>1. CASE b = c
      <4>1. refs'[b] = 1 /\ counts[b] = 0 /\ DriverHolds(b)' = 1 /\ b \notin slab'
        BY <2>1, <2>2, <3>1 DEF DriverHolds
      <4>2. QED
        BY <4>1
    <3>2. CASE b # c
      <4>1. refs'[b] = counts[b] /\ DriverHolds(b)' = 0 /\ (b \in slab' <=> b \in free)
        BY <2>1, <2>2, <3>2, UartAssumption DEF DriverHolds, UartAssumption
      <4>2. QED
        BY <4>1
    <3>3. QED
      BY <3>1, <3>2
  <2>4. QED
    BY <2>2, <2>3 DEF RefsMatchHolders
<1>2. CASE ~(wanted /\ free # {})
  <2>1. rx' = NoReceiver /\ refs' = counts /\ slab' = free
    BY <1>2 DEF EnableRx
  <2>2. rx'.buf = None /\ \A b \in Blocks : DriverHolds(b)' = 0
    BY <2>1, UartAssumption DEF DriverHolds, NoReceiver, UartAssumption
  <2>3. QED
    BY <2>1, <2>2 DEF RefsMatchHolders
<1>3. QED
  BY <1>1, <1>2

(* The initial state: every block is free. *)
LEMMA RefsInit == Init => RefsMatchHolders
<1> SUFFICES ASSUME Init PROVE RefsMatchHolders
  OBVIOUS
<1>1. rx.buf = None /\ rx.next = None
  BY DEF Init, NoReceiver
<1>2. \A b \in Blocks : DriverHolds(b) = 0
  BY <1>1, UartAssumption DEF DriverHolds, UartAssumption
<1>3. \A b \in Blocks : CountIn(events, {DataEvent(b)}) = 0
  BY CountEmpty DEF Init
<1>4. \A b \in Blocks : refs[b] = 0 /\ b \in slab
  BY DEF Init
<1>5. QED
  BY <1>1, <1>2, <1>3, <1>4 DEF RefsMatchHolders

(* The driver's interrupts: data reported, blocks asked for and released. *)
LEMMA RefsReady == TypeOK /\ RefsMatchHolders /\ RxReady => RefsMatchHolders'
<1> SUFFICES ASSUME TypeOK, RefsMatchHolders, RxReady PROVE RefsMatchHolders'
  OBVIOUS
<1>1. PICK c \in Blocks : c = rx.buf
  BY DEF RxReady, TypeOK, RxOK, Receiver
<1>2. /\ refs' = [refs EXCEPT ![c] = @ + 1] /\ events' = Append(events, DataEvent(c))
      /\ rx' = rx /\ slab' = slab /\ refs \in [Blocks -> Int]
  BY <1>1 DEF RxReady, TypeOK, RxOK
<1>3. ASSUME NEW b \in Blocks
      PROVE  /\ refs'[b] = DriverHolds(b)' + CountIn(events', {DataEvent(b)})
             /\ b \in slab' <=> refs'[b] = 0
  <2>1. CountIn(events', {DataEvent(b)}) = DataEvents(b) + (IF b = c THEN 1 ELSE 0)
    BY <1>2, DataAppended
  <2>2. DriverHolds(b)' = DriverHolds(b) /\ (b \in slab' <=> b \in slab)
    BY <1>2 DEF DriverHolds
  <2>3. refs'[b] = refs[b] + (IF b = c THEN 1 ELSE 0)
    BY <1>2
  <2>4. b = c => b \notin slab
    BY <1>1, BlockFacts
  <2>5. QED
    BY <2>1, <2>2, <2>3, <2>4, BlockFacts
<1>4. rx'.buf # None => rx'.buf # rx'.next
  BY <1>2 DEF RefsMatchHolders
<1>5. QED
  BY <1>3, <1>4 DEF RefsMatchHolders

LEMMA RefsRequest == TypeOK /\ RefsMatchHolders /\ RxBufRequest => RefsMatchHolders'
<1> SUFFICES ASSUME TypeOK, RefsMatchHolders, RxBufRequest PROVE RefsMatchHolders'
  OBVIOUS
<1>1. events' = events
  BY DEF RxBufRequest
<1>2. CASE slab = {}
  <2>1. rx' = [rx EXCEPT !.ask = FALSE] /\ UNCHANGED <<refs, slab>>
    BY <1>2 DEF RxBufRequest
  <2>2. rx'.buf = rx.buf /\ rx'.next = rx.next
    BY <2>1 DEF TypeOK, RxOK, Receiver
  <2>3. QED
    BY <1>1, <2>1, <2>2, RefsKept DEF DataEvents
<1>3. CASE slab # {}
  <2>1. PICK c \in slab :
          /\ rx' = [rx EXCEPT !.ask = FALSE, !.next = c]
          /\ refs' = [refs EXCEPT ![c] = 1]
          /\ slab' = slab \ {c}
    BY <1>3 DEF RxBufRequest
  <2>2. c \in Blocks /\ rx'.buf = rx.buf /\ rx'.next = c /\ rx.next = None
    BY <2>1 DEF RxBufRequest, TypeOK, RxOK, Receiver
  <2>3. c # rx.buf
    BY <2>1, <2>2, BlockFacts
  <2>4. ASSUME NEW b \in Blocks
        PROVE  /\ refs'[b] = DriverHolds(b)' + CountIn(events', {DataEvent(b)})
               /\ b \in slab' <=> refs'[b] = 0
    <3>1. CountIn(events', {DataEvent(b)}) = DataEvents(b)
      BY <1>1 DEF DataEvents
    <3>2. CASE b = c
      <4>1. refs'[b] = 1 /\ DriverHolds(b)' = 1 /\ b \notin slab'
        BY <2>1, <2>2, <3>2 DEF DriverHolds, TypeOK, RxOK
      <4>2. refs[b] = 0
        BY <2>1, <3>2, BlockFacts
      <4>3. QED
        BY <3>1, <4>1, <4>2, BlockFacts
    <3>3. CASE b # c
      <4>1. refs'[b] = refs[b] /\ (b \in slab' <=> b \in slab)
        BY <2>1, <3>3 DEF TypeOK, RxOK
      <4>2. DriverHolds(b)' = DriverHolds(b)
        BY <2>2, <3>3, UartAssumption DEF DriverHolds, UartAssumption
      <4>3. QED
        BY <3>1, <4>1, <4>2, BlockFacts
    <3>4. QED
      BY <3>2, <3>3
  <2>5. QED
    BY <2>2, <2>3, <2>4 DEF RefsMatchHolders
<1>4. QED
  BY <1>2, <1>3

LEMMA RefsFull == TypeOK /\ RefsMatchHolders /\ RxBufferFull => RefsMatchHolders'
<1> SUFFICES ASSUME TypeOK, RefsMatchHolders, RxBufferFull PROVE RefsMatchHolders'
  OBVIOUS
<1>1. PICK c \in Blocks : c = rx.buf
  BY DEF RxBufferFull, TypeOK, RxOK, Receiver
<1>2. events' = Append(events, DataEvent(c)) /\ UNCHANGED <<refs, slab>>
  BY <1>1 DEF RxBufferFull
<1>3. rx'.next = None /\ rx'.buf = rx.next
  <2>1. CASE rx.next # None
    BY <2>1 DEF RxBufferFull
  <2>2. CASE rx.next = None
    BY <2>2 DEF RxBufferFull, NoReceiver
  <2>3. QED
    BY <2>1, <2>2
<1>4. c # rx.next /\ c # None
  BY <1>1, UartAssumption DEF RefsMatchHolders, UartAssumption
<1>5. ASSUME NEW b \in Blocks
      PROVE  /\ refs'[b] = DriverHolds(b)' + CountIn(events', {DataEvent(b)})
             /\ b \in slab' <=> refs'[b] = 0
  <2>1. CountIn(events', {DataEvent(b)}) = DataEvents(b) + (IF b = c THEN 1 ELSE 0)
    BY <1>2, DataAppended
  <2>2. DriverHolds(b) = DriverHolds(b)' + (IF b = c THEN 1 ELSE 0)
    BY <1>1, <1>3, <1>4, UartAssumption DEF DriverHolds, UartAssumption
  <2>3. DriverHolds(b)' \in 0 .. 1
    BY DEF DriverHolds
  <2>4. QED
    BY <1>2, <2>1, <2>2, <2>3, BlockFacts
<1>6. rx'.buf # None => rx'.buf # rx'.next
  BY <1>3
<1>7. QED
  BY <1>5, <1>6 DEF RefsMatchHolders

LEMMA RefsStopped == TypeOK /\ RefsMatchHolders /\ RxStopped => RefsMatchHolders'
<1> SUFFICES ASSUME TypeOK, RefsMatchHolders, RxStopped PROVE RefsMatchHolders'
  OBVIOUS
<1>1. PICK flushed \in BOOLEAN :
        LET held   == {rx.buf, rx.next} \ {None}
            drop   == IF flushed THEN held \ {rx.buf} ELSE held
            counts == [b \in Blocks |-> IF b \in drop THEN refs[b] - 1 ELSE refs[b]]
            free   == slab \union {b \in drop : refs[b] = 1}
        IN  /\ flushed => rx.buf # None /\ Room
            /\ events' = IF flushed THEN Append(events, DataEvent(rx.buf)) ELSE events
            /\ EnableRx(retry, free, counts)
  BY DEF RxStopped
<1> DEFINE held   == {rx.buf, rx.next} \ {None}
           drop   == IF flushed THEN held \ {rx.buf} ELSE held
           counts == [b \in Blocks |-> IF b \in drop THEN refs[b] - 1 ELSE refs[b]]
           free   == slab \union {b \in drop : refs[b] = 1}
<1>2. free \in SUBSET Blocks /\ counts \in [Blocks -> Int]
  BY DEF TypeOK, RxOK, Receiver
<1>3. EnableRx(retry, free, counts)
  BY <1>1
<1>4. flushed => rx.buf \in Blocks
  BY <1>1 DEF TypeOK, RxOK, Receiver
<1>5. events' = IF flushed THEN Append(events, DataEvent(rx.buf)) ELSE events
  BY <1>1
<1>6. ASSUME NEW b \in Blocks
      PROVE  counts[b] = CountIn(events', {DataEvent(b)}) /\ (b \in free <=> counts[b] = 0)
  <2>1. CountIn(events', {DataEvent(b)})
          = DataEvents(b) + (IF flushed /\ b = rx.buf THEN 1 ELSE 0)
    <3>1. CASE flushed
      BY <1>4, <1>5, <3>1, DataAppended
    <3>2. CASE ~flushed
      BY <1>5, <3>2, BlockFacts DEF DataEvents
    <3>3. QED
      BY <3>1, <3>2
  <2>2. b \in held <=> DriverHolds(b) = 1
    BY UartAssumption DEF DriverHolds, UartAssumption
  <2>3. b \in drop <=> DriverHolds(b) = 1 /\ ~(flushed /\ b = rx.buf)
    BY <2>2
  <2>4. flushed /\ b = rx.buf => DriverHolds(b) = 1
    BY DEF DriverHolds
  <2>5. counts[b] = (IF b \in drop THEN refs[b] - 1 ELSE refs[b])
    OBVIOUS
  <2>6. b \in free <=> b \in slab \/ (b \in drop /\ refs[b] = 1)
    OBVIOUS
  <2> HIDE DEF held, drop, counts, free
  <2>7. counts[b] = CountIn(events', {DataEvent(b)})
    BY <2>1, <2>3, <2>4, <2>5, BlockFacts
  <2>8. b \in free <=> counts[b] = 0
    BY <2>3, <2>5, <2>6, BlockFacts
  <2>9. QED
    BY <2>7, <2>8
<1> HIDE DEF counts, free
<1>7. QED
  BY <1>2, <1>3, <1>6, EnableRefs

(* The workqueue: the data is consumed, subscribers come and go. *)
LEMMA RefsData == TypeOK /\ RefsMatchHolders /\ HandleData => RefsMatchHolders'
<1> SUFFICES ASSUME TypeOK, RefsMatchHolders, HandleData PROVE RefsMatchHolders'
  OBVIOUS
<1>1. events # <<>> /\ Head(events) \in Events /\ Head(events).kind = "uart_data"
  BY EventsTyped DEF HandleData, Takes
<1>2. PICK c \in Blocks : c = Head(events).block /\ Head(events) = DataEvent(c)
  BY <1>1, EventKinds
<1>3. /\ events' = Tail(events) /\ rx' = rx /\ refs \in [Blocks -> Int]
      /\ refs' = [refs EXCEPT ![c] = @ - 1]
      /\ slab' = IF refs[c] = 1 THEN slab \union {c} ELSE slab
  BY <1>2 DEF HandleData, Takes, Unref, TypeOK, RxOK
<1>4. ASSUME NEW b \in Blocks
      PROVE  /\ refs'[b] = DriverHolds(b)' + CountIn(events', {DataEvent(b)})
             /\ b \in slab' <=> refs'[b] = 0
  <2>1. DataEvents(b) = CountIn(events', {DataEvent(b)}) + (IF b = c THEN 1 ELSE 0)
    BY <1>1, <1>2, <1>3, DataTaken
  <2>2. DriverHolds(b)' = DriverHolds(b)
    BY <1>3 DEF DriverHolds
  <2>3. refs'[b] = refs[b] - (IF b = c THEN 1 ELSE 0)
    BY <1>3
  <2>4. CountIn(events', {DataEvent(b)}) \in Nat
    BY <1>1, <1>3, Counts
  <2>5. b \in slab' <=> b \in slab \/ (b = c /\ refs[c] = 1)
    BY <1>3
  <2>6. QED
    BY <2>1, <2>2, <2>3, <2>4, <2>5, BlockFacts
<1>5. rx'.buf # None => rx'.buf # rx'.next
  BY <1>3 DEF RefsMatchHolders
<1>6. QED
  BY <1>4, <1>5 DEF RefsMatchHolders

LEMMA RefsPeer == TypeOK /\ RefsMatchHolders /\ HandlePeer => RefsMatchHolders'
<1> SUFFICES ASSUME TypeOK, RefsMatchHolders, HandlePeer PROVE RefsMatchHolders'
  OBVIOUS
<1>1. \A b \in Blocks : CountIn(events', {DataEvent(b)}) = DataEvents(b)
  BY OtherTaken DEF HandlePeer, Takes
<1>2. CASE UNCHANGED rxVars
  <2>1. UNCHANGED <<refs, slab>> /\ rx' = rx
    BY <1>2 DEF rxVars
  <2>2. QED
    BY <1>1, <2>1, RefsKept
<1>3. CASE /\ rx' = [rx EXCEPT !.st = "stopping"]
           /\ UNCHANGED <<refs, slab>>
  <2>1. rx'.buf = rx.buf /\ rx'.next = rx.next
    BY <1>3 DEF TypeOK, RxOK, Receiver
  <2>2. QED
    BY <1>1, <1>3, <2>1, RefsKept
<1>4. CASE rx.st = "off" /\ EnableRx(TRUE, slab, refs)
  <2>1. rx.buf = None /\ rx.next = None
    BY <1>4 DEF TypeOK, RxOK, NoReceiver
  <2>2. ASSUME NEW b \in Blocks
        PROVE  /\ refs[b] = CountIn(events', {DataEvent(b)})
               /\ b \in slab <=> refs[b] = 0
    <3>1. DriverHolds(b) = 0
      BY <2>1, UartAssumption DEF DriverHolds, UartAssumption
    <3>2. QED
      BY <1>1, <3>1, BlockFacts
  <2>3. slab \in SUBSET Blocks /\ refs \in [Blocks -> Int]
    BY DEF TypeOK, RxOK
  <2>4. QED
    BY <1>4, <2>2, <2>3, EnableRefs
<1>5. QED
  BY <1>2, <1>3, <1>4 DEF HandlePeer, rxVars

(* The other steps append or take events that carry no data of the UART. *)
LEMMA RefsOthers ==
  ASSUME TypeOK, RefsMatchHolders, UNCHANGED <<refs, slab>>,
         rx'.buf = rx.buf, rx'.next = rx.next,
         \/ UNCHANGED events
         \/ PollDtr
         \/ \E on \in BleWrites : BleCcc(on)
         \/ \E n \in TxLens : CdcReceive(n) \/ BleReceive(n)
         \/ TxPut
  PROVE  RefsMatchHolders'
<1>1. ASSUME NEW b \in Blocks
      PROVE  CountIn(events', {DataEvent(b)}) = DataEvents(b)
  <2>1. CASE UNCHANGED events
    BY <2>1 DEF DataEvents
  <2>2. CASE PollDtr
    <3>1. PeerEvent(line) \in Events /\ events' = Append(events, PeerEvent(line))
      BY <2>2, EventsTyped DEF PollDtr, TypeOK, PeersOK
    <3>2. QED
      BY <3>1, EventsDiffer, OtherAppended
  <2>3. ASSUME NEW on \in BleWrites, BleCcc(on)
        PROVE  CountIn(events', {DataEvent(b)}) = DataEvents(b)
    <3>1. PeerEvent(on) \in Events /\ events' = Append(events, PeerEvent(on))
      BY <2>3, EventsTyped, UartAssumption DEF BleCcc, UartAssumption
    <3>2. QED
      BY <3>1, EventsDiffer, OtherAppended
  <2>4. ASSUME NEW n \in TxLens, CdcReceive(n)
        PROVE  CountIn(events', {DataEvent(b)}) = DataEvents(b)
    <3>1. PeerEvent(TRUE) \notin {DataEvent(b)} /\ TxEvent("cdc_data", n) \notin {DataEvent(b)}
      <4>1. /\ DataEvent(b).kind = "uart_data"
            /\ PeerEvent(TRUE).kind = "peer_conn"
            /\ TxEvent("cdc_data", n).kind = "cdc_data"
        BY EventsDiffer
      <4>2. PeerEvent(TRUE) # DataEvent(b)
        BY <4>1
      <4>3. TxEvent("cdc_data", n) # DataEvent(b)
        BY <4>1
      <4>4. QED
        BY <4>2, <4>3
    <3>2. CountIn(events', {DataEvent(b)}) = DataEvents(b) + 0 + 0
      BY <2>4, <3>1, CountCdcReceive DEF DataEvents
    <3>3. QED
      BY <3>2, BlockFacts
  <2>5. ASSUME NEW n \in TxLens, BleReceive(n)
        PROVE  CountIn(events', {DataEvent(b)}) = DataEvents(b)
    <3>1. TxEvent("ble_data", n) \in TxEvents
      BY DEF TxEvents
    <3>2. TxEvent("ble_data", n) \in Events /\ events' = Append(events, TxEvent("ble_data", n))
      BY <2>5, <3>1, EventsTyped DEF BleReceive
    <3>3. QED
      BY <3>2, EventsDiffer, OtherAppended
  <2>6. CASE TxPut
    <3>1. /\ events # <<>> /\ events' = Tail(events)
          /\ Head(events).kind \in {"cdc_data", "ble_data"}
      BY <2>6 DEF TxPut, Takes
    <3>2. QED
      BY <3>1, OtherTaken
  <2>7. QED
    BY <2>1, <2>2, <2>3, <2>4, <2>5, <2>6
<1>2. QED
  BY <1>1, RefsKept

(***************************************************************************)
(* No receive block is ever handed out while the driver or an event still  *)
(* points into it, and none is lost: for every number of blocks, and every *)
(* interleaving of the interrupts, the events and the subscribers.         *)
(***************************************************************************)
THEOREM RefsCorrect == Spec => []RefsMatchHolders
<1>1. TypeOK /\ RefsMatchHolders /\ [Next]_vars => RefsMatchHolders'
  <2> SUFFICES ASSUME TypeOK, RefsMatchHolders, [Next]_vars PROVE RefsMatchHolders'
    OBVIOUS
  <2>1. CASE RxError
    <3>1. rx'.buf = rx.buf /\ rx'.next = rx.next /\ UNCHANGED <<refs, slab, events>>
      BY <2>1 DEF RxError, TypeOK, RxOK, Receiver
    <3>2. QED
      BY <3>1, RefsOthers
  <2>2. CASE UNCHANGED rxVars /\ UNCHANGED events
    BY <2>2, RefsOthers DEF rxVars
  <2>3. CASE UsbAndBle \/ TxPut
    <3>1. UNCHANGED rxVars
      BY <2>3 DEF UsbAndBle, SetLine, PollDtr, CdcReceive, BleCcc, BleReceive, TxPut
    <3>2. rx' = rx /\ UNCHANGED <<refs, slab>>
      BY <3>1 DEF rxVars
    <3>3. \/ UNCHANGED events
          \/ PollDtr
          \/ \E on \in BleWrites : BleCcc(on)
          \/ \E n \in TxLens : CdcReceive(n) \/ BleReceive(n)
          \/ TxPut
      BY <2>3 DEF UsbAndBle, SetLine
    <3>4. QED
      BY <3>2, <3>3, RefsOthers
  <2>4. CASE RxReady \/ RxBufRequest \/ RxBufferFull \/ RxStopped
    BY <2>4, RefsReady, RefsRequest, RefsFull, RefsStopped
  <2>5. CASE HandleData \/ HandlePeer
    BY <2>5, RefsData, RefsPeer
  <2>6. TxDone \/ TxStart \/ UNCHANGED vars => UNCHANGED rxVars /\ UNCHANGED events
    BY DEF TxDone, TxStart, vars
  <2>7. QED
    BY <2>1, <2>2, <2>3, <2>4, <2>5, <2>6 DEF Next, Driver, Workqueue
<1>2. QED
  BY <1>1, RefsInit, TypeCorrect, PTL DEF Spec

-----------------------------------------------------------------------------
(* The blocks of the USB port *)

CdcEvents == {TxEvent("cdc_data", n) : n \in TxLens}

(* An event of the USB port is told by its kind. *)
LEMMA CdcEventKind ==
  ASSUME NEW e \in Events
  PROVE  e \in CdcEvents <=> CdcBlockOf(e) = 1
<1>1. e \in CdcEvents => e.kind = "cdc_data"
  BY EventsDiffer DEF CdcEvents
<1>2. ASSUME e.kind = "cdc_data" PROVE e \in CdcEvents
  <2>1. PICK k \in {"cdc_data", "ble_data"}, n \in TxLens : e = TxEvent(k, n)
    BY <1>2, EventKinds DEF TxEvents
  <2>2. k = "cdc_data"
    BY <1>2, <2>1, EventsDiffer
  <2>3. QED
    BY <2>1, <2>2 DEF CdcEvents
<1>3. QED
  BY <1>1, <1>2 DEF CdcBlockOf

(***************************************************************************)
(* Every block that the USB interrupt takes is freed once, by the handler  *)
(* of the event that carries it, whether its data is written, started or   *)
(* dropped: for every number of blocks and length of data.                 *)
(***************************************************************************)
THEOREM CdcBlocksCorrect == Spec => []CdcBlocksAccounted
<1> DEFINE held == IF worker.pc = "put" THEN CdcBlockOf(worker.ev) ELSE 0
<1>1. Init => CdcBlocksAccounted
  <2> SUFFICES ASSUME Init PROVE CdcBlocksAccounted
    OBVIOUS
  <2>1. worker.pc # "put" /\ cdcFree = CdcBlocks /\ events = <<>>
    BY DEF Init, WorkerIdle
  <2>2. CountIn(events, CdcEvents) = 0
    BY <2>1, CountEmpty
  <2>3. QED
    BY <2>1, <2>2, UartAssumption DEF CdcBlocksAccounted, CdcEvents, UartAssumption
<1>2. TypeOK /\ CdcBlocksAccounted /\ [Next]_vars => CdcBlocksAccounted'
  <2> SUFFICES ASSUME TypeOK, CdcBlocksAccounted, [Next]_vars PROVE CdcBlocksAccounted'
    OBVIOUS
  <2>1. /\ CdcBlocks = cdcFree + CountIn(events, CdcEvents) + held
        /\ cdcFree \in Nat /\ CountIn(events, CdcEvents) \in Nat /\ held \in 0 .. 1
    BY Counts DEF CdcBlocksAccounted, CdcEvents, CdcBlockOf, TypeOK, PeersOK
  <2>2. SUFFICES CdcBlocks = cdcFree' + CountIn(events', CdcEvents) + held'
    BY DEF CdcBlocksAccounted, CdcEvents
  <2>3. ASSUME NEW e \in Events, e.kind # "cdc_data", events' = Append(events, e),
               UNCHANGED <<worker, cdcFree>>
        PROVE  CdcBlocks = cdcFree' + CountIn(events', CdcEvents) + held'
    <3>1. e \notin CdcEvents
      BY <2>3, CdcEventKind DEF CdcBlockOf
    <3>2. CountIn(events', CdcEvents) = CountIn(events, CdcEvents)
      BY <2>1, <2>3, <3>1, Counts
    <3>3. QED
      BY <2>1, <2>3, <3>2
  <2>4. ASSUME events # <<>>, Head(events).kind # "cdc_data", events' = Tail(events),
               UNCHANGED <<worker, cdcFree>>
        PROVE  CdcBlocks = cdcFree' + CountIn(events', CdcEvents) + held'
    <3>1. Head(events) \notin CdcEvents
      BY <2>4, CdcEventKind, EventsTyped DEF CdcBlockOf
    <3>2. CountIn(events', CdcEvents) = CountIn(events, CdcEvents)
      BY <2>4, <3>1, Counts
    <3>3. QED
      BY <2>1, <2>4, <3>2
  <2>5. CASE UNCHANGED <<events, worker, cdcFree>>
    BY <2>1, <2>5
  <2>6. CASE RxReady \/ RxBufferFull
    <3>1. rx.buf \in Blocks
      BY <2>6 DEF RxReady, RxBufferFull, TypeOK, RxOK, Receiver
    <3>2. events' = Append(events, DataEvent(rx.buf)) /\ UNCHANGED <<worker, cdcFree>>
      BY <2>6 DEF RxReady, RxBufferFull, usbVars, ghosts
    <3>3. QED
      BY <2>3, <3>1, <3>2, EventsTyped, EventsDiffer
  <2>7. CASE RxStopped
    <3>1. PICK flushed \in BOOLEAN :
            /\ flushed => rx.buf # None
            /\ events' = IF flushed THEN Append(events, DataEvent(rx.buf)) ELSE events
      BY <2>7 DEF RxStopped
    <3>2. UNCHANGED <<worker, cdcFree>>
      BY <2>7 DEF RxStopped, usbVars, ghosts
    <3>3. CASE flushed
      <4>1. rx.buf \in Blocks
        BY <3>1, <3>3 DEF TypeOK, RxOK, Receiver
      <4>2. QED
        BY <2>3, <3>1, <3>2, <3>3, <4>1, EventsTyped, EventsDiffer
    <3>4. CASE ~flushed
      BY <2>5, <3>1, <3>2, <3>4
    <3>5. QED
      BY <3>3, <3>4
  <2>8. CASE PollDtr
    <3>1. PeerEvent(line) \in Events /\ events' = Append(events, PeerEvent(line))
      BY <2>8, EventsTyped DEF PollDtr, TypeOK, PeersOK
    <3>2. UNCHANGED <<worker, cdcFree>>
      BY <2>8 DEF PollDtr
    <3>3. QED
      BY <2>3, <3>1, <3>2, EventsDiffer
  <2>9. ASSUME NEW on \in BleWrites, BleCcc(on)
        PROVE  CdcBlocks = cdcFree' + CountIn(events', CdcEvents) + held'
    <3>1. PeerEvent(on) \in Events /\ events' = Append(events, PeerEvent(on))
      BY <2>9, EventsTyped, UartAssumption DEF BleCcc, UartAssumption
    <3>2. UNCHANGED <<worker, cdcFree>>
      BY <2>9 DEF BleCcc, usbVars, ghosts
    <3>3. QED
      BY <2>3, <3>1, <3>2, EventsDiffer
  <2>10. ASSUME NEW n \in TxLens, CdcReceive(n)
         PROVE  CdcBlocks = cdcFree' + CountIn(events', CdcEvents) + held'
    <3>1. PeerEvent(TRUE) \notin CdcEvents /\ TxEvent("cdc_data", n) \in CdcEvents
      <4>1. PeerEvent(TRUE).kind = "peer_conn" /\ PeerEvent(TRUE) \in Events
        BY EventsDiffer, EventsTyped
      <4>2. PeerEvent(TRUE) \notin CdcEvents
        <5>1. \A e \in Events : e.kind = "peer_conn" => e \notin CdcEvents
          BY CdcEventKind DEF CdcBlockOf
        <5>2. QED
          BY <4>1, <5>1
      <4>3. TxEvent("cdc_data", n) \in CdcEvents
        BY DEF CdcEvents
      <4>4. QED
        BY <4>2, <4>3
    <3>2. CountIn(events', CdcEvents)
            = CountIn(events, CdcEvents) + 0 + (IF cdcFree > 0 THEN 1 ELSE 0)
      BY <2>10, <3>1, CountCdcReceive
    <3>3. cdcFree' = cdcFree - (IF cdcFree > 0 THEN 1 ELSE 0) /\ worker' = worker
      <4>1. CASE cdcFree > 0
        BY <2>10, <4>1 DEF CdcReceive
      <4>2. CASE ~(cdcFree > 0)
        BY <2>10, <4>2 DEF CdcReceive
      <4>3. QED
        BY <4>1, <4>2
    <3>4. held' = held
      BY <3>3
    <3> HIDE DEF held
    <3>5. QED
      BY <2>1, <3>2, <3>3, <3>4
  <2>11. ASSUME NEW n \in TxLens, BleReceive(n)
         PROVE  CdcBlocks = cdcFree' + CountIn(events', CdcEvents) + held'
    <3>1. TxEvent("ble_data", n) \in TxEvents
      BY DEF TxEvents
    <3>2. TxEvent("ble_data", n) \in Events /\ events' = Append(events, TxEvent("ble_data", n))
      BY <2>11, <3>1, EventsTyped DEF BleReceive
    <3>3. UNCHANGED <<worker, cdcFree>>
      BY <2>11 DEF BleReceive, usbVars, ghosts
    <3>4. QED
      BY <2>3, <3>2, <3>3, EventsDiffer
  <2>12. CASE HandleData
    BY <2>4, <2>12 DEF HandleData, Takes, usbVars, ghosts
  <2>13. CASE HandlePeer
    BY <2>4, <2>13 DEF HandlePeer, Takes, usbVars, ghosts
  <2>14. CASE TxPut
    <3> DEFINE e == Head(events)
    <3>1. worker.pc # "put" /\ events # <<>> /\ e \in Events /\ events' = Tail(events)
      BY <2>14, EventsTyped DEF TxPut, Takes
    <3>2. CountIn(events, CdcEvents) = CountIn(events', CdcEvents) + CdcBlockOf(e)
      BY <3>1, Counts, CdcEventKind DEF CdcBlockOf
    <3>3. CountIn(events', CdcEvents) \in Nat /\ CdcBlockOf(e) \in 0 .. 1
      BY <3>1, Counts DEF CdcBlockOf
    <3>4. held = 0
      BY <3>1
    <3>5. cdcFree' + held' = cdcFree + CdcBlockOf(e)
      <4>1. CASE cdcFree' = cdcFree + CdcBlockOf(e) /\ worker' = worker
        BY <2>1, <3>1, <3>3, <4>1
      <4>2. CASE worker' = [pc |-> "put", ev |-> e] /\ cdcFree' = cdcFree
        BY <4>2
      <4>3. QED
        BY <2>14, <4>1, <4>2 DEF TxPut
    <3>6. cdcFree' \in Nat /\ held' \in 0 .. 1
      <4>1. cdcFree' \in Nat
        BY <2>14, <2>1, <3>3 DEF TxPut
      <4>2. held' \in 0 .. 1
        BY DEF CdcBlockOf
      <4>3. QED
        BY <4>1, <4>2
    <3> HIDE DEF held, e
    <3>7. QED
      BY <2>1, <3>2, <3>3, <3>4, <3>5, <3>6
  <2>15. CASE TxStart
    <3>1. events' = events /\ cdcFree' = cdcFree + held
      BY <2>15 DEF TxStart
    <3>2. held' = 0
      BY <2>15 DEF TxStart, WorkerIdle
    <3> HIDE DEF held
    <3>3. QED
      BY <2>1, <3>1, <3>2
  <2>16. RxBufRequest \/ RxError \/ TxDone \/ (\E on \in BOOLEAN : SetLine(on)) \/ UNCHANGED vars
           => UNCHANGED <<events, worker, cdcFree>>
    BY DEF RxBufRequest, RxError, TxDone, SetLine, vars, usbVars, ghosts
  <2> HIDE DEF held
  <2>17. QED
    BY <2>5, <2>6, <2>7, <2>8, <2>9, <2>10, <2>11, <2>12, <2>13, <2>14, <2>15, <2>16
       DEF Next, Driver, UsbAndBle, Workqueue
<1>3. QED
  BY <1>1, <1>2, TypeCorrect, PTL DEF Spec

-----------------------------------------------------------------------------
(* The subscribers *)

(* A subscriber joins, or leaves. *)
Joined == PeerEvent(TRUE)
Gone == PeerEvent(FALSE)

(* The balance of the peer_conn events in a queue. *)
BalanceOf(q) == CountIn(q, {Joined}) - CountIn(q, {Gone})
Balance == BalanceOf(events)

(***************************************************************************)
(* The count, corrected by the events still waiting, is the port as last   *)
(* polled and the balance of the CCC writes.                               *)
(***************************************************************************)
SubscribersAccounted ==
  count + Balance = (IF cdcReady THEN 1 ELSE 0) + bleNet

LEMMA BalanceIs ==
  /\ Balance = CountIn(events, {Joined}) - CountIn(events, {Gone})
  /\ Balance' = CountIn(events', {Joined}) - CountIn(events', {Gone})
BY DEF Balance, BalanceOf

(* A peer_conn event is one of two, which differ; another event is neither. *)
LEMMA PeerEventsDiffer ==
  /\ Joined # Gone
  /\ \A e : e.kind # "peer_conn" => e # Joined /\ e # Gone
<1>1. PeerEvent(TRUE).on # PeerEvent(FALSE).on
  BY EventsDiffer
<1>2. Joined # Gone
  BY <1>1 DEF Joined, Gone
<1>3. Joined.kind = "peer_conn" /\ Gone.kind = "peer_conn"
  BY EventsDiffer DEF Joined, Gone
<1>4. QED
  BY <1>2, <1>3

(* What an event that is appended or taken does to the balance. *)
LEMMA BalanceAppended ==
  ASSUME TypeOK, NEW e \in Events, events' = Append(events, e)
  PROVE  /\ e = Joined => Balance' = Balance + 1
         /\ e = Gone => Balance' = Balance - 1
         /\ e.kind # "peer_conn" => Balance' = Balance
         /\ Balance \in Int
<1>1. \A x : /\ CountIn(events, {x}) \in Nat
             /\ CountIn(events', {x}) = CountIn(events, {x}) + (IF e = x THEN 1 ELSE 0)
  BY Counts
<1>2. /\ CountIn(events, {Joined}) \in Nat /\ CountIn(events, {Gone}) \in Nat
      /\ CountIn(events', {Joined}) = CountIn(events, {Joined}) + (IF e = Joined THEN 1 ELSE 0)
      /\ CountIn(events', {Gone}) = CountIn(events, {Gone}) + (IF e = Gone THEN 1 ELSE 0)
  BY <1>1
<1>3. QED
  BY <1>2, BalanceIs, PeerEventsDiffer

LEMMA BalanceTaken ==
  ASSUME TypeOK, events # <<>>, events' = Tail(events)
  PROVE  /\ Head(events) = Joined => Balance' = Balance - 1
         /\ Head(events) = Gone => Balance' = Balance + 1
         /\ Head(events).kind # "peer_conn" => Balance' = Balance
         /\ Balance \in Int
<1> DEFINE e == Head(events)
<1>1. \A x : /\ CountIn(events', {x}) \in Nat
             /\ CountIn(events, {x}) = CountIn(events', {x}) + (IF e = x THEN 1 ELSE 0)
  BY Counts
<1>2. /\ CountIn(events', {Joined}) \in Nat /\ CountIn(events', {Gone}) \in Nat
      /\ CountIn(events, {Joined}) = CountIn(events', {Joined}) + (IF e = Joined THEN 1 ELSE 0)
      /\ CountIn(events, {Gone}) = CountIn(events', {Gone}) + (IF e = Gone THEN 1 ELSE 0)
  BY <1>1
<1> HIDE DEF e
<1>3. /\ e = Joined => Balance' = Balance - 1
      /\ e = Gone => Balance' = Balance + 1
      /\ e.kind # "peer_conn" => Balance' = Balance
      /\ Balance \in Int
  BY <1>2, BalanceIs, PeerEventsDiffer
<1>4. QED
  BY <1>3 DEF e

(* The prefixes of a queue, and of one that is appended to or taken from. *)
LEMMA PrefixAppend ==
  ASSUME NEW T, NEW q \in Seq(T), NEW e \in T, NEW n \in 0 .. Len(q)
  PROVE  /\ SubSeq(Append(q, e), 1, n) = SubSeq(q, 1, n)
         /\ SubSeq(Append(q, e), 1, Len(q) + 1) = Append(q, e)
         /\ SubSeq(q, 1, Len(q)) = q
OBVIOUS

(* The first n of the tail are the tail of the first n + 1. *)
LEMMA PrefixTail ==
  ASSUME NEW T, NEW q \in Seq(T), q # <<>>, NEW n \in 0 .. Len(q) - 1
  PROVE  /\ SubSeq(q, 1, n + 1) \in Seq(T)
         /\ SubSeq(q, 1, n + 1) # <<>>
         /\ Head(SubSeq(q, 1, n + 1)) = Head(q)
         /\ Tail(SubSeq(q, 1, n + 1)) = SubSeq(Tail(q), 1, n)
<1> DEFINE r == SubSeq(q, 1, n + 1)
<1>1. Len(q) \in Nat \ {0} /\ n + 1 \in 1 .. Len(q)
  OBVIOUS
<1>2. r \in Seq(T) /\ Len(r) = n + 1 /\ \A i \in 1 .. n + 1 : r[i] = q[i]
  BY <1>1
<1>3. r # <<>> /\ Head(r) = Head(q)
  BY <1>1, <1>2
<1>4. /\ Tail(r) \in Seq(T) /\ Len(Tail(r)) = n
      /\ \A i \in 1 .. n : Tail(r)[i] = q[i + 1]
  BY <1>2
<1>5. /\ SubSeq(Tail(q), 1, n) \in Seq(T) /\ Len(SubSeq(Tail(q), 1, n)) = n
      /\ \A i \in 1 .. n : SubSeq(Tail(q), 1, n)[i] = q[i + 1]
  BY <1>1
<1>6. Tail(r) = SubSeq(Tail(q), 1, n)
  BY <1>4, <1>5
<1>7. QED
  BY <1>2, <1>3, <1>6

(***************************************************************************)
(* Handling a queue from a count never brings it below zero on the way.    *)
(***************************************************************************)
NeverBelow(c, q) == \A n \in 0 .. Len(q) : c + BalanceOf(SubSeq(q, 1, n)) >= 0

(* What an event adds to the count. *)
Weight(e) == IF e = Joined THEN 1 ELSE IF e = Gone THEN -1 ELSE 0

(* What appending and taking do to the balance of any queue. *)
LEMMA BalanceStep ==
  ASSUME NEW q \in Seq(Events)
  PROVE  /\ BalanceOf(q) \in Int
         /\ \A e \in Events : BalanceOf(Append(q, e)) = BalanceOf(q) + Weight(e)
         /\ q # <<>> => BalanceOf(q) = BalanceOf(Tail(q)) + Weight(Head(q))
<1>1. CountIn(q, {Joined}) \in Nat /\ CountIn(q, {Gone}) \in Nat
  BY PositionsFinite
<1>2. ASSUME NEW e \in Events
      PROVE  BalanceOf(Append(q, e)) = BalanceOf(q) + Weight(e)
  <2>1. /\ CountIn(Append(q, e), {Joined}) = CountIn(q, {Joined}) + (IF e = Joined THEN 1 ELSE 0)
        /\ CountIn(Append(q, e), {Gone}) = CountIn(q, {Gone}) + (IF e = Gone THEN 1 ELSE 0)
    BY CountAppend
  <2>2. QED
    BY <1>1, <2>1, PeerEventsDiffer DEF BalanceOf, Weight
<1>3. ASSUME q # <<>>
      PROVE  BalanceOf(q) = BalanceOf(Tail(q)) + Weight(Head(q))
  <2>1. /\ CountIn(q, {Joined}) = CountIn(Tail(q), {Joined}) + (IF Head(q) \in {Joined} THEN 1 ELSE 0)
        /\ CountIn(q, {Gone}) = CountIn(Tail(q), {Gone}) + (IF Head(q) \in {Gone} THEN 1 ELSE 0)
    BY <1>3, CountTail
  <2>2. Tail(q) \in Seq(Events)
    BY <1>3
  <2>3. CountIn(Tail(q), {Joined}) \in Nat /\ CountIn(Tail(q), {Gone}) \in Nat
    BY <2>2, PositionsFinite
  <2>4. QED
    BY <2>1, <2>3, PeerEventsDiffer DEF BalanceOf, Weight
<1>4. BalanceOf(q) \in Int
  BY <1>1 DEF BalanceOf
<1>5. QED
  BY <1>2, <1>3, <1>4

(* An event may be appended unless it takes the last one away. *)
LEMMA NeverBelowAppend ==
  ASSUME NEW c \in Int, NEW q \in Seq(Events), NEW e \in Events, NeverBelow(c, q),
         e = Gone => c + BalanceOf(q) >= 1
  PROVE  NeverBelow(c, Append(q, e))
<1> DEFINE r == Append(q, e)
<1>1. Len(q) \in Nat /\ Len(r) = Len(q) + 1
  OBVIOUS
<1>2. c + BalanceOf(q) >= 0
  <2>1. Len(q) \in 0 .. Len(q) /\ SubSeq(q, 1, Len(q)) = q
    BY <1>1
  <2>2. QED
    BY <2>1 DEF NeverBelow
<1>3. BalanceOf(q) \in Int /\ BalanceOf(r) = BalanceOf(q) + Weight(e)
  BY BalanceStep
<1>4. c + BalanceOf(r) >= 0
  BY <1>2, <1>3 DEF Weight
<1>5. \A n \in 0 .. Len(q) : c + BalanceOf(SubSeq(r, 1, n)) >= 0
  BY PrefixAppend DEF NeverBelow
<1>6. SubSeq(r, 1, Len(q) + 1) = r
  BY <1>1
<1>7. \A n \in 0 .. Len(q) + 1 : n \in 0 .. Len(q) \/ n = Len(q) + 1
  BY <1>1
<1> HIDE DEF r
<1>8. NeverBelow(c, r)
  BY <1>1, <1>4, <1>5, <1>6, <1>7 DEF NeverBelow
<1>9. QED
  BY <1>8 DEF r

(* The head may be handled. *)
LEMMA NeverBelowTail ==
  ASSUME NEW c \in Int, NEW q \in Seq(Events), q # <<>>, NeverBelow(c, q)
  PROVE  NeverBelow(c + Weight(Head(q)), Tail(q))
<1> SUFFICES ASSUME NEW n \in 0 .. Len(Tail(q))
             PROVE  c + Weight(Head(q)) + BalanceOf(SubSeq(Tail(q), 1, n)) >= 0
  BY DEF NeverBelow
<1>1. n \in 0 .. Len(q) - 1 /\ n + 1 \in 0 .. Len(q)
  OBVIOUS
<1> DEFINE p == SubSeq(q, 1, n + 1)
<1>2. /\ p \in Seq(Events) /\ p # <<>> /\ Head(p) = Head(q)
      /\ Tail(p) = SubSeq(Tail(q), 1, n)
  BY <1>1, PrefixTail
<1>3. c + BalanceOf(p) >= 0
  BY <1>1 DEF NeverBelow
<1>4. Tail(p) \in Seq(Events)
  BY <1>2
<1> HIDE DEF p
<1>5. BalanceOf(p) = BalanceOf(Tail(p)) + Weight(Head(p)) /\ BalanceOf(Tail(p)) \in Int
  BY <1>2, <1>4, BalanceStep
<1>6. Weight(Head(q)) \in Int
  BY DEF Weight
<1>7. /\ BalanceOf(SubSeq(Tail(q), 1, n)) = BalanceOf(Tail(p))
      /\ Weight(Head(p)) = Weight(Head(q))
  BY <1>2
<1>8. QED
  BY <1>3, <1>5, <1>6, <1>7

(***************************************************************************)
(* The inductive invariant: while BLE has not overdrawn, its balance is    *)
(* not negative, and no prefix of the queue brings the count below zero.   *)
(***************************************************************************)
CountInv == ~overdrawn => bleNet >= 0 /\ NeverBelow(count, events)

(* That holds for every schedule of polls, data and writes. *)
LEMMA SubscribersBalance == Spec => []SubscribersAccounted
<1> DEFINE ready == IF cdcReady THEN 1 ELSE 0
<1>1. Init => SubscribersAccounted
  <2> SUFFICES ASSUME Init PROVE SubscribersAccounted
    OBVIOUS
  <2>1. count = 0 /\ bleNet = 0 /\ events = <<>>
    BY DEF Init
  <2>2. CountIn(events, {Joined}) = 0 /\ CountIn(events, {Gone}) = 0
    BY <2>1, CountEmpty
  <2>3. ready = 0
    BY DEF Init
  <2> HIDE DEF ready
  <2>4. count + Balance = ready + bleNet
    BY <2>1, <2>2, <2>3, BalanceIs
  <2>5. QED
    BY <2>4 DEF SubscribersAccounted, ready
<1>2. TypeOK /\ SubscribersAccounted /\ [Next]_vars => SubscribersAccounted'
  <2> SUFFICES ASSUME TypeOK, SubscribersAccounted, [Next]_vars PROVE SubscribersAccounted'
    OBVIOUS
  <2>1. /\ count \in Int /\ bleNet \in Int /\ Balance \in Int /\ ready \in 0 .. 1
        /\ count + Balance = ready + bleNet
    <3>1. CountIn(events, {Joined}) \in Nat /\ CountIn(events, {Gone}) \in Nat
      BY Counts
    <3>2. count \in Int /\ bleNet \in Int
      BY DEF TypeOK, RxOK, PeersOK
    <3>3. count + Balance = ready + bleNet
      BY DEF SubscribersAccounted
    <3>4. ready \in 0 .. 1
      OBVIOUS
    <3> HIDE DEF ready
    <3>5. QED
      BY <3>1, <3>2, <3>3, <3>4, BalanceIs
  <2>4. SUFFICES count' + Balance' = ready' + bleNet'
    BY DEF SubscribersAccounted
  <2>5. CASE UNCHANGED <<events, count, cdcReady, bleNet>>
    BY <2>1, <2>5 DEF Balance, BalanceOf
  <2>6. CASE RxReady \/ RxBufferFull
    <3>1. rx.buf \in Blocks
      BY <2>6 DEF RxReady, RxBufferFull, TypeOK, RxOK, Receiver
    <3>2. events' = Append(events, DataEvent(rx.buf)) /\ UNCHANGED <<count, cdcReady, bleNet>>
      BY <2>6 DEF RxReady, RxBufferFull, usbVars, ghosts
    <3>3. Balance' = Balance
      BY <3>1, <3>2, EventsTyped, EventsDiffer, BalanceAppended
    <3>4. QED
      BY <2>1, <3>2, <3>3
  <2>7. CASE RxStopped
    <3>1. PICK flushed \in BOOLEAN :
            /\ flushed => rx.buf # None
            /\ events' = IF flushed THEN Append(events, DataEvent(rx.buf)) ELSE events
      BY <2>7 DEF RxStopped
    <3>2. UNCHANGED <<count, cdcReady, bleNet>>
      BY <2>7 DEF RxStopped, usbVars, ghosts
    <3>3. CASE flushed
      <4>1. rx.buf \in Blocks
        BY <3>1, <3>3 DEF TypeOK, RxOK, Receiver
      <4>2. Balance' = Balance
        BY <3>1, <3>3, <4>1, EventsTyped, EventsDiffer, BalanceAppended
      <4>3. QED
        BY <2>1, <3>2, <4>2
    <3>4. CASE ~flushed
      BY <2>5, <3>1, <3>2, <3>4
    <3>5. QED
      BY <3>3, <3>4
  <2>8. CASE PollDtr
    <3>1. /\ PeerEvent(line) \in Events /\ events' = Append(events, PeerEvent(line))
          /\ line \in BOOLEAN /\ cdcReady \in BOOLEAN
      BY <2>8, EventsTyped DEF PollDtr, TypeOK, PeersOK
    <3>2. UNCHANGED <<count, bleNet>> /\ cdcReady' = line /\ line # cdcReady
      BY <2>8 DEF PollDtr, ghosts
    <3>3. CASE line = TRUE
      <4>1. Balance' = Balance + 1
        BY <3>1, <3>3, BalanceAppended DEF Joined
      <4>2. ready = 0 /\ ready' = 1
        BY <3>1, <3>2, <3>3
      <4>3. QED
        BY <2>1, <3>2, <4>1, <4>2
    <3>4. CASE line = FALSE
      <4>1. Balance' = Balance - 1
        BY <3>1, <3>4, BalanceAppended DEF Gone
      <4>2. ready = 1 /\ ready' = 0
        BY <3>1, <3>2, <3>4
      <4>3. QED
        BY <2>1, <3>2, <4>1, <4>2
    <3>5. QED
      BY <3>1, <3>3, <3>4
  <2>9. ASSUME NEW on \in BleWrites, BleCcc(on)
        PROVE  count' + Balance' = ready' + bleNet'
    <3>1. on \in BOOLEAN /\ PeerEvent(on) \in Events /\ events' = Append(events, PeerEvent(on))
      BY <2>9, EventsTyped, UartAssumption DEF BleCcc, UartAssumption
    <3>2. UNCHANGED <<count, cdcReady>>
      BY <2>9 DEF BleCcc, usbVars, ghosts
    <3>3. ready' = ready
      BY <3>2
    <3> HIDE DEF ready
    <3>4. CASE on = TRUE
      <4>1. Balance' = Balance + 1
        BY <3>1, <3>4, BalanceAppended DEF Joined
      <4>2. bleNet' = bleNet + 1
        BY <2>9, <3>4 DEF BleCcc
      <4>3. QED
        BY <2>1, <3>2, <3>3, <4>1, <4>2
    <3>5. CASE on = FALSE
      <4>1. Balance' = Balance - 1
        BY <3>1, <3>5, BalanceAppended DEF Gone
      <4>2. bleNet' = bleNet - 1
        BY <2>9, <3>5 DEF BleCcc
      <4>3. QED
        BY <2>1, <3>2, <3>3, <4>1, <4>2
    <3>6. QED
      BY <3>1, <3>4, <3>5
  <2>10. ASSUME NEW n \in TxLens, CdcReceive(n)
         PROVE  count' + Balance' = ready' + bleNet'
    <3> DEFINE opened == IF ~cdcReady /\ line THEN 1 ELSE 0
    <3>1. TxEvent("cdc_data", n).kind # "peer_conn"
      BY EventsDiffer
    <3>2. CountIn(events', {Joined}) = CountIn(events, {Joined}) + opened + 0
      BY <2>10, <3>1, CountCdcReceive, PeerEventsDiffer DEF Joined
    <3>3. CountIn(events', {Gone}) = CountIn(events, {Gone}) + 0 + 0
      BY <2>10, <3>1, CountCdcReceive, PeerEventsDiffer DEF Joined
    <3>4. CountIn(events, {Joined}) \in Nat /\ CountIn(events, {Gone}) \in Nat
      BY Counts
    <3>5. UNCHANGED <<count, bleNet>> /\ cdcReady' = (cdcReady \/ line)
      BY <2>10 DEF CdcReceive, ghosts
    <3>6. ready' = ready + opened /\ opened \in 0 .. 1
      <4>1. CASE cdcReady
        <5>1. ready = 1 /\ opened = 0 /\ ready' = 1
          BY <3>5, <4>1
        <5>2. QED
          BY <5>1
      <4>2. CASE ~cdcReady /\ line
        <5>1. ready = 0 /\ opened = 1 /\ ready' = 1
          BY <3>5, <4>2
        <5>2. QED
          BY <5>1
      <4>3. CASE ~cdcReady /\ ~line
        <5>1. ready = 0 /\ opened = 0 /\ ready' = 0
          BY <3>5, <4>3
        <5>2. QED
          BY <5>1
      <4>4. QED
        BY <4>1, <4>2, <4>3
    <3> HIDE DEF ready, opened
    <3>7. Balance' = Balance + opened
      BY <3>2, <3>3, <3>4, <3>6, BalanceIs
    <3>8. QED
      BY <2>1, <3>5, <3>6, <3>7
  <2>11. ASSUME NEW n \in TxLens, BleReceive(n)
         PROVE  count' + Balance' = ready' + bleNet'
    <3>1. TxEvent("ble_data", n) \in TxEvents
      BY DEF TxEvents
    <3>2. TxEvent("ble_data", n) \in Events /\ events' = Append(events, TxEvent("ble_data", n))
      BY <2>11, <3>1, EventsTyped DEF BleReceive
    <3>3. UNCHANGED <<count, cdcReady, bleNet>>
      BY <2>11 DEF BleReceive, usbVars, ghosts
    <3>4. Balance' = Balance
      BY <3>2, EventsDiffer, BalanceAppended
    <3>5. QED
      BY <2>1, <3>3, <3>4
  <2>12. CASE HandleData \/ TxPut
    <3>1. /\ events # <<>> /\ events' = Tail(events) /\ Head(events).kind # "peer_conn"
          /\ UNCHANGED <<count, cdcReady, bleNet>>
      BY <2>12 DEF HandleData, TxPut, Takes, usbVars, ghosts
    <3>2. QED
      BY <2>1, <3>1, BalanceTaken
  <2>13. CASE HandlePeer
    <3> DEFINE e == Head(events)
    <3>1. /\ events # <<>> /\ events' = Tail(events) /\ UNCHANGED <<cdcReady, bleNet>>
          /\ count' = IF e.on THEN count + 1 ELSE count - 1
      BY <2>13 DEF HandlePeer, Takes, usbVars, ghosts
    <3>2. e.kind = "peer_conn"
      BY <2>13 DEF HandlePeer, Takes
    <3>3. e \in Events
      BY <3>1, EventsTyped
    <3>4. e.on \in BOOLEAN /\ e = PeerEvent(e.on)
      BY <3>2, <3>3, EventKinds
    <3>5. CASE e.on = TRUE
      <4>1. Balance' = Balance - 1
        BY <3>1, <3>4, <3>5, BalanceTaken DEF Joined
      <4>2. count' = count + 1
        BY <3>1, <3>5
      <4>3. QED
        BY <2>1, <3>1, <4>1, <4>2
    <3>6. CASE e.on = FALSE
      <4>1. Balance' = Balance + 1
        BY <3>1, <3>4, <3>6, BalanceTaken DEF Gone
      <4>2. count' = count - 1
        BY <3>1, <3>6
      <4>3. QED
        BY <2>1, <3>1, <4>1, <4>2
    <3>7. QED
      BY <3>4, <3>5, <3>6
  <2>14. (\/ RxBufRequest \/ RxError \/ TxDone \/ TxStart
          \/ (\E on \in BOOLEAN : SetLine(on)) \/ UNCHANGED vars)
           => UNCHANGED <<events, count, cdcReady, bleNet>>
    BY DEF RxBufRequest, RxError, TxDone, TxStart, SetLine, vars, usbVars, ghosts
  <2> HIDE DEF ready
  <2>15. QED
    BY <2>5, <2>6, <2>7, <2>8, <2>9, <2>10, <2>11, <2>12, <2>13, <2>14
       DEF Next, Driver, UsbAndBle, Workqueue
<1>3. QED
  BY <1>1, <1>2, TypeCorrect, PTL DEF Spec

(* Nothing is waiting at first. *)
LEMMA CountInit == Init => CountInv
<1> SUFFICES ASSUME Init PROVE CountInv
  OBVIOUS
<1>1. bleNet = 0 /\ count = 0 /\ events = <<>> /\ events \in Seq(Events)
  BY DEF Init
<1>2. \A n \in 0 .. Len(events) : SubSeq(events, 1, n) = <<>>
  BY <1>1
<1>3. BalanceOf(<<>>) = 0
  BY CountEmpty DEF BalanceOf
<1>4. \A n \in 0 .. Len(events) : BalanceOf(SubSeq(events, 1, n)) = 0
  BY <1>2, <1>3
<1>5. NeverBelow(count, events)
  BY <1>1, <1>4 DEF NeverBelow
<1>6. QED
  BY <1>1, <1>5 DEF CountInv

(* A step that appends an event that is not of a subscriber, or none. *)
LEMMA CountAfterOther ==
  ASSUME TypeOK, CountInv, UNCHANGED <<count, bleNet, overdrawn>>,
         \/ events' = events
         \/ \E e \in Events : e.kind # "peer_conn" /\ events' = Append(events, e)
  PROVE  CountInv'
<1>1. count \in Int /\ events \in Seq(Events)
  BY DEF TypeOK, RxOK, QueueOK
<1>2. CASE events' = events
  BY <1>2 DEF CountInv, NeverBelow
<1>3. ASSUME NEW e \in Events, e.kind # "peer_conn", events' = Append(events, e), ~overdrawn
      PROVE  NeverBelow(count, events')
  BY <1>1, <1>3, PeerEventsDiffer, NeverBelowAppend DEF CountInv
<1>4. ASSUME ~overdrawn, events' # events PROVE bleNet >= 0 /\ NeverBelow(count, events')
  BY <1>3, <1>4 DEF CountInv
<1>5. CASE events' # events
  BY <1>4, <1>5 DEF CountInv
<1>6. QED
  BY <1>2, <1>5

(* Every step keeps the invariant. *)
LEMMA CountStep == TypeOK /\ SubscribersAccounted /\ CountInv /\ [Next]_vars => CountInv'
<1> SUFFICES ASSUME TypeOK, SubscribersAccounted, CountInv, [Next]_vars PROVE CountInv'
  OBVIOUS
<1>1. /\ count \in Int /\ bleNet \in Int /\ events \in Seq(Events) /\ BalanceOf(events) \in Int
  BY BalanceStep DEF TypeOK, RxOK, PeersOK, QueueOK
<1>2. count + BalanceOf(events) = (IF cdcReady THEN 1 ELSE 0) + bleNet
  BY DEF SubscribersAccounted, Balance
<1>3. CASE RxReady \/ RxBufferFull
  <2>1. rx.buf \in Blocks
    BY <1>3 DEF RxReady, RxBufferFull, TypeOK, RxOK, Receiver
  <2>2. events' = Append(events, DataEvent(rx.buf)) /\ UNCHANGED <<count, bleNet, overdrawn>>
    BY <1>3 DEF RxReady, RxBufferFull, ghosts
  <2>3. QED
    BY <2>1, <2>2, EventsTyped, EventsDiffer, CountAfterOther
<1>4. CASE RxStopped
  <2>1. PICK flushed \in BOOLEAN :
          /\ flushed => rx.buf # None
          /\ events' = IF flushed THEN Append(events, DataEvent(rx.buf)) ELSE events
    BY <1>4 DEF RxStopped
  <2>2. UNCHANGED <<count, bleNet, overdrawn>>
    BY <1>4 DEF RxStopped, ghosts
  <2>3. flushed => rx.buf \in Blocks
    BY <2>1 DEF TypeOK, RxOK, Receiver
  <2>4. QED
    BY <2>1, <2>2, <2>3, EventsTyped, EventsDiffer, CountAfterOther
<1>5. CASE PollDtr
  <2>1. /\ PeerEvent(line) \in Events /\ events' = Append(events, PeerEvent(line))
        /\ UNCHANGED <<count, bleNet, overdrawn>> /\ line # cdcReady
    BY <1>5, EventsTyped DEF PollDtr, ghosts, TypeOK, PeersOK
  <2>2. PeerEvent(line) = Gone => cdcReady
    <3>1. line \in BOOLEAN /\ cdcReady \in BOOLEAN
      BY DEF TypeOK, PeersOK
    <3>2. line = TRUE => PeerEvent(line) = Joined
      BY DEF Joined
    <3>3. QED
      BY <2>1, <3>1, <3>2, PeerEventsDiffer
  <2>3. ASSUME ~overdrawn PROVE NeverBelow(count, events')
    <3>1. bleNet >= 0 /\ NeverBelow(count, events)
      BY <2>3 DEF CountInv
    <3>2. PeerEvent(line) = Gone => count + BalanceOf(events) >= 1
      BY <1>1, <1>2, <2>2, <3>1
    <3>3. QED
      BY <1>1, <2>1, <3>1, <3>2, NeverBelowAppend
  <2>4. QED
    BY <2>1, <2>3 DEF CountInv
<1>6. ASSUME NEW on \in BleWrites, BleCcc(on) PROVE CountInv'
  <2>1. /\ on \in BOOLEAN /\ PeerEvent(on) \in Events /\ events' = Append(events, PeerEvent(on))
        /\ count' = count /\ bleNet' = (IF on THEN bleNet + 1 ELSE bleNet - 1)
    BY <1>6, EventsTyped, UartAssumption DEF BleCcc, UartAssumption
  <2>2. ~overdrawn' => ~overdrawn /\ ~(bleNet' < 0)
    BY <1>6 DEF BleCcc
  <2>3. bleNet' \in Int
    BY <1>1, <2>1
  <2>4. PeerEvent(on) = Gone => on = FALSE
    <3>1. on = TRUE => PeerEvent(on) = Joined
      BY DEF Joined
    <3>2. QED
      BY <2>1, <3>1, PeerEventsDiffer
  <2>5. ASSUME ~overdrawn' PROVE bleNet' >= 0 /\ NeverBelow(count', events')
    <3>1. NeverBelow(count, events) /\ bleNet' >= 0
      BY <2>2, <2>3, <2>5 DEF CountInv
    <3>2. on = FALSE => bleNet = bleNet' + 1
      BY <1>1, <2>1
    <3>3. PeerEvent(on) = Gone => count + BalanceOf(events) >= 1
      BY <1>1, <1>2, <2>3, <2>4, <3>1, <3>2
    <3>4. QED
      BY <1>1, <2>1, <3>1, <3>3, NeverBelowAppend
  <2>6. QED
    BY <2>5 DEF CountInv
<1>7. ASSUME NEW n \in TxLens, CdcReceive(n) PROVE CountInv'
  <2> DEFINE polled == IF ~cdcReady /\ line THEN <<PeerEvent(TRUE)>> ELSE <<>>
             data == IF cdcFree > 0 THEN <<TxEvent("cdc_data", n)>> ELSE <<>>
             mid == events \o polled
  <2>1. events' = events \o polled \o data /\ UNCHANGED <<count, bleNet, overdrawn>>
    BY <1>7 DEF CdcReceive, ghosts
  <2>2. Joined \in Events /\ TxEvent("cdc_data", n) \in Events
    <3>1. TxEvent("cdc_data", n) \in TxEvents
      BY DEF TxEvents
    <3>2. QED
      BY <3>1, EventsTyped DEF Joined
  <2>3. mid \in Seq(Events) /\ (mid = events \/ mid = Append(events, Joined))
    <3>1. CASE ~cdcReady /\ line
      <4>1. polled = <<Joined>>
        BY <3>1 DEF Joined
      <4> HIDE DEF polled
      <4>2. mid = Append(events, Joined)
        BY <1>1, <2>2, <4>1
      <4> HIDE DEF mid
      <4>3. QED
        BY <1>1, <2>2, <4>2
    <3>2. CASE ~(~cdcReady /\ line)
      <4>1. polled = <<>>
        BY <3>2
      <4> HIDE DEF polled
      <4>2. mid = events
        BY <1>1, <4>1
      <4>3. QED
        BY <1>1, <4>2
    <3>3. QED
      BY <3>1, <3>2
  <2> HIDE DEF mid
  <2>4. events' = mid \/ events' = Append(mid, TxEvent("cdc_data", n))
    <3>1. events' = mid \o data
      BY <2>1 DEF mid
    <3>2. CASE cdcFree > 0
      BY <2>2, <2>3, <3>1, <3>2
    <3>3. CASE ~(cdcFree > 0)
      BY <2>3, <3>1, <3>3
    <3>4. QED
      BY <3>2, <3>3
  <2>5. ASSUME ~overdrawn PROVE NeverBelow(count, events')
    <3>1. NeverBelow(count, events)
      BY <2>5 DEF CountInv
    <3>2. NeverBelow(count, mid)
      BY <1>1, <2>2, <2>3, <3>1, NeverBelowAppend, PeerEventsDiffer
    <3>3. TxEvent("cdc_data", n) # Gone
      BY EventsDiffer, PeerEventsDiffer
    <3>4. QED
      BY <1>1, <2>2, <2>3, <2>4, <3>2, <3>3, NeverBelowAppend
  <2>6. QED
    BY <2>1, <2>5 DEF CountInv
<1>8. ASSUME NEW n \in TxLens, BleReceive(n) PROVE CountInv'
  <2>1. TxEvent("ble_data", n) \in TxEvents
    BY DEF TxEvents
  <2>2. TxEvent("ble_data", n) \in Events /\ events' = Append(events, TxEvent("ble_data", n))
    BY <1>8, <2>1, EventsTyped DEF BleReceive
  <2>3. UNCHANGED <<count, bleNet, overdrawn>>
    BY <1>8 DEF BleReceive, ghosts
  <2>4. QED
    BY <2>2, <2>3, EventsDiffer, CountAfterOther
<1>9. CASE HandleData \/ TxPut \/ HandlePeer
  <2> DEFINE e == Head(events)
  <2>1. /\ events # <<>> /\ events' = Tail(events) /\ UNCHANGED <<bleNet, overdrawn>>
        /\ e \in Events
    BY <1>9, EventsTyped DEF HandleData, TxPut, HandlePeer, Takes, ghosts
  <2>2. count' = count + Weight(e)
    <3>1. CASE HandleData \/ TxPut
      <4>1. e.kind # "peer_conn" /\ count' = count
        BY <3>1 DEF HandleData, TxPut, Takes
      <4>2. QED
        BY <1>1, <4>1, PeerEventsDiffer DEF Weight
    <3>2. CASE HandlePeer
      <4>1. e.kind = "peer_conn" /\ count' = (IF e.on THEN count + 1 ELSE count - 1)
        BY <3>2 DEF HandlePeer, Takes
      <4>2. e.on \in BOOLEAN /\ e = PeerEvent(e.on)
        BY <2>1, <4>1, EventKinds
      <4>3. CASE e.on = TRUE
        <5>1. Weight(e) = 1
          BY <4>2, <4>3 DEF Weight, Joined
        <5>2. QED
          BY <4>1, <4>3, <5>1
      <4>4. CASE e.on = FALSE
        <5>1. Weight(e) = -1
          BY <4>2, <4>4, PeerEventsDiffer DEF Weight, Gone
        <5>2. QED
          BY <1>1, <4>1, <4>4, <5>1
      <4>5. QED
        BY <4>2, <4>3, <4>4
    <3>3. QED
      BY <1>9, <3>1, <3>2
  <2>3. ASSUME ~overdrawn PROVE NeverBelow(count', events')
    <3>1. NeverBelow(count, events)
      BY <2>3 DEF CountInv
    <3>2. QED
      BY <1>1, <2>1, <2>2, <3>1, NeverBelowTail
  <2>4. QED
    BY <2>1, <2>3 DEF CountInv
<1>10. CASE \/ RxBufRequest \/ RxError \/ TxDone \/ TxStart
            \/ (\E on \in BOOLEAN : SetLine(on)) \/ UNCHANGED vars
  <2>1. UNCHANGED <<events, count, bleNet, overdrawn>>
    BY <1>10 DEF RxBufRequest, RxError, TxDone, TxStart, SetLine, vars, ghosts
  <2>2. QED
    BY <2>1, CountAfterOther
<1>11. QED
  BY <1>3, <1>4, <1>5, <1>6, <1>7, <1>8, <1>9, <1>10
     DEF Next, Driver, UsbAndBle, Workqueue

(* The invariant gives the assertion, and that an open port is counted. *)
LEMMA CountFromInv ==
  TypeOK /\ SubscribersAccounted /\ CountInv => CountNeverBelowPort
<1> SUFFICES ASSUME TypeOK, SubscribersAccounted, CountInv, ~overdrawn
             PROVE  /\ count >= 0
                    /\ cdcReady /\ (\A i \in DOMAIN events : events[i] \notin PeerEvents)
                         => count > 0
  BY DEF CountNeverBelowPort
<1>1. count \in Int /\ bleNet \in Int /\ events \in Seq(Events) /\ bleNet >= 0
  BY DEF TypeOK, RxOK, PeersOK, QueueOK, CountInv
<1>2. count >= 0
  <2>1. 0 \in 0 .. Len(events) /\ SubSeq(events, 1, 0) = <<>>
    BY <1>1
  <2>2. BalanceOf(<<>>) = 0
    BY CountEmpty DEF BalanceOf
  <2>3. count + BalanceOf(SubSeq(events, 1, 0)) >= 0
    BY <2>1 DEF CountInv, NeverBelow
  <2>4. BalanceOf(SubSeq(events, 1, 0)) = 0
    BY <2>1, <2>2
  <2>5. QED
    BY <1>1, <2>3, <2>4
<1>3. ASSUME cdcReady, \A i \in DOMAIN events : events[i] \notin PeerEvents
      PROVE  count > 0
  <2>1. \A e \in {Joined, Gone} : e \in PeerEvents
    BY DEF Joined, Gone, PeerEvents
  <2>2. \A e \in {Joined, Gone} : {i \in DOMAIN events : events[i] \in {e}} = {}
    BY <1>3, <2>1
  <2>3. CountIn(events, {Joined}) = 0 /\ CountIn(events, {Gone}) = 0
    BY <2>2, FS_EmptySet DEF CountIn
  <2>4. Balance = 0
    BY <2>3 DEF Balance, BalanceOf
  <2>5. count + Balance = 1 + bleNet
    BY <1>3 DEF SubscribersAccounted
  <2>6. QED
    BY <1>1, <2>4, <2>5
<1>4. QED
  BY <1>2, <1>3

(***************************************************************************)
(* The assertion of uart_handler.c:446 holds, and an open port is counted, *)
(* for every schedule of polls, data and writes, every number of waiting   *)
(* events and every length of the queue, while BLE has not disabled more   *)
(* than it had enabled.                                                    *)
(***************************************************************************)
THEOREM CountCorrect == Spec => []CountNeverBelowPort
<1>1. TypeOK /\ TypeOK' /\ SubscribersAccounted /\ SubscribersAccounted'
        /\ CountInv /\ [Next]_vars => CountInv'
  BY CountStep
<1>2. QED
  BY <1>1, CountInit, CountFromInv, TypeCorrect, SubscribersBalance, PTL DEF Spec

=============================================================================
