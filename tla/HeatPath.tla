------------------------------ MODULE HeatPath ------------------------------
(***************************************************************************)
(* The link between the two microcontrollers of the Thingy:91.             *)
(*                                                                         *)
(* On the nRF52840 commCtrl_module.c routes heat maps of the sensor and    *)
(* errors; on the nRF9160 heat maps go to the analysis and the button      *)
(* starts.  Each side runs modules/mcu_exchange/mcu_exchange.c, which      *)
(* writes an event as text on a UART, ended by a zero byte, and turns what *)
(* arrives into an event again.                                            *)
(*                                                                         *)
(* The two start, and restart, on their own: one may send while the other  *)
(* does not listen yet, or stop in the middle of a message.                *)
(*                                                                         *)
(* Not here: the copy of a heat map for BLE (Submit of BtModule), interval *)
(* settings, which commCtrl_module.c only forwards, and bytes the UART     *)
(* itself loses or changes.                                                *)
(***************************************************************************)
EXTENDS Queues, Integers

CONSTANTS
  NoMsg,        (* no message                                              *)
  QueueLen,     (* of the queues: MCU_EXCHANGE_, COMMCTRL_QUEUE_ENTRY_COUNT *)
  Size,         (* of a message on the line, in pieces, by its kind        *)
  BufLen,       (* CONFIG_MCU_EXCHANGE_UART_BUF_SIZE, in the same pieces   *)
  MaxFrames,    (* bound: heat maps taken                                  *)
  Budgets       (* bound: how many inputs of each kind go together         *)

VARIABLES
  evq,          (* per side: the queue of the event manager                *)
  worker,       (* per side: the workqueue, an event and its listeners     *)
  msgq,         (* per side: msgq_commCtrl and msgq_mcu_exchange           *)
  ready,        (* state of the commCtrl module: STATE_READY               *)
  mcu,          (* per side: the message on its way out, and the next piece *)
  listening,    (* per side: the receive interrupt is enabled              *)
  buf,          (* per side: uart_buf up to buf_pos                        *)
  up,           (* per side: not stopped by a fault                        *)
  copies,       (* per side: payload copies allocated and not freed        *)
  got,          (* ghost: the heat maps the analysis was given, in order   *)
  toggled,      (* ghost: toggles of the advertising                       *)
  disturbed,    (* ghost: a restart, or a piece nobody listened to         *)
  unsent,       (* ghost: heat maps there was no memory for as text        *)
  used          (* bounded inputs so far                                   *)

vars == <<evq, worker, msgq, ready, mcu, listening, buf, up, copies, got,
          toggled, disturbed, unsent, used>>
line == <<mcu, listening, buf, up, disturbed, unsent>>
seen == <<got, toggled>>

Sides == {"nrf52", "nrf91"}
Peer(n) == IF n = "nrf52" THEN "nrf91" ELSE "nrf52"
Modules == {"comm", "mcu"}
Wire == {"MAP", "BUTTON", "ERROR"}
Inputs == {"frames", "troubles", "presses", "restarts"}

ASSUME HeatAssumption ==
  /\ QueueLen \in [Modules -> Nat \ {0}]
  /\ BufLen \in Nat
  /\ Size \in [Wire -> 1 .. BufLen - 1]
  /\ MaxFrames \in Nat
  /\ Budgets \subseteq [Inputs -> Nat]
  /\ \A b \in Budgets : b["frames"] <= MaxFrames

-----------------------------------------------------------------------------
(* Events *)

Ready == [kind |-> "READY"]

(* A heat map of the sensor; SENSORS_EVT_ERROR or BT_EVT_ERROR.            *)
Frame(k) == [kind |-> "FRAME", num |-> k]
Trouble == [kind |-> "TROUBLE"]
Toggle == [kind |-> "TOGGLE"]

(* mcu_exchange_module_event: MCU_EXCHANGE_EVT_READY, _DATA_READY with the *)
(* bytes that came in, and those that are messages on the line.            *)
Up == [kind |-> "UP"]
Data(b) == [kind |-> "DATA", bytes |-> b]
Mcu(kind, k, received) == [kind |-> kind, num |-> k, received |-> received]
Error == Mcu("ERROR", 0, FALSE)

(* What is sent of an event: its type and its data, not received. *)
Message(m) == [kind |-> m.kind, num |-> m.num]

(***************************************************************************)
(* EVENT_SUBSCRIBE of the modules with a queue.  On the nRF9160 the        *)
(* analysis module, with a queue of its own, and control.c listen too.     *)
(***************************************************************************)
Listeners(n, m) ==
  IF m.kind \in {"FRAME", "TROUBLE", "TOGGLE"} \/ n = "nrf91"
  THEN {IF n = "nrf91" THEN "mcu" ELSE "comm"}
  ELSE Modules

(* The messages the listener of a module copies the payload of. *)
Copied(q) ==
  IF q = "comm" THEN {"FRAME"} ELSE Wire \union {"UP", "DATA"}

CopyOf(q, m) == IF m.kind \in Copied(q) THEN 1 ELSE 0

-----------------------------------------------------------------------------
(* The inputs *)

Use(input) ==
  /\ used' = [used EXCEPT ![input] = @ + 1]
  /\ \E b \in Budgets : \A i \in Inputs : used'[i] <= b[i]

Submit(n, m) == evq' = [evq EXCEPT ![n] = Append(@, m)]

(* notify_heatMap_cb(): a heat map has been read, or could not be. *)
Sense ==
  /\ up["nrf52"]
  /\ \/ /\ Use("frames")
        /\ Submit("nrf52", Frame(used["frames"] + 1))
     \/ /\ Use("troubles")
        /\ Submit("nrf52", Trouble)
  /\ UNCHANGED <<worker, msgq, ready, line, copies, seen>>

(***************************************************************************)
(* The button of the nRF9160, or bright light.  The event is allocated and *)
(* "received" is not set: it is what was in the memory.                    *)
(***************************************************************************)
Press ==
  /\ up["nrf91"]
  /\ Use("presses")
  /\ \E received \in BOOLEAN : Submit("nrf91", Mcu("BUTTON", 0, received))
  /\ UNCHANGED <<worker, msgq, ready, line, copies, seen>>

-----------------------------------------------------------------------------
(* The workqueues *)

IdleWorker == [msg |-> NoMsg, to |-> {}]

(* The event reaches the analysis module of the nRF9160. *)
Analyse(n, m) ==
  got' = IF n = "nrf91" /\ m.kind = "MAP" THEN Append(got, m.num) ELSE got

(* The next event; TOGGLE reaches the BLE module first. *)
HandleEvent(n) ==
  /\ up[n]
  /\ worker[n] = IdleWorker
  /\ evq[n] # <<>>
  /\ LET m == Head(evq[n])
     IN  /\ worker' = [worker EXCEPT ![n] = [msg |-> m, to |-> Listeners(n, m)]]
         /\ Analyse(n, m)
         /\ toggled' = toggled + (IF m = Toggle THEN 1 ELSE 0)
  /\ evq' = [evq EXCEPT ![n] = Tail(@)]
  /\ UNCHANGED <<msgq, ready, line, copies, used>>

(***************************************************************************)
(* event_handler() of a module: the payload is copied and the message put, *)
(* which waits for room (K_FOREVER) and keeps the other listener waiting.  *)
(***************************************************************************)
Put(n, q) ==
  /\ up[n]
  /\ q \in worker[n].to
  /\ Len(msgq[n][q]) < QueueLen[q]
  /\ msgq' = [msgq EXCEPT ![n][q] = Append(@, worker[n].msg)]
  /\ worker' = [worker EXCEPT ![n] =
                  IF @.to = {q} THEN IdleWorker ELSE [msg |-> @.msg, to |-> @.to \ {q}]]
  /\ copies' = [copies EXCEPT ![n] = @ + CopyOf(q, worker[n].msg)]
  /\ UNCHANGED <<evq, ready, line, seen, used>>

-----------------------------------------------------------------------------
(* The commCtrl module *)

(* on_ready_state(): memory for the converted heat map may be missing. *)
Route(m) ==
  CASE m.kind = "FRAME" /\ ready  ->
         Submit("nrf52", Mcu("MAP", m.num, FALSE)) \/ UNCHANGED evq
    [] m.kind = "BUTTON" /\ ready -> Submit("nrf52", Toggle)
    [] m.kind = "TROUBLE"         -> Submit("nrf52", Error)
    [] OTHER                      -> UNCHANGED evq

(***************************************************************************)
(* The module thread with a message: on_state_init(), after a second of    *)
(* sleep in which the queue may fill, or on_ready_state(); then            *)
(* on_all_states(), which sends errors in either state and frees the copy. *)
(***************************************************************************)
Comm ==
  /\ up["nrf52"]
  /\ msgq["nrf52"]["comm"] # <<>>
  /\ LET m == Head(msgq["nrf52"]["comm"])
     IN  /\ Route(m)
         /\ ready' = (ready \/ m = Ready)
         /\ copies' = [copies EXCEPT !["nrf52"] = @ - CopyOf("comm", m)]
  /\ msgq' = [msgq EXCEPT !["nrf52"]["comm"] = Tail(@)]
  /\ UNCHANGED <<worker, line, seen, used>>

-----------------------------------------------------------------------------
(* The mcu_exchange module: its thread *)

NotSending == [msg |-> NoMsg, piece |-> 0]

(* my_free() of the copy at the end of handle_msg(). *)
Free(n, m) == copies' = [copies EXCEPT ![n] = @ - CopyOf("mcu", m)]

(* READY of main: init() waits for the line to be valid, but not for ever. *)
InitLine(n, m) ==
  /\ m = Ready
  /\ \/ /\ listening' = [listening EXCEPT ![n] = TRUE]
        /\ Submit(n, Up)
     \/ /\ UNCHANGED listening
        /\ Submit(n, Error)
  /\ UNCHANGED <<mcu, up, copies, unsent>>

(* Mutant of ToSend: a message that was received is sent as well. *)
ToSendAll(m) == m.kind \in Wire

(* send_message() returns at once when the message was received. *)
ToSend(m) == m.kind \in Wire /\ ~m.received

StartSend(n, m) ==
  /\ ToSend(m)
  /\ mcu' = [mcu EXCEPT ![n] = [msg |-> m, piece |-> 1]]
  /\ UNCHANGED <<evq, listening, up, copies, unsent>>

(* encode_message() finds no memory for the text: nothing is sent. *)
EncodeFails(n, m) ==
  /\ ToSend(m)
  /\ unsent' = IF m.kind = "MAP" THEN unsent \union {m.num} ELSE unsent
  /\ Free(n, m)
  /\ UNCHANGED <<evq, mcu, listening, up>>

(***************************************************************************)
(* What cJSON makes of the bytes: a message when they begin with all of    *)
(* one, whatever follows it; nothing otherwise.                            *)
(***************************************************************************)
Parses(b) ==
  /\ b # <<>>
  /\ LET m == b[1][1]
     IN  /\ Len(b) >= Size[m.kind]
         /\ \A i \in 1 .. Size[m.kind] : b[i] = <<m, i>>

(* Mutant of Received: the type of the message is not looked at. *)
ReceivedOf(m) == Mcu("MAP", m.num, TRUE)

(* handle_message(): the event made of a message. *)
Received(m) == Mcu(m.kind, m.num, TRUE)

(***************************************************************************)
(* handle_message().  parse_message() does not ask whether there was a     *)
(* message: the fields of nothing are read, which is a fault, or else      *)
(* their values are of no known type.                                      *)
(***************************************************************************)
HandleData(n, m) ==
  /\ m.kind = "DATA"
  /\ \/ /\ Parses(m.bytes)
        /\ Submit(n, Received(m.bytes[1][1]))
        /\ UNCHANGED <<up, listening>>
     \/ /\ ~Parses(m.bytes)
        /\ Submit(n, [Error EXCEPT !.received = TRUE])
        /\ UNCHANGED <<up, listening>>
     \/ /\ ~Parses(m.bytes)
        /\ up' = [up EXCEPT ![n] = FALSE]
        /\ listening' = [listening EXCEPT ![n] = FALSE]
        /\ UNCHANGED evq
  /\ Free(n, m)
  /\ UNCHANGED <<mcu, unsent>>

(* Mutant of Ignore: it returns before the copy is freed. *)
IgnoreKeeps(n, m) ==
  /\ m # Ready /\ m.kind # "DATA" /\ ~ToSend(m)
  /\ UNCHANGED <<evq, mcu, listening, up, copies, unsent>>

(* handle_msg() of any other message only frees the copy. *)
Ignore(n, m) ==
  /\ m # Ready /\ m.kind # "DATA" /\ ~ToSend(m)
  /\ Free(n, m)
  /\ UNCHANGED <<evq, mcu, listening, up, unsent>>

(* module_get_next_msg() and handle_msg(), when nothing is being sent. *)
GetMessage(n) ==
  /\ up[n]
  /\ mcu[n] = NotSending
  /\ msgq[n]["mcu"] # <<>>
  /\ LET m == Head(msgq[n]["mcu"])
     IN  \/ InitLine(n, m) \/ HandleData(n, m)
         \/ StartSend(n, m) \/ EncodeFails(n, m) \/ Ignore(n, m)
  /\ msgq' = [msgq EXCEPT ![n]["mcu"] = Tail(@)]
  /\ UNCHANGED <<worker, ready, buf, disturbed, seen, used>>

-----------------------------------------------------------------------------
(* The mcu_exchange module: the line *)

Zero == <<NoMsg, 0>>

(* The pieces of a message, and the zero byte behind them. *)
PieceOf(m, i) == IF i <= Size[m.kind] THEN <<Message(m), i>> ELSE Zero

(* The buffer with one more byte, of which less than "room" is filled. *)
Filled(b, p, room) == IF Len(b) + 1 < room THEN Append(b, p) ELSE <<>>

(* MCU_EXCHANGE_EVT_DATA_READY with what is in the buffer, if anything. *)
Process(n) == IF buf[n] = <<>> THEN UNCHANGED evq ELSE Submit(n, Data(buf[n]))

(* Mutant of Receive: buf_pos is not reset after a message. *)
ReceiveOnto(n, p) ==
  IF p # Zero
  THEN buf' = [buf EXCEPT ![n] = Filled(@, p, BufLen)] /\ UNCHANGED evq
  ELSE Process(n) /\ UNCHANGED buf

(* Mutant of Receive: the buffer is discarded a byte too early. *)
ReceiveEarly(n, p) ==
  IF p # Zero
  THEN buf' = [buf EXCEPT ![n] = Filled(@, p, BufLen - 1)] /\ UNCHANGED evq
  ELSE Process(n) /\ buf' = [buf EXCEPT ![n] = <<>>]

(***************************************************************************)
(* uart_rx_handler(): the byte is put at buf_pos; a zero byte ends the     *)
(* message, if there is one; and a buffer that is full is discarded, so    *)
(* that the rest of the message begins the next.                           *)
(***************************************************************************)
Receive(n, p) ==
  IF p # Zero
  THEN buf' = [buf EXCEPT ![n] = Filled(@, p, BufLen)] /\ UNCHANGED evq
  ELSE Process(n) /\ buf' = [buf EXCEPT ![n] = <<>>]

(* uart_poll_out() of a piece, and the interrupt of the other side. *)
SendPiece(n) ==
  /\ up[n]
  /\ mcu[n] # NotSending
  /\ LET m == mcu[n].msg
         i == mcu[n].piece
     IN  /\ IF listening[Peer(n)]
            THEN Receive(Peer(n), PieceOf(m, i)) /\ UNCHANGED disturbed
            ELSE disturbed' = TRUE /\ UNCHANGED <<buf, evq>>
         /\ IF i <= Size[m.kind]
            THEN mcu' = [mcu EXCEPT ![n].piece = @ + 1] /\ UNCHANGED copies
            ELSE mcu' = [mcu EXCEPT ![n] = NotSending] /\ Free(n, m)
  /\ UNCHANGED <<worker, msgq, ready, listening, up, unsent, seen, used>>

-----------------------------------------------------------------------------
(* Specification *)

NoQueues == [q \in Modules |-> <<>>]

Init ==
  /\ evq = [n \in Sides |-> <<Ready>>]
  /\ worker = [n \in Sides |-> IdleWorker]
  /\ msgq = [n \in Sides |-> NoQueues]
  /\ ready = FALSE
  /\ mcu = [n \in Sides |-> NotSending]
  /\ listening = [n \in Sides |-> FALSE]
  /\ buf = [n \in Sides |-> <<>>]
  /\ up = [n \in Sides |-> TRUE]
  /\ copies = [n \in Sides |-> 0]
  /\ got = <<>> /\ toggled = 0 /\ disturbed = FALSE /\ unsent = {}
  /\ used = [i \in Inputs |-> 0]

(* A microcontroller starts again: all of the above of it is lost. *)
Restart(n) ==
  /\ Use("restarts")
  /\ evq' = [evq EXCEPT ![n] = <<Ready>>]
  /\ worker' = [worker EXCEPT ![n] = IdleWorker]
  /\ msgq' = [msgq EXCEPT ![n] = NoQueues]
  /\ ready' = (ready /\ n # "nrf52")
  /\ mcu' = [mcu EXCEPT ![n] = NotSending]
  /\ listening' = [listening EXCEPT ![n] = FALSE]
  /\ buf' = [buf EXCEPT ![n] = <<>>]
  /\ up' = [up EXCEPT ![n] = TRUE]
  /\ copies' = [copies EXCEPT ![n] = 0]
  /\ disturbed' = TRUE
  /\ UNCHANGED <<unsent, seen>>

Workqueue(n) == HandleEvent(n) \/ \E q \in Modules : Put(n, q)

McuThread(n) == GetMessage(n) \/ SendPiece(n)

Next ==
  \/ Sense \/ Press
  \/ Comm
  \/ \E n \in Sides : Workqueue(n) \/ McuThread(n) \/ Restart(n)

Spec == Init /\ [][Next]_vars

(* Ready threads run; nobody has to press, and nothing has to fail. *)
FairSpec ==
  /\ Spec
  /\ WF_vars(Comm)
  /\ \A n \in Sides : WF_vars(Workqueue(n)) /\ WF_vars(McuThread(n))

-----------------------------------------------------------------------------
(* Properties *)

Messages == [kind : Wire, num : 0 .. MaxFrames]

Pieces == {<<m, i>> : m \in Messages, i \in 1 .. BufLen - 1}

Events ==
  {Ready, Up, Trouble, Toggle}
    \union {Frame(k) : k \in 1 .. MaxFrames}
    \union [kind : Wire, num : 0 .. MaxFrames, received : BOOLEAN]
    \union [kind : {"DATA"}, bytes : Seq(Pieces)]

ASSUME NoMsgAssumption == NoMsg \notin Events

(* The types of the variables, and where a message on its way out is. *)
TypeOK ==
  /\ evq \in [Sides -> Seq(Events)]
  /\ worker \in [Sides -> [msg : Events \union {NoMsg}, to : SUBSET Modules]]
  /\ \A n \in Sides :
       /\ worker[n].msg = NoMsg <=> worker[n].to = {}
       /\ worker[n].msg # NoMsg => worker[n].to \subseteq Listeners(n, worker[n].msg)
  /\ msgq \in [Sides -> [Modules -> Seq(Events)]]
  /\ \A n \in Sides, q \in Modules : Len(msgq[n][q]) <= QueueLen[q]
  /\ ready \in BOOLEAN
  /\ mcu \in [Sides -> [msg : Events \union {NoMsg}, piece : 0 .. BufLen]]
  /\ \A n \in Sides :
       \/ mcu[n] = NotSending
       \/ mcu[n].msg # NoMsg /\ ToSend(mcu[n].msg)
          /\ mcu[n].piece \in 1 .. Size[mcu[n].msg.kind] + 1
  /\ listening \in [Sides -> BOOLEAN] /\ up \in [Sides -> BOOLEAN]
  /\ buf \in [Sides -> Seq(Pieces)]
  /\ \A n \in Sides : Len(buf[n]) < BufLen
  /\ copies \in [Sides -> Int]
  /\ got \in Seq(0 .. MaxFrames) /\ toggled \in Nat /\ disturbed \in BOOLEAN
  /\ unsent \subseteq 0 .. MaxFrames
  /\ used \in [Inputs -> Nat]
  /\ used["frames"] <= MaxFrames

(***************************************************************************)
(* Every copy of a payload is in one queue or in the hands of the thread,  *)
(* on each side: it is freed once, sent or not, known or not.              *)
(***************************************************************************)
HeapAccounted ==
  \A n \in Sides : up[n] =>
    copies[n] =
      Cardinality({i \in DOMAIN msgq[n]["comm"] : msgq[n]["comm"][i].kind \in Copied("comm")})
      + Cardinality({i \in DOMAIN msgq[n]["mcu"] : msgq[n]["mcu"][i].kind \in Copied("mcu")})
      + (IF mcu[n] = NotSending THEN 0 ELSE 1)

(***************************************************************************)
(* The analysis is given heat maps the sensor took, each once and in their *)
(* order, whatever is cut, glued together or thrown away on the line.      *)
(***************************************************************************)
MapsOnceInOrder ==
  /\ \A i \in DOMAIN got : got[i] \in 1 .. used["frames"]
  /\ \A i, j \in DOMAIN got : i < j => got[i] < got[j]

(* Advertising is toggled by a press of the button, once for each. *)
ToggledByPresses == toggled <= used["presses"]

(***************************************************************************)
(* parse_message() meets text it cannot parse, and reads the fields of     *)
(* nothing, only after a restart or a message nobody listened to: a tail,  *)
(* or a head with the next message behind it.                              *)
(***************************************************************************)
FaultOnlyAfterCut == disturbed \/ \A n \in Sides : up[n]

(***************************************************************************)
(* Undisturbed, the receive buffer has exactly what the other side has     *)
(* sent of its message: messages never meet in the buffer, nor fill it.    *)
(***************************************************************************)
InStep ==
  disturbed \/
    \A n \in Sides :
      IF mcu[n] = NotSending THEN buf[Peer(n)] = <<>>
      ELSE /\ Len(buf[Peer(n)]) = mcu[n].piece - 1
           /\ \A i \in DOMAIN buf[Peer(n)] : buf[Peer(n)][i] = PieceOf(mcu[n].msg, i)

(* Heat map k is on its way out of the nRF52840. *)
Leaving(k) ==
  Mcu("MAP", k, FALSE) \in
    {evq["nrf52"][i] : i \in DOMAIN evq["nrf52"]}
    \union {msgq["nrf52"]["mcu"][i] : i \in DOMAIN msgq["nrf52"]["mcu"]}
    \union {worker["nrf52"].msg, mcu["nrf52"].msg}

(***************************************************************************)
(* A heat map that commCtrl_module.c submits reaches the analysis, unless  *)
(* the link is disturbed or no memory was found for its own text: neither  *)
(* queues that fill on both sides nor the failure of another stop it.      *)
(***************************************************************************)
MapArrives ==
  \A k \in 1 .. MaxFrames :
    Leaving(k) ~> (disturbed \/ k \in unsent \/ \E i \in DOMAIN got : got[i] = k)

=============================================================================
