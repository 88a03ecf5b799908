------------------------------ MODULE BtModule ------------------------------
(***************************************************************************)
(* The BLE module of the nRF52840, src/modules/bt/bt_module.c.             *)
(*                                                                         *)
(* Three threads share its variables without a lock:                       *)
(*   - the BT RX thread runs the connection and ATT callbacks;             *)
(*   - the system workqueue runs the event listener (which blocks when the *)
(*     module's message queue is full), bt_ready() and advertise();        *)
(*   - the module thread takes messages and acts on them by `state`.       *)
(* BT RX and the workqueue are cooperative: a callback is one step unless  *)
(* it blocks.  The module thread is preempted between any two steps.       *)
(***************************************************************************)
EXTENDS SerialChunk, Queues, Integers

CONSTANTS
  Peers,       (* the BLE centrals                                         *)
  None,        (* no connection (NULL), no message                         *)
  MaxConn,     (* CONFIG_BT_MAX_CONN, the entries of conns[]               *)
  QueueLen,    (* BT_QUEUE_ENTRY_COUNT                                     *)
  CntMod,      (* conn_cnt wraps modulo this (2^8)                         *)
  AttMtus,     (* the ATT MTUs a peer may negotiate                        *)
  Size,        (* the bytes of a data message, by type                     *)
  Inputs,      (* the events other modules submit to this one              *)
  MaxEvents    (* bound: events waiting in the event manager               *)

DataTypes == {"HEAT", "UART"}
EventTypes == DataTypes \union {"START", "TOGGLE", "ERROR", "READY"}

ASSUME BtAssumption ==
  /\ MaxConn \in Nat \ {0}
  /\ QueueLen \in Nat \ {0}
  /\ CntMod \in Nat \ {0}
  /\ AttMtus \subseteq {n \in Nat : n >= 23}
  /\ Size \in [DataTypes -> Nat \ {0}]
  /\ Inputs \subseteq EventTypes
  /\ MaxEvents \in Nat \ {0}
  /\ None \notin Peers /\ None \notin EventTypes

VARIABLES
  state,       (* static enum state_type state                             *)
  conns,       (* conns[]: connection, usable MTU, bridge notifications    *)
  connCnt,     (* conn_cnt                                                 *)
  linked,      (* the peers the host stack is connected to                 *)
  exchanging,  (* the peers whose MTU exchange is under way                *)
  advOn,       (* the host stack advertises, or resumes when it has room   *)
  advPending,  (* advertise_work is submitted                              *)
  readyPending,(* bt_enable() has been called, bt_ready() is to come       *)
  evq,         (* the event manager's queue, this module's events only     *)
  worker,      (* the system workqueue: idle, blocked in k_msgq_put() with *)
               (* a message, or in advertise() after bt_le_adv_start()     *)
  msgq,        (* msgq_bt                                                  *)
  thread,      (* the module thread: where it is and its locals            *)
  live,        (* message payloads (dyndata) allocated and not freed       *)
  heard,       (* ghost: the bytes each peer has heard while the current   *)
               (* data message was sent, Size + 1 for too many or garbage, *)
               (* None when a reason is known why it may be any number     *)
  orphan       (* ghost: the entry that is sent through has lost a peer    *)
               (* since this serialSend() began                            *)

link == <<linked, exchanging, conns>>
ghosts == <<heard, orphan>>
vars == <<state, conns, connCnt, linked, exchanging, advOn, advPending,
          readyPending, evq, worker, msgq, thread, live, heard, orphan>>

States == {"INIT", "ADVERTISING", "DISCONNECTED", "CONNECTED",
           "CONNECTED_ADVERTISING"}
ConnectedStates == {"CONNECTED", "CONNECTED_ADVERTISING"}
Slots == 1 .. MaxConn
EmptySlot == [conn |-> None, mtu |-> 0, bridge |-> FALSE]

Idle == [pc |-> "get", msg |-> None, goal |-> None, slot |-> 1, off |-> 0,
         space |-> 0, len |-> 0, fits |-> TRUE]
WorkerIdle == [pc |-> "idle", msg |-> None, err |-> FALSE]

Payloads(m) == IF m \in DataTypes THEN 1 ELSE 0

SlotsOf(p) == {s \in Slots : conns[s].conn = p}
FreeSlots == SlotsOf(None)
FirstOf(S) == CHOOSE s \in S : \A t \in S : s <= t

(* The module thread is in serialSend(). *)
Sending == thread.pc \in {"chunk", "overrun", "notify"}

(* The host stack has a connection object left. *)
HostHasRoom == Cardinality(linked) < MaxConn

(***************************************************************************)
(* SEND_ERROR: an event to this and other modules.  The bound MaxEvents    *)
(* makes the list of waiting error events finite.                          *)
(***************************************************************************)
SubmitError(failed) ==
  evq' = IF failed /\ Len(evq) < MaxEvents THEN Append(evq, "ERROR") ELSE evq

-----------------------------------------------------------------------------
(* The system workqueue *)

(* An event of another module for this one is submitted. *)
Submit(e) ==
  /\ Len(evq) < MaxEvents
  /\ evq' = Append(evq, e)
  /\ UNCHANGED <<state, link, connCnt, advOn, advPending, readyPending,
                 worker, msgq, thread, live, ghosts>>

(* Mutant of HandleEvent: the queue is filled one entry too far. *)
HandleEventPastEnd ==
  /\ worker.pc = "idle"
  /\ evq # <<>>
  /\ evq' = Tail(evq)
  /\ live' = live + Payloads(Head(evq))
  /\ Len(msgq) <= QueueLen
  /\ msgq' = Append(msgq, Head(evq))
  /\ UNCHANGED <<state, link, connCnt, advOn, advPending, readyPending, worker,
                 thread, ghosts>>

(***************************************************************************)
(* event_handler(): the event becomes a message, its payload is copied to  *)
(* the heap, and k_msgq_put(..., K_FOREVER) appends it or blocks.          *)
(***************************************************************************)
HandleEvent ==
  /\ worker.pc = "idle"
  /\ evq # <<>>
  /\ evq' = Tail(evq)
  /\ live' = live + Payloads(Head(evq))
  /\ IF Len(msgq) < QueueLen
     THEN msgq' = Append(msgq, Head(evq)) /\ UNCHANGED worker
     ELSE /\ worker' = [WorkerIdle EXCEPT !.pc = "blocked", !.msg = Head(evq)]
          /\ UNCHANGED msgq
  /\ UNCHANGED <<state, link, connCnt, advOn, advPending, readyPending,
                 thread, ghosts>>

PutResumes ==
  /\ worker.pc = "blocked"
  /\ Len(msgq) < QueueLen
  /\ msgq' = Append(msgq, worker.msg)
  /\ worker' = WorkerIdle
  /\ UNCHANGED <<state, link, connCnt, advOn, advPending, readyPending, evq,
                 thread, live, ghosts>>

(***************************************************************************)
(* bt_ready(): bt_enable() reports an error, a service cannot be           *)
(* registered, or the module goes to DISCONNECTED.                         *)
(***************************************************************************)
BtReady ==
  /\ readyPending
  /\ worker.pc = "idle"
  /\ readyPending' = FALSE
  /\ \/ UNCHANGED <<state, evq>>
     \/ SubmitError(TRUE) /\ UNCHANGED state
     \/ state' = "DISCONNECTED" /\ UNCHANGED evq
  /\ UNCHANGED <<link, connCnt, advOn, advPending, worker, msgq, thread, live,
                 ghosts>>

(***************************************************************************)
(* advertise() up to the return of bt_le_adv_start(), which blocks on the  *)
(* controller.  The host refuses when it advertises already (it keeps      *)
(* advertising across connections) or has no free connection object, and   *)
(* the controller may refuse.                                              *)
(***************************************************************************)
AdvertiseBegin ==
  /\ advPending
  /\ worker.pc = "idle"
  /\ advPending' = FALSE
  /\ IF state \in {"INIT", "DISCONNECTED", "CONNECTED"}
     THEN \E err \in BOOLEAN :
            /\ err \/ (~advOn /\ HostHasRoom)
            /\ worker' = [WorkerIdle EXCEPT !.pc = "advertise", !.err = err]
            /\ advOn' = (advOn \/ ~err)
     ELSE UNCHANGED <<worker, advOn>>
  /\ UNCHANGED <<state, link, connCnt, readyPending, evq, msgq, thread, live,
                 ghosts>>

(* The rest of advertise(): an error is sent, the state is set all the same. *)
AdvertiseEnd ==
  /\ worker.pc = "advertise"
  /\ SubmitError(worker.err)
  /\ state' = IF connCnt > 0 THEN "CONNECTED_ADVERTISING" ELSE "ADVERTISING"
  /\ worker' = WorkerIdle
  /\ UNCHANGED <<link, connCnt, advOn, advPending, readyPending, msgq, thread,
                 live, ghosts>>

-----------------------------------------------------------------------------
(* The BT RX thread *)

(* connected(conn, 0): the first free entry is taken, conn_cnt is not. *)
Connected(p) ==
  /\ advOn
  /\ p \notin linked
  /\ HostHasRoom
  /\ state' = "CONNECTED"
  /\ linked' = linked \union {p}
  /\ exchanging' \in {exchanging, exchanging \union {p}}
  /\ conns' = [s \in Slots |->
                 IF FreeSlots # {} /\ s = FirstOf(FreeSlots)
                 THEN [conns[s] EXCEPT !.conn = p, !.mtu = 0]
                 ELSE conns[s]]
  /\ UNCHANGED <<connCnt, advOn, advPending, readyPending, evq, worker, msgq,
                 thread, live, ghosts>>

(* connected(conn, err): the state is set before err is looked at. *)
ConnectFails ==
  /\ advOn
  /\ HostHasRoom
  /\ state' = "CONNECTED"
  /\ UNCHANGED <<link, connCnt, advOn, advPending, readyPending, evq, worker,
                 msgq, thread, live, ghosts>>

(* serialSend() is at work on the entry of this peer. *)
SentThrough(p) == Sending /\ conns[thread.slot].conn = p

(* Who may miss or mishear the message when p leaves: p, or everybody when *)
(* it is sent through p's entry, which is NULL or another peer's from now. *)
HeardWithout(p) ==
  [q \in Peers |-> IF thread.msg \in DataTypes /\ (q = p \/ SentThrough(p))
                   THEN None ELSE heard[q]]

(* Mutant of Disconnected: only the last peer to leave frees its entry. *)
DisconnectedKeepsEntry(p) ==
  /\ p \in linked
  /\ linked' = linked \ {p}
  /\ exchanging' = exchanging \ {p}
  /\ connCnt' = (connCnt + CntMod - 1) % CntMod
  /\ IF connCnt' = 0
     THEN state' = "DISCONNECTED" /\ conns' = [s \in Slots |-> EmptySlot]
     ELSE UNCHANGED <<state, conns>>
  /\ advPending' = TRUE
  /\ orphan' = (orphan \/ SentThrough(p))
  /\ heard' = HeardWithout(p)
  /\ UNCHANGED <<advOn, readyPending, evq, worker, msgq, thread, live>>

(***************************************************************************)
(* disconnected(): conn_cnt is decremented, the entry is freed except for  *)
(* its bridge notifications, and advertise_work is submitted.              *)
(***************************************************************************)
Disconnected(p) ==
  LET cnt == (connCnt + CntMod - 1) % CntMod
      mine == SlotsOf(p)
  IN  /\ p \in linked
      /\ linked' = linked \ {p}
      /\ exchanging' = exchanging \ {p}
      /\ connCnt' = cnt
      /\ state' = IF cnt = 0 THEN "DISCONNECTED" ELSE state
      /\ conns' = [s \in Slots |->
                     IF mine # {} /\ s = FirstOf(mine)
                     THEN [conns[s] EXCEPT !.conn = None, !.mtu = 0]
                     ELSE conns[s]]
      /\ advPending' = TRUE
      /\ orphan' = (orphan \/ SentThrough(p))
      /\ heard' = HeardWithout(p)
      /\ UNCHANGED <<advOn, readyPending, evq, worker, msgq, thread, live>>

(* exchange_func(): the usable MTU is set unless the exchange failed. *)
ExchangeFunc(p) ==
  LET mine == SlotsOf(p)
  IN  /\ p \in exchanging
      /\ exchanging' = exchanging \ {p}
      /\ \/ UNCHANGED conns
         \/ \E att \in AttMtus :
              conns' = [s \in Slots |->
                          IF mine # {} /\ s = FirstOf(mine)
                          THEN [conns[s] EXCEPT !.mtu = FixedMtu(att)]
                          ELSE conns[s]]
      /\ UNCHANGED <<state, connCnt, linked, advOn, advPending, readyPending,
                     evq, worker, msgq, thread, live, ghosts>>

(***************************************************************************)
(* bt_send_nrf9160_bridge_enabled_cb(): on every write of the CCC.  Its    *)
(* peer_conn_event goes to the UART bridge and is not of this module.      *)
(***************************************************************************)
CccWrite(p, on) ==
  LET mine == SlotsOf(p)
  IN  /\ p \in linked
      /\ conns' = [s \in Slots |->
                     IF mine # {} /\ s = FirstOf(mine)
                     THEN [conns[s] EXCEPT !.bridge = on]
                     ELSE conns[s]]
      /\ UNCHANGED <<state, connCnt, linked, exchanging, advOn, advPending,
                     readyPending, evq, worker, msgq, thread, live, ghosts>>

-----------------------------------------------------------------------------
(* The module thread *)

(* on_all_states(): the payload is freed, and the next message is taken. *)
Finish(m) ==
  /\ live' = live - Payloads(m)
  /\ thread' = Idle

At(pc, m) == thread' = [Idle EXCEPT !.pc = pc, !.msg = m] /\ UNCHANGED live

OnStateInit(m) ==
  /\ IF m = "READY" THEN At("init", m) ELSE Finish(m)
  /\ UNCHANGED advPending

OnStateConnected(m) ==
  /\ advPending' = (advPending \/ m \in {"START", "TOGGLE"})
  /\ IF m \in DataTypes THEN At("slot", m) ELSE Finish(m)

(* Mutant of OnStateDisconnected: it returns before the payload is freed. *)
OnStateDisconnectedLeaks(m) ==
  /\ advPending' = (advPending \/ m \in {"START", "TOGGLE"})
  /\ thread' = Idle
  /\ UNCHANGED live

OnStateDisconnected(m) ==
  /\ advPending' = (advPending \/ m \in {"START", "TOGGLE"})
  /\ Finish(m)

(* The states in which a toggle stops advertising, and what follows it. *)
StopsAt == [s \in {"ADVERTISING", "CONNECTED_ADVERTISING"} |->
              IF s = "ADVERTISING" THEN "DISCONNECTED" ELSE "CONNECTED"]

(* module_get_next_msg() and the switch on the state found then. *)
GetMessage ==
  /\ thread.pc = "get"
  /\ msgq # <<>>
  /\ msgq' = Tail(msgq)
  /\ LET m == Head(msgq)
     IN  \/ state = "INIT" /\ OnStateInit(m)
         \/ /\ state = "CONNECTED" \/ (state = "CONNECTED_ADVERTISING" /\ m # "TOGGLE")
            /\ OnStateConnected(m)
         \/ /\ state \in DOMAIN StopsAt
            /\ m = "TOGGLE"
            /\ thread' = [Idle EXCEPT !.pc = "stop", !.msg = m,
                                      !.goal = StopsAt[state]]
            /\ UNCHANGED live
            /\ UNCHANGED advPending
         \/ /\ state = "ADVERTISING"
            /\ m # "TOGGLE"
            /\ Finish(m)
            /\ UNCHANGED advPending
         \/ state = "DISCONNECTED" /\ OnStateDisconnected(m)
  /\ UNCHANGED <<state, link, connCnt, advOn, readyPending, evq, worker, ghosts>>

(* init_module() after the second of sleep: bt_enable(bt_ready). *)
InitModule ==
  /\ thread.pc = "init"
  /\ readyPending' = TRUE
  /\ Finish(thread.msg)
  /\ UNCHANGED <<state, link, connCnt, advOn, advPending, evq, worker, msgq,
                 ghosts>>

(* bt_le_adv_stop() of a toggle; it returns before the state is set. *)
AdvStop ==
  /\ thread.pc = "stop"
  /\ advOn' = FALSE
  /\ thread' = [thread EXCEPT !.pc = "stopped"]
  /\ UNCHANGED <<state, link, connCnt, advPending, readyPending, evq, worker,
                 msgq, live, ghosts>>

(* Mutant of SetStateAfterStop: the state is not set after the stop. *)
StateKeptAfterStop ==
  /\ thread.pc = "stopped"
  /\ Finish(thread.msg)
  /\ UNCHANGED <<state, link, connCnt, advOn, advPending, readyPending, evq,
                 worker, msgq, ghosts>>

SetStateAfterStop ==
  /\ thread.pc = "stopped"
  /\ state' = thread.goal
  /\ Finish(thread.msg)
  /\ UNCHANGED <<link, connCnt, advOn, advPending, readyPending, evq, worker,
                 msgq, ghosts>>

(***************************************************************************)
(* The loop over conns[] of on_state_connected() goes on, or the message   *)
(* has been offered to every entry.                                        *)
(***************************************************************************)
NextSlot ==
  /\ orphan' = FALSE
  /\ IF thread.slot < MaxConn
     THEN /\ thread' = [Idle EXCEPT !.pc = "slot", !.msg = thread.msg,
                                    !.slot = thread.slot + 1]
          /\ UNCHANGED <<live, heard>>
     ELSE /\ Finish(thread.msg)
          /\ heard' = [p \in Peers |-> 0]

(* Is this entry sent to?  The bridge looks at the flag, not at conn. *)
Listening(s) ==
  IF thread.msg = "UART" THEN conns[s].bridge ELSE conns[s].conn # None

CheckSlot ==
  /\ thread.pc = "slot"
  /\ IF Listening(thread.slot)
     THEN thread' = [thread EXCEPT !.pc = "begin"] /\ UNCHANGED <<live, ghosts>>
     ELSE NextSlot
  /\ UNCHANGED <<state, link, connCnt, advOn, advPending, readyPending, evq,
                 worker, msgq>>

(* Mutant of SendBegin: no room for the terminator, which is not sent. *)
SendBeginNoTerminator ==
  /\ thread.pc = "begin"
  /\ IF state \in ConnectedStates
     THEN LET mtu == conns[thread.slot].mtu
          IN  /\ thread' = [thread EXCEPT !.pc = "chunk",
                                          !.space = IF mtu = 0 THEN 0 ELSE mtu - 1]
              /\ UNCHANGED <<live, ghosts>>
     ELSE NextSlot
  /\ UNCHANGED <<state, link, connCnt, advOn, advPending, readyPending, evq,
                 worker, msgq>>

(***************************************************************************)
(* The head of serialSend(): the state is checked once, and chunk[] and    *)
(* decoded_chunk_size are sized once, by the MTU of that moment.           *)
(***************************************************************************)
SendBegin ==
  /\ thread.pc = "begin"
  /\ IF state \in ConnectedStates
     THEN /\ thread' = [thread EXCEPT !.pc = "chunk", !.space = conns[thread.slot].mtu]
          /\ UNCHANGED <<live, ghosts>>
     ELSE NextSlot
  /\ UNCHANGED <<state, link, connCnt, advOn, advPending, readyPending, evq,
                 worker, msgq>>

(* Mutant of EncodeChunk: the size of a chunk follows the MTU in the loop. *)
EncodeChunkRereadsMtu ==
  /\ thread.pc = "chunk"
  /\ thread.off < Size[thread.msg]
  /\ LET mtu  == conns[thread.slot].mtu
         raw  == thread.msg = "UART"
         len  == ChunkLen(Size[thread.msg] - thread.off,
                          IF raw THEN mtu ELSE DecodedChunkSize(mtu))
         used == IF raw THEN len ELSE TextLen(len)
     IN  thread' = [thread EXCEPT !.pc = IF used > thread.space THEN "overrun" ELSE "notify",
                                  !.len = len]
  /\ UNCHANGED <<state, link, connCnt, advOn, advPending, readyPending, evq,
                 worker, msgq, live, ghosts>>

(***************************************************************************)
(* The first half of a turn of the loop: the MTU is read anew (raw data    *)
(* is cut by it, base64_encode() is told it as the size of chunk[]), and   *)
(* the chunk is written into chunk[], which may be smaller by then.  A     *)
(* refused chunk is reported, and goes on as what chunk[] held before.     *)
(***************************************************************************)
EncodeChunk ==
  /\ thread.pc = "chunk"
  /\ thread.off < Size[thread.msg]
  /\ LET mtu  == conns[thread.slot].mtu
         raw  == thread.msg = "UART"
         len  == ChunkLen(Size[thread.msg] - thread.off,
                          IF raw THEN mtu ELSE DecodedChunkSize(thread.space))
         fits == raw \/ EncodeFits(len, mtu)
         used == IF raw THEN len ELSE IF fits THEN TextLen(len) ELSE 0
     IN  /\ SubmitError(~fits)
         /\ thread' = [thread EXCEPT
                         !.pc = IF used > thread.space THEN "overrun" ELSE "notify",
                         !.len = len, !.fits = fits]
  /\ UNCHANGED <<state, link, connCnt, advOn, advPending, readyPending, worker,
                 msgq, live, ghosts>>

(***************************************************************************)
(* Bytes have been written past chunk[], into the stack of the thread: it  *)
(* may never run on, which is no step, or run on unharmed.                 *)
(***************************************************************************)
SurviveOverrun ==
  /\ thread.pc = "overrun"
  /\ thread' = [thread EXCEPT !.pc = "notify"]
  /\ UNCHANGED <<state, link, connCnt, advOn, advPending, readyPending, evq,
                 worker, msgq, live, ghosts>>

(* What a peer has heard after a notification: too much is all the same. *)
HeardNext(n) ==
  LET more == n + thread.len
      over == Size[thread.msg] + 1
  IN  IF n = None \/ thread.len = 0 THEN n
      ELSE IF thread.fits /\ more < over THEN more ELSE over

(***************************************************************************)
(* The second half: the connection is read anew, too.  The services notify *)
(* this peer, or, for NULL, every peer that is subscribed, up to the first *)
(* failure.  A peer that is not subscribed is an error to the bridge only. *)
(* After 5 ms the offset advances by the bytes taken, whatever the outcome.*)
(***************************************************************************)
Notify ==
  /\ thread.pc = "notify"
  /\ \E failed \in BOOLEAN :
     \E by \in SUBSET (IF conns[thread.slot].conn = None THEN linked
                       ELSE {conns[thread.slot].conn}) :
       LET conn == conns[thread.slot].conn
       IN  /\ conn # None /\ failed => by = {}
           /\ by = {} /\ ~failed => conn # None /\ thread.msg = "HEAT"
           /\ SubmitError(failed)
           /\ heard' = [p \in Peers |->
                           IF p \in by THEN HeardNext(heard[p])
                           ELSE IF p = conn /\ thread.len > 0 THEN None
                           ELSE heard[p]]
  /\ thread' = [thread EXCEPT !.pc = "chunk", !.off = @ + thread.len,
                              !.len = 0, !.fits = TRUE]
  /\ UNCHANGED <<state, link, connCnt, advOn, advPending, readyPending, worker,
                 msgq, live, orphan>>

(* Mutant of SendEnd: a last chunk shorter than the MTU is not sent. *)
SendEndDropsRest ==
  /\ thread.pc = "chunk"
  /\ thread.off + conns[thread.slot].mtu >= Size[thread.msg]
  /\ NextSlot
  /\ UNCHANGED <<state, link, connCnt, advOn, advPending, readyPending, evq,
                 worker, msgq>>

(* serialSend() returns when the offset has reached the end of the data. *)
SendEnd ==
  /\ thread.pc = "chunk"
  /\ thread.off >= Size[thread.msg]
  /\ NextSlot
  /\ UNCHANGED <<state, link, connCnt, advOn, advPending, readyPending, evq,
                 worker, msgq>>

-----------------------------------------------------------------------------
(* Specification *)

(* After the module thread has started; main() has submitted its READY. *)
Init ==
  /\ state = "INIT"
  /\ conns = [s \in Slots |-> EmptySlot]
  /\ connCnt = 0
  /\ linked = {}
  /\ exchanging = {}
  /\ advOn = FALSE
  /\ advPending = FALSE
  /\ readyPending = FALSE
  /\ evq = <<"READY">>
  /\ worker = WorkerIdle
  /\ msgq = <<>>
  /\ thread = Idle
  /\ live = 0
  /\ heard = [p \in Peers |-> 0]
  /\ orphan = FALSE

Workqueue == HandleEvent \/ PutResumes \/ BtReady \/ AdvertiseBegin \/ AdvertiseEnd

BtRx ==
  \/ ConnectFails
  \/ \E p \in Peers :
       \/ Connected(p)
       \/ Disconnected(p)
       \/ ExchangeFunc(p)
       \/ \E on \in BOOLEAN : CccWrite(p, on)

ModuleThread ==
  \/ GetMessage
  \/ InitModule
  \/ AdvStop
  \/ SetStateAfterStop
  \/ CheckSlot
  \/ SendBegin
  \/ EncodeChunk
  \/ Notify
  \/ SendEnd

Next ==
  \/ \E e \in Inputs : Submit(e)
  \/ Workqueue
  \/ BtRx
  \/ ModuleThread
  \/ SurviveOverrun

Spec == Init /\ [][Next]_vars

(***************************************************************************)
(* The scheduler runs a ready thread eventually, the workqueue serves each *)
(* kind of work, the controller answers, and an ATT exchange ends, with    *)
(* its time-out at the latest.  Peers and other modules owe nothing, and   *)
(* a thread whose stack is overwritten need not go on.                     *)
(***************************************************************************)
Fairness ==
  /\ SF_vars(HandleEvent)
  /\ WF_vars(PutResumes)
  /\ SF_vars(BtReady)
  /\ SF_vars(AdvertiseBegin)
  /\ WF_vars(AdvertiseEnd)
  /\ WF_vars(ModuleThread)
  /\ \A p \in Peers : WF_vars(ExchangeFunc(p))

FairSpec == Spec /\ Fairness

-----------------------------------------------------------------------------
(* Properties *)

UsableMtus == {0} \union {FixedMtu(att) : att \in AttMtus}

SlotType == [conn : Peers \union {None}, mtu : UsableMtus, bridge : BOOLEAN]

WorkerType == [pc : {"idle", "blocked", "advertise"},
               msg : EventTypes \union {None}, err : BOOLEAN]

ThreadType == [pc : {"get", "init", "stop", "stopped", "slot", "begin", "chunk",
                     "overrun", "notify"},
               msg : EventTypes \union {None}, goal : States \union {None},
               slot : Slots, off : Nat, space : UsableMtus, len : Nat,
               fits : BOOLEAN]

LinksOK ==
  /\ state \in States
  /\ conns \in [Slots -> SlotType]
  /\ connCnt \in 0 .. CntMod - 1
  /\ linked \subseteq Peers
  /\ exchanging \subseteq linked
  /\ advOn \in BOOLEAN
  /\ advPending \in BOOLEAN
  /\ readyPending \in BOOLEAN

QueuesOK ==
  /\ evq \in Seq(EventTypes)
  /\ msgq \in Seq(EventTypes)
  /\ Len(msgq) <= QueueLen
  /\ worker \in WorkerType
  /\ worker.pc = "blocked" <=> worker.msg # None

ThreadOK ==
  /\ thread \in ThreadType
  /\ thread.pc = "get" <=> thread.msg = None
  /\ Sending \/ thread.pc \in {"slot", "begin"} => thread.msg \in DataTypes
  /\ thread.pc \in {"stop", "stopped"} => thread.goal \in States
  /\ live \in Int
  /\ heard \in [Peers -> Nat \union {None}]
  /\ orphan \in BOOLEAN

(* The types of the variables of bt_module.c and of its queues, and which  *)
(* locals the module thread and the workqueue have where they are.         *)
TypeOK == LinksOK /\ QueuesOK /\ ThreadOK

(***************************************************************************)
(* conns[] is the host's set of connections: every connected peer has one  *)
(* entry and no entry outlives its peer, although entries are taken and    *)
(* freed in another thread than the one that sends through them.           *)
(***************************************************************************)
SlotsMatchPeers ==
  /\ linked = {conns[s].conn : s \in Slots} \ {None}
  /\ \A s, t \in Slots : conns[s].conn = conns[t].conn /\ s # t => conns[s].conn = None

(***************************************************************************)
(* Every dyndata that event_handler() allocates is owned by exactly one    *)
(* message that is queued, about to be queued or being handled: none is    *)
(* leaked on a path that ignores the message, none is freed twice.         *)
(***************************************************************************)
PayloadsAccounted ==
  live = CountIn(msgq, DataTypes) + Payloads(worker.msg) + Payloads(thread.msg)

(***************************************************************************)
(* The chunks of a heat map can be decoded by appending their texts: every *)
(* chunk but the last is a whole number of base64 groups, whenever the MTU *)
(* was exchanged and whatever happened to the connection since.            *)
(***************************************************************************)
ChunksConcatenate ==
  thread.pc = "chunk" /\ thread.msg = "HEAT" /\ thread.off < Size["HEAT"]
    => thread.off % 3 = 0

(***************************************************************************)
(* serialSend() writes past chunk[] only with data of the bridge, and only *)
(* when the send began before the MTU exchange or the entry has changed    *)
(* hands since: a peer's own MTU does not grow under a send, and no chunk  *)
(* of a heat map is ever too long, whoever comes, leaves or exchanges.     *)
(***************************************************************************)
OverrunsNeedLateMtu ==
  thread.pc = "overrun" =>
    /\ thread.msg = "UART"
    /\ thread.space = 0 \/ orphan

(***************************************************************************)
(* A data message is heard whole and once, or not at all: when the loop    *)
(* leaves an entry, the peer in it has heard every byte, and any other     *)
(* peer all or nothing, whoever has connected, subscribed, exchanged its   *)
(* MTU or been passed over meanwhile.  Only these may have a part of it, a *)
(* part twice, or garbage: a peer that left, a peer to which a chunk was   *)
(* not notified, and, once an entry has lost its peer in the middle of a   *)
(* send, everybody, as the rest then goes to the next peer in the entry    *)
(* or, through the NULL connection, to all of them.                        *)
(***************************************************************************)
HeardWholeOrNot ==
  [][Sending /\ ~Sending' =>
       \A p \in Peers :
         \/ heard[p] = None
         \/ heard[p] = Size[thread.msg]
         \/ heard[p] = 0 /\ conns[thread.slot].conn # p]_vars

(***************************************************************************)
(* A heat map whose send began after the MTU exchange is sent to its end,  *)
(* whatever the peer does meanwhile: the loop cannot stop advancing.       *)
(***************************************************************************)
HeatSendEnds ==
  (Sending /\ thread.msg = "HEAT" /\ thread.space > 0) ~> ~Sending

(* The module thread takes a toggle of the advertising from its queue. *)
TakesToggle == GetMessage /\ Head(msgq) = "TOGGLE" /\ state # "INIT"

(* The controller refuses to advertise without a reason of the host's. *)
ControllerRefuses ==
  AdvertiseBegin /\ worker'.err /\ ~advOn /\ HostHasRoom

(***************************************************************************)
(* The button recovers: in whatever state the races of connected(),        *)
(* disconnected(), advertise() and the toggle have left the module, when   *)
(* presses go on being handled the device is connectable again and again   *)
(* or has all the peers it can have, unless the controller keeps refusing. *)
(***************************************************************************)
ButtonRecovers ==
  ([]<><<TakesToggle>>_vars /\ <>[][~ControllerRefuses]_vars)
    => []<>(advOn \/ ~HostHasRoom)

(***************************************************************************)
(* modules_common.c:58-61 says the module "is not being blocked by a full  *)
(* message queue": the workqueue, when blocked on msgq_bt, goes on.        *)
(***************************************************************************)
WorkqueueResumes == worker.pc = "blocked" ~> worker.pc # "blocked"

=============================================================================
