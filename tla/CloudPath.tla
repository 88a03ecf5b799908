------------------------------ MODULE CloudPath ------------------------------
(***************************************************************************)
(* The way of a reading to the cloud, on the nRF9160: the analysis module  *)
(* (nrf9160_ns/src/analysis/analysis_module.c) turns sensor values and     *)
(* heat maps into strings, the MQTT module (modules/mqtt/) publishes them. *)
(*                                                                         *)
(* Two modules, each with a queue and a thread of the lowest priority,     *)
(* stand behind one system workqueue; the poll thread of mqtt_client.c,    *)
(* of a higher priority, calls back into the state of the MQTT module.     *)
(*                                                                         *)
(* Not here: MQTT_EVT_CONNECT and MQTT_EVT_SUBSCRIBE, which nothing        *)
(* submits, so that nothing is ever received either.                       *)
(***************************************************************************)
EXTENDS Queues, Integers

CONSTANTS
  NoMsg,        (* no message                                              *)
  QueueLen,     (* of the modules' queues: *_QUEUE_ENTRY_COUNT             *)
  MaxReadings   (* bound: readings taken                                   *)

VARIABLES
  evq,          (* the event manager's queue, the events of this path      *)
  worker,       (* the workqueue: an event, and the listeners it goes to   *)
  msgq,         (* msgq_analysis and msgq_mqtt                             *)
  ready,        (* state of the analysis module: STATE_READY               *)
  analysis,     (* the message the analysis thread works on, or NoMsg      *)
  state,        (* static enum state_type state of mqtt_module.c           *)
  mqtt,         (* the MQTT module thread: where it is, and its message    *)
  session,      (* the MQTT session, as the library and the broker have it *)
  polling,      (* mqtt_poll() runs                                        *)
  copies,       (* heat map copies (dyndata) allocated and not freed       *)
  strings,      (* message strings allocated and not freed                 *)
  taken,        (* readings submitted to the path                          *)
  published     (* ghost: the last reading that reached the broker, or 0   *)

vars == <<evq, worker, msgq, ready, analysis, state, mqtt, session, polling,
          copies, strings, taken, published>>
threads == <<ready, analysis, state, mqtt>>
link == <<session, polling, published>>
heap == <<copies, strings>>

Modules == {"analysis", "mqtt"}
States == {"INIT", "CONNECTED", "DISCONNECTED", "ERROR"}

ASSUME CloudAssumption ==
  /\ QueueLen \in [Modules -> Nat \ {0}]
  /\ MaxReadings \in Nat

-----------------------------------------------------------------------------
(* Events and messages *)

(* module_set_state(MODULE_STATE_READY) of main. *)
Ready == [kind |-> "READY"]

(* MQTT_EVT_CONNECTED, _DISCONNECTED or _ERROR: of use to nobody, and data *)
(* of the event is not initialised.                                        *)
Notice == [kind |-> "NOTICE"]

(* A sensor value, a heat map of the nRF52840, or another event of the     *)
(* link between the two.                                                   *)
Reading(k, n) == [kind |-> k, num |-> n]
ReadingKinds == {"VALUE", "MAP", "LINK"}

(* MQTT_EVT_SEND; text: its message is not NULL. *)
Send(n, text) == [kind |-> "SEND", num |-> n, text |-> text]

Readings == {Reading(k, n) : k \in ReadingKinds, n \in 1 .. MaxReadings}
Sends == {Send(n, text) : n \in 1 .. MaxReadings, text \in BOOLEAN}
Messages == {Ready, Notice} \union Readings \union Sends

ASSUME NoMsgAssumption == NoMsg \notin Messages

(* The messages that own a copy of a payload, and those that own a string. *)
Copied == {m \in Readings : m.kind \in {"MAP", "LINK"}}
Texts == {m \in Sends : m.text}

One(m, S) == IF m \in S THEN 1 ELSE 0

(* EVENT_SUBSCRIBE of the two modules. *)
Listeners(m) ==
  CASE m.kind = "READY"               -> Modules
    [] m.kind \in {"NOTICE", "SEND"}  -> {"mqtt"}
    [] OTHER                          -> {"analysis"}

-----------------------------------------------------------------------------
(* The system workqueue *)

(* A sensor or the link submits an event. *)
Take(k) ==
  /\ taken < MaxReadings
  /\ taken' = taken + 1
  /\ evq' = Append(evq, Reading(k, taken + 1))
  /\ UNCHANGED <<worker, msgq, threads, link, heap>>

IdleWorker == [msg |-> NoMsg, to |-> {}]

(* The next event: the listener of the analysis module copies the payload. *)
HandleEvent ==
  /\ worker = IdleWorker
  /\ evq # <<>>
  /\ worker' = [msg |-> Head(evq), to |-> Listeners(Head(evq))]
  /\ evq' = Tail(evq)
  /\ copies' = copies + One(Head(evq), Copied)
  /\ UNCHANGED <<msgq, threads, link, strings, taken>>

(***************************************************************************)
(* k_msgq_put(..., K_FOREVER) in one of the listeners of the event.  The   *)
(* other events, and the other module, wait for it.                        *)
(***************************************************************************)
Put(q) ==
  /\ q \in worker.to
  /\ Len(msgq[q]) < QueueLen[q]
  /\ msgq' = [msgq EXCEPT ![q] = Append(@, worker.msg)]
  /\ worker' = IF worker.to = {q} THEN IdleWorker ELSE [worker EXCEPT !.to = @ \ {q}]
  /\ UNCHANGED <<evq, threads, link, heap, taken>>

-----------------------------------------------------------------------------
(* The thread of the analysis module *)

(* module_get_next_msg() takes the head of the queue. *)
Get(q) ==
  /\ msgq[q] # <<>>
  /\ msgq' = [msgq EXCEPT ![q] = Tail(@)]

AnalysisGet ==
  /\ analysis = NoMsg
  /\ Get("analysis")
  /\ analysis' = Head(msgq["analysis"])
  /\ UNCHANGED <<evq, worker, ready, state, mqtt, link, heap, taken>>

(***************************************************************************)
(* on_state_init(), on_state_ready(), on_all_states(): a value becomes a   *)
(* string; a heat map an image, or NULL when it cannot be encoded; the     *)
(* copy is freed.                                                          *)
(***************************************************************************)
Analyse ==
  /\ analysis # NoMsg
  /\ ready' = (ready \/ analysis = Ready)
  /\ IF ready /\ analysis.kind \in {"VALUE", "MAP"}
     THEN \E text \in {TRUE} \union (IF analysis.kind = "MAP" THEN {FALSE} ELSE {}) :
            /\ evq' = Append(evq, Send(analysis.num, text))
            /\ strings' = strings + (IF text THEN 1 ELSE 0)
     ELSE UNCHANGED <<evq, strings>>
  /\ copies' = copies - One(analysis, Copied)
  /\ analysis' = NoMsg
  /\ UNCHANGED <<worker, msgq, state, mqtt, link, taken>>

-----------------------------------------------------------------------------
(* The MQTT client: the thread of the module, and callbacks                *)

Idle == [pc |-> "get", msg |-> NoMsg]

At(pc, m) == mqtt' = [pc |-> pc, msg |-> m] /\ UNCHANGED <<evq, strings>>

(* my_free() of the message, if it has one. *)
Finish(m) ==
  /\ mqtt' = Idle
  /\ strings' = strings - One(m, Texts)

(* Mutant of Refuse: the string is not freed. *)
RefuseLeaks(m) ==
  /\ mqtt' = Idle
  /\ evq' = Append(evq, Notice)
  /\ UNCHANGED strings

(* Mutant of Refuse: the event is submitted again, to be sent later. *)
RefuseResubmits(m) ==
  /\ mqtt' = Idle
  /\ evq' = Append(evq, m)
  /\ UNCHANGED strings

(* SEND_ERROR for a message that cannot be sent now, which is dropped. *)
Refuse(m) ==
  /\ Finish(m)
  /\ evq' = Append(evq, Notice)

(***************************************************************************)
(* module_get_next_msg() and the switch on the state.  STATE_ERROR frees   *)
(* what the message of any event points to.                                *)
(***************************************************************************)
MqttGet ==
  /\ mqtt = Idle
  /\ Get("mqtt")
  /\ LET m == Head(msgq["mqtt"])
     IN  CASE state = "INIT" /\ m.kind = "READY"     -> At("init", m)
           [] state = "CONNECTED" /\ m.kind = "SEND" -> At("publish", m)
           [] state \in {"INIT", "DISCONNECTED"} /\ m.kind = "SEND" -> Refuse(m)
           [] OTHER                                  -> Finish(m) /\ UNCHANGED evq
  /\ UNCHANGED <<worker, ready, analysis, state, link, copies, taken>>

(* mqtt_client_module_init(): the broker is found by name, or not. *)
InitClient ==
  /\ mqtt.pc = "init"
  /\ \/ state' = "ERROR" /\ mqtt' = Idle
     \/ state' = "DISCONNECTED" /\ mqtt' = [mqtt EXCEPT !.pc = "connect"]
  /\ UNCHANGED <<evq, worker, msgq, ready, analysis, link, heap, taken>>

(* Mutant of Connect: the state is set when the connection has begun. *)
ConnectThenState ==
  /\ mqtt.pc = "connect"
  /\ IF polling
     THEN state' = "DISCONNECTED" /\ mqtt' = Idle /\ UNCHANGED <<session, polling>>
     ELSE \/ session' = "waiting" /\ polling' = TRUE /\ UNCHANGED <<state, mqtt>>
          \/ mqtt' = Idle /\ UNCHANGED <<state, session, polling>>
  /\ UNCHANGED <<evq, worker, msgq, ready, analysis, published, heap, taken>>

(* Mutant of Connect: the thread waits for the answer of the broker. *)
ConnectWaits ==
  /\ mqtt.pc = "connect"
  /\ \/ session = "none" /\ session' = "waiting" /\ polling' = TRUE /\ UNCHANGED mqtt
     \/ session = "none" /\ mqtt' = Idle /\ UNCHANGED <<session, polling>>
     \/ session = "up" /\ mqtt' = Idle /\ UNCHANGED <<session, polling>>
  /\ UNCHANGED <<evq, worker, msgq, ready, analysis, state, published, heap, taken>>

(***************************************************************************)
(* mqtt_client_module_connect(): the request is sent and the poll thread   *)
(* created, or the connection fails and is not tried again.                *)
(***************************************************************************)
Connect ==
  /\ mqtt.pc = "connect"
  /\ \/ session' = "waiting" /\ polling' = TRUE
     \/ UNCHANGED <<session, polling>>
  /\ mqtt' = Idle
  /\ UNCHANGED <<evq, worker, msgq, ready, analysis, state, published, heap, taken>>

(* mqtt_connected_cb(), whatever the result. *)
ConnectedCb ==
  /\ state' = "CONNECTED"
  /\ evq' = Append(evq, Notice)

(* Mutant of DisconnectedCb: the state is an error. *)
DisconnectedCbError ==
  /\ state' = "ERROR"
  /\ evq' = Append(evq, Notice)

(* mqtt_disconnected_cb() *)
DisconnectedCb ==
  /\ state' = "DISCONNECTED"
  /\ evq' = Append(evq, Notice)

(***************************************************************************)
(* mqtt_client_module_data_publish(), whose result is ignored: the message *)
(* reaches the broker; or it does not fit the buffer, or it is lost in a   *)
(* connection that is broken, or there is none; or writing it finds the    *)
(* connection broken, and the library disconnects.                         *)
(***************************************************************************)
Publish ==
  /\ mqtt.pc = "publish"
  /\ \/ /\ session = "up" /\ mqtt.msg.text
        /\ published' = mqtt.msg.num
        /\ UNCHANGED <<evq, state, session>>
     \/ UNCHANGED <<evq, state, session, published>>
     \/ /\ session = "dead" /\ mqtt.msg.text
        /\ session' = "closed"
        /\ DisconnectedCb
        /\ UNCHANGED published
  /\ Finish(mqtt.msg)
  /\ UNCHANGED <<worker, msgq, ready, analysis, polling, copies, taken>>

-----------------------------------------------------------------------------
(* The poll thread, and the network *)

(* MQTT_EVT_CONNACK: the broker accepts, or refuses. *)
Connack ==
  /\ session = "waiting" /\ polling
  /\ session' \in {"up", "refused"}
  /\ ConnectedCb
  /\ UNCHANGED <<worker, msgq, ready, analysis, mqtt, polling, published, heap, taken>>

(* The connection breaks, and nobody here knows yet. *)
Lose ==
  /\ session \in {"waiting", "up"}
  /\ session' = "dead"
  /\ UNCHANGED <<evq, worker, msgq, threads, polling, published, heap, taken>>

(* mqtt_input() or mqtt_live() fails: the library disconnects, and the     *)
(* loop ends.  A refusal is such a failure.                                *)
InputFails ==
  /\ polling
  /\ session \in {"dead", "refused"}
  /\ session' = "closed"
  /\ DisconnectedCb
  /\ polling' = FALSE
  /\ UNCHANGED <<worker, msgq, ready, analysis, mqtt, published, heap, taken>>

(* poll() fails or reports an error on the socket: the loop just ends. *)
PollEnds ==
  /\ polling
  /\ session \in {"dead", "closed"}
  /\ polling' = FALSE
  /\ UNCHANGED <<evq, worker, msgq, threads, session, published, heap, taken>>

-----------------------------------------------------------------------------
(* Specification *)

(* The module threads wait; main has submitted its READY. *)
Init ==
  /\ evq = <<Ready>>
  /\ worker = IdleWorker
  /\ msgq = [q \in Modules |-> <<>>]
  /\ ready = FALSE /\ analysis = NoMsg
  /\ state = "INIT" /\ mqtt = Idle
  /\ session = "none" /\ polling = FALSE
  /\ copies = 0 /\ strings = 0
  /\ taken = 0 /\ published = 0

Workqueue == HandleEvent \/ \E q \in Modules : Put(q)

AnalysisThread == AnalysisGet \/ Analyse

MqttThread == MqttGet \/ InitClient \/ Connect \/ Publish

PollThread == InputFails \/ PollEnds

Network == Connack \/ Lose

Next ==
  \/ \E k \in ReadingKinds : Take(k)
  \/ Workqueue \/ AnalysisThread \/ MqttThread \/ PollThread \/ Network

Spec == Init /\ [][Next]_vars

(* Ready threads run, and calls into the network stack return; the sensors *)
(* and the network owe nothing, so that the poll thread may wait for ever. *)
FairSpec ==
  /\ Spec
  /\ WF_vars(Workqueue) /\ WF_vars(AnalysisThread) /\ WF_vars(MqttThread)

-----------------------------------------------------------------------------
(* Properties *)

(* The types of the variables of analysis_module.c and mqtt_module.c, and  *)
(* which message the MQTT thread has where it is.                          *)
TypeOK ==
  /\ evq \in Seq(Messages)
  /\ worker \in [msg : Messages \union {NoMsg}, to : SUBSET Modules]
  /\ worker.msg = NoMsg <=> worker.to = {}
  /\ worker.msg # NoMsg => worker.to \subseteq Listeners(worker.msg)
  /\ msgq \in [Modules -> Seq(Messages)]
  /\ \A q \in Modules : Len(msgq[q]) <= QueueLen[q]
  /\ ready \in BOOLEAN
  /\ analysis \in Messages \union {NoMsg}
  /\ state \in States
  /\ mqtt \in [pc : {"get", "init", "connect", "publish"}, msg : Messages \union {NoMsg}]
  /\ mqtt.pc = "get" <=> mqtt.msg = NoMsg
  /\ mqtt.pc \in {"init", "connect"} => mqtt.msg = Ready
  /\ mqtt.pc = "publish" => mqtt.msg \in Sends
  /\ session \in {"none", "waiting", "refused", "up", "dead", "closed"}
  /\ polling \in BOOLEAN
  /\ copies \in Int /\ strings \in Int
  /\ taken \in 0 .. MaxReadings /\ published \in 0 .. MaxReadings

(***************************************************************************)
(* Every copy of a heat map and every string is owned by one event or      *)
(* message, across two queues, the workqueue that is about to put it, and  *)
(* two threads; it is freed once, in every state of the connection.        *)
(***************************************************************************)
HeapAccounted ==
  /\ copies = One(worker.msg, Copied) + CountIn(msgq["analysis"], Copied)
               + One(analysis, Copied)
  /\ strings = CountIn(evq, Texts) + One(worker.msg, Texts)
               + CountIn(msgq["mqtt"], Texts) + One(mqtt.msg, Texts)

(***************************************************************************)
(* The state, that two threads write without a lock, follows the session:  *)
(* it is CONNECTED while messages could be sent, so that none is refused   *)
(* then, and DISCONNECTED once the library has closed the session.         *)
(***************************************************************************)
StateFollowsSession ==
  /\ session \in {"refused", "up"} => state = "CONNECTED"
  /\ session \in {"waiting", "closed"} => state = "DISCONNECTED"
  /\ session = "none" => state # "CONNECTED"

(***************************************************************************)
(* STATE_ERROR frees the message of any event: while it lasts no event is  *)
(* on its way whose data was never initialised.                            *)
(***************************************************************************)
ErrorFreesOnlyStrings ==
  state = "ERROR" =>
    CountIn(evq, {Notice}) + One(worker.msg, {Notice}) + CountIn(msgq["mqtt"], {Notice}) = 0

(* The session as Feed sees it. *)
Phase ==
  CASE session \in {"none", "waiting", "refused"} -> "before"
    [] session = "up"                             -> "open"
    [] OTHER                                      -> "over"

F == INSTANCE Feed WITH phase <- Phase, given <- published

(***************************************************************************)
(* The two modules and their queues are one feed: readings reach the       *)
(* broker in order, once, in one session.                                  *)
(***************************************************************************)
ImplementsFeed == F!Spec

(* A call into the path ends: what is allocated is freed, however the      *)
(* connection fails while the workqueue waits for a full queue.            *)
PathDrains == (copies > 0 \/ strings > 0) ~> (copies = 0 /\ strings = 0)

(* Kconfig.mqtt_module:51 has a delay "before attempting to reconnect to   *)
(* the broker": when a session is closed, a connection is attempted.       *)
AttemptsReconnect == session = "closed" ~> mqtt.pc = "connect"

=============================================================================
