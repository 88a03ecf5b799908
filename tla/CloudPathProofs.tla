---------------------------- MODULE CloudPathProofs ----------------------------
(***************************************************************************)
(* What the cloud path keeps for every length of its queues and every      *)
(* number of readings.                                                     *)
(***************************************************************************)
EXTENDS CloudPath, QueueProofs

-----------------------------------------------------------------------------
(* Messages *)

(* A message says what it is by its kind. *)
LEMMA MessageKinds ==
  ASSUME NEW m \in Messages
  PROVE  /\ m.kind = "READY" <=> m = Ready
         /\ m.kind = "NOTICE" <=> m = Notice
         /\ m.kind = "SEND" <=> m \in Sends
         /\ m.kind \in ReadingKinds <=> m \in Readings
         /\ m \in Sends => m.num \in 1 .. MaxReadings /\ m.text \in BOOLEAN
         /\ m \in Readings => m.num \in 1 .. MaxReadings
<1>1. /\ Ready.kind = "READY" /\ Notice.kind = "NOTICE"
      /\ \A n, t : Send(n, t).kind = "SEND" /\ Send(n, t).num = n /\ Send(n, t).text = t
      /\ \A k, n : Reading(k, n).kind = k /\ Reading(k, n).num = n
  BY DEF Ready, Notice, Send, Reading
<1>2. \A s \in Sends : s.kind = "SEND" /\ s.num \in 1 .. MaxReadings /\ s.text \in BOOLEAN
  BY <1>1 DEF Sends
<1>3. \A r \in Readings : r.kind \in ReadingKinds /\ r.num \in 1 .. MaxReadings
  BY <1>1 DEF Readings
<1>4. m = Ready \/ m = Notice \/ m \in Readings \/ m \in Sends
  BY DEF Messages
<1>5. "READY" \notin ReadingKinds /\ "NOTICE" \notin ReadingKinds /\ "SEND" \notin ReadingKinds
  BY DEF ReadingKinds
<1>6. QED
  BY <1>1, <1>2, <1>3, <1>4, <1>5

(* The parts of Messages. *)
LEMMA MessageSets ==
  /\ Ready \in Messages /\ Notice \in Messages
  /\ Readings \subseteq Messages /\ Sends \subseteq Messages
  /\ Copied \subseteq Readings /\ Texts \subseteq Sends
  /\ NoMsg \notin Messages
BY NoMsgAssumption DEF Messages, Copied, Texts, NoMsgAssumption

(* Who listens to what, and what owns what. *)
LEMMA MessageRoles ==
  ASSUME NEW m \in Messages
  PROVE  /\ Listeners(m) \subseteq Modules /\ Listeners(m) # {}
         /\ m = Ready <=> Listeners(m) = Modules
         /\ m \in Readings <=> Listeners(m) = {"analysis"}
         /\ m \in Sends \union {Notice} <=> Listeners(m) = {"mqtt"}
         /\ One(m, Copied) \in 0 .. 1 /\ One(m, Texts) \in 0 .. 1
<1>1. m = Ready \/ m = Notice \/ m \in Readings \/ m \in Sends
  BY DEF Messages
<1>2. "READY" \notin ReadingKinds /\ "NOTICE" \notin ReadingKinds /\ "SEND" \notin ReadingKinds
  BY DEF ReadingKinds
<1>3. CASE m.kind = "READY"
  <2>1. Listeners(m) = Modules /\ m = Ready /\ m \notin Readings /\ m \notin Sends /\ m # Notice
    BY <1>2, <1>3, MessageKinds DEF Listeners, Notice
  <2>2. QED
    BY <2>1 DEF Modules, One
<1>4. CASE m.kind \in {"NOTICE", "SEND"}
  <2>1. Listeners(m) = {"mqtt"} /\ m \in Sends \union {Notice} /\ m \notin Readings /\ m # Ready
    BY <1>2, <1>4, MessageKinds DEF Listeners
  <2>2. QED
    BY <2>1 DEF Modules, One
<1>5. CASE m.kind \notin {"READY", "NOTICE", "SEND"}
  <2>1. Listeners(m) = {"analysis"} /\ m \notin Sends \union {Notice} /\ m # Ready
    BY <1>5, MessageKinds DEF Listeners, Ready, Notice
  <2>2. m \in Readings
    BY <1>1, <2>1
  <2>3. QED
    BY <2>1, <2>2 DEF Modules, One
<1>6. QED
  BY <1>3, <1>4, <1>5

-----------------------------------------------------------------------------
(* Types *)

(* Each queue, and what may be put in and taken out. *)
LEMMA QueueTypes ==
  ASSUME TypeOK
  PROVE  /\ \A m \in Messages : Append(evq, m) \in Seq(Messages)
         /\ evq # <<>> => Head(evq) \in Messages /\ Tail(evq) \in Seq(Messages)
         /\ \A q \in Modules :
              /\ msgq[q] \in Seq(Messages) /\ QueueLen[q] \in Nat
              /\ \A m \in Messages : /\ Append(msgq[q], m) \in Seq(Messages)
                                     /\ Len(Append(msgq[q], m)) = Len(msgq[q]) + 1
              /\ msgq[q] # <<>> => /\ Head(msgq[q]) \in Messages
                                   /\ Tail(msgq[q]) \in Seq(Messages)
                                   /\ Len(Tail(msgq[q])) <= QueueLen[q]
<1>1. evq \in Seq(Messages)
  BY DEF TypeOK
<1>2. /\ \A m \in Messages : Append(evq, m) \in Seq(Messages)
      /\ evq # <<>> => Head(evq) \in Messages /\ Tail(evq) \in Seq(Messages)
  BY <1>1
<1>3. ASSUME NEW q \in Modules
      PROVE  /\ msgq[q] \in Seq(Messages) /\ QueueLen[q] \in Nat
             /\ \A m \in Messages : /\ Append(msgq[q], m) \in Seq(Messages)
                                    /\ Len(Append(msgq[q], m)) = Len(msgq[q]) + 1
             /\ msgq[q] # <<>> => /\ Head(msgq[q]) \in Messages
                                  /\ Tail(msgq[q]) \in Seq(Messages)
                                  /\ Len(Tail(msgq[q])) <= QueueLen[q]
  <2>1. msgq[q] \in Seq(Messages) /\ QueueLen[q] \in Nat /\ Len(msgq[q]) <= QueueLen[q]
    BY CloudAssumption DEF CloudAssumption, TypeOK
  <2>2. QED
    BY <2>1
<1>4. QED
  BY <1>2, <1>3

(* One queue changes, and the others stay. *)
LEMMA QueueChange ==
  ASSUME TypeOK, NEW q \in Modules, NEW s \in Seq(Messages), Len(s) <= QueueLen[q],
         msgq' = [msgq EXCEPT ![q] = s]
  PROVE  /\ msgq' \in [Modules -> Seq(Messages)]
         /\ \A p \in Modules : Len(msgq'[p]) <= QueueLen[p]
         /\ msgq'[q] = s
         /\ \A p \in Modules \ {q} : msgq'[p] = msgq[p]
BY DEF TypeOK

(* What a thread finds in its queue, and what stays. *)
LEMMA GetTyped ==
  ASSUME TypeOK, NEW q \in Modules, Get(q)
  PROVE  /\ Head(msgq[q]) \in Messages /\ msgq[q] # <<>>
         /\ msgq' \in [Modules -> Seq(Messages)]
         /\ \A p \in Modules : Len(msgq'[p]) <= QueueLen[p]
         /\ msgq'[q] = Tail(msgq[q])
         /\ \A p \in Modules \ {q} : msgq'[p] = msgq[p]
<1>1. msgq[q] # <<>> /\ msgq' = [msgq EXCEPT ![q] = Tail(msgq[q])]
  BY DEF Get
<1>2. /\ Head(msgq[q]) \in Messages /\ Tail(msgq[q]) \in Seq(Messages)
      /\ Len(Tail(msgq[q])) <= QueueLen[q]
  BY <1>1, QueueTypes
<1>3. QED
  BY <1>1, <1>2, QueueChange

LEMMA TypeInit == Init => TypeOK
<1> SUFFICES ASSUME Init PROVE TypeOK
  OBVIOUS
<1>1. evq \in Seq(Messages)
  BY MessageSets DEF Init
<1>2. /\ worker \in [msg : Messages \union {NoMsg}, to : SUBSET Modules]
      /\ worker.msg = NoMsg /\ worker.to = {}
  BY DEF Init, IdleWorker
<1>3. msgq \in [Modules -> Seq(Messages)] /\ \A q \in Modules : Len(msgq[q]) <= QueueLen[q]
  BY CloudAssumption DEF Init, CloudAssumption
<1>4. /\ mqtt \in [pc : {"get", "init", "connect", "publish"}, msg : Messages \union {NoMsg}]
      /\ mqtt.pc = "get" /\ mqtt.msg = NoMsg
  BY DEF Init, Idle
<1>5. taken \in 0 .. MaxReadings /\ published \in 0 .. MaxReadings /\ copies \in Int /\ strings \in Int
  BY CloudAssumption DEF Init, CloudAssumption
<1>6. QED
  BY <1>1, <1>2, <1>3, <1>4, <1>5 DEF Init, TypeOK, States

(* What Put() does to the worker and the queues. *)
LEMMA PutTyped ==
  ASSUME TypeOK, NEW q \in Modules, Put(q)
  PROVE  /\ worker.msg \in Messages /\ q \in Listeners(worker.msg)
         /\ msgq' \in [Modules -> Seq(Messages)]
         /\ \A p \in Modules : Len(msgq'[p]) <= QueueLen[p]
         /\ msgq'[q] = Append(msgq[q], worker.msg)
         /\ \A p \in Modules \ {q} : msgq'[p] = msgq[p]
         /\ \/ worker' = IdleWorker /\ worker.to = {q}
            \/ /\ worker.to = Modules /\ worker.msg = Ready
               /\ worker' = [msg |-> Ready, to |-> Modules \ {q}]
<1>1. q \in worker.to /\ worker.msg # NoMsg /\ worker.msg \in Messages /\ worker.to \subseteq Listeners(worker.msg)
  BY DEF Put, TypeOK
<1>2. worker = [msg |-> worker.msg, to |-> worker.to]
  BY DEF TypeOK
<1>3. /\ Append(msgq[q], worker.msg) \in Seq(Messages)
      /\ Len(Append(msgq[q], worker.msg)) <= QueueLen[q]
  <2>1. Len(msgq[q]) < QueueLen[q] /\ msgq[q] \in Seq(Messages) /\ QueueLen[q] \in Nat
    BY QueueTypes DEF Put
  <2>2. QED
    BY <1>1, <2>1, QueueTypes
<1>4. msgq' = [msgq EXCEPT ![q] = Append(msgq[q], worker.msg)]
  BY DEF Put
<1>5. CASE worker.to = {q}
  BY <1>1, <1>3, <1>4, <1>5, QueueChange DEF Put
<1>6. CASE worker.to # {q}
  <2>1. worker.to = Modules
    BY <1>1, <1>6 DEF Modules, TypeOK
  <2>2. Listeners(worker.msg) = Modules
    BY <1>1, <2>1, MessageRoles
  <2>3. worker.msg = Ready
    BY <1>1, <2>2, MessageRoles
  <2>4. worker' = [msg |-> Ready, to |-> Modules \ {q}]
    BY <1>2, <1>6, <2>1, <2>3 DEF Put
  <2>5. QED
    BY <1>1, <1>3, <1>4, <2>1, <2>3, <2>4, QueueChange
<1>7. QED
  BY <1>5, <1>6

(* What the analysis thread does with its message. *)
LEMMA AnalyseCases ==
  ASSUME TypeOK, Analyse
  PROVE  /\ analysis \in Messages /\ analysis' = NoMsg /\ ready' \in BOOLEAN
         /\ copies' = copies - One(analysis, Copied)
         /\ UNCHANGED <<worker, msgq, state, mqtt, session, polling, published, taken>>
         /\ \/ UNCHANGED <<evq, strings>>
            \/ /\ ready /\ analysis \in Readings
               /\ \E text \in BOOLEAN :
                    /\ Send(analysis.num, text) \in Sends
                    /\ evq' = Append(evq, Send(analysis.num, text))
                    /\ strings' = strings + One(Send(analysis.num, text), Texts)
<1>1. analysis \in Messages /\ analysis' = NoMsg /\ copies' = copies - One(analysis, Copied)
  BY DEF Analyse, TypeOK
<1>2. UNCHANGED <<worker, msgq, state, mqtt, session, polling, published, taken>> /\ ready' \in BOOLEAN
  BY DEF Analyse, TypeOK, link
<1>3. CASE ready /\ analysis.kind \in {"VALUE", "MAP"}
  <2>1. analysis \in Readings /\ analysis.num \in 1 .. MaxReadings
    BY <1>1, <1>3, MessageKinds DEF ReadingKinds
  <2>2. PICK text \in BOOLEAN :
          /\ evq' = Append(evq, Send(analysis.num, text))
          /\ strings' = strings + (IF text THEN 1 ELSE 0)
    BY <1>3 DEF Analyse
  <2>3. Send(analysis.num, text) \in Sends
    BY <2>1 DEF Sends
  <2>4. One(Send(analysis.num, text), Texts) = IF text THEN 1 ELSE 0
    BY <2>3 DEF One, Texts, Send
  <2>5. QED
    BY <1>1, <1>2, <1>3, <2>1, <2>2, <2>3, <2>4
<1>4. CASE ~(ready /\ analysis.kind \in {"VALUE", "MAP"})
  BY <1>1, <1>2, <1>4 DEF Analyse
<1>5. QED
  BY <1>3, <1>4

(* What the MQTT thread does with the message it gets. *)
LEMMA MqttGetCases ==
  ASSUME TypeOK, MqttGet
  PROVE  LET m == Head(msgq["mqtt"])
         IN  /\ m \in Messages /\ mqtt.pc = "get" /\ mqtt.msg = NoMsg /\ Get("mqtt")
             /\ UNCHANGED <<worker, ready, analysis, state, session, polling, published, copies, taken>>
             /\ \/ state = "INIT" /\ m = Ready /\ At("init", m)
                \/ state = "CONNECTED" /\ m \in Sends /\ At("publish", m)
                \/ state \in {"INIT", "DISCONNECTED"} /\ m \in Sends /\ Refuse(m)
                \/ /\ ~(state = "INIT" /\ m = Ready)
                   /\ Finish(m) /\ UNCHANGED evq
<1> DEFINE m == Head(msgq["mqtt"])
<1>1. Get("mqtt") /\ m \in Messages
  BY GetTyped DEF MqttGet, Modules
<1>2. /\ mqtt.pc = "get" /\ mqtt.msg = NoMsg
      /\ UNCHANGED <<worker, ready, analysis, state, session, polling, published, copies, taken>>
  BY DEF MqttGet, Idle, link
<1>3. m.kind = "READY" <=> m = Ready
  BY <1>1, MessageKinds
<1>4. m.kind = "SEND" <=> m \in Sends
  BY <1>1, MessageKinds
<1>5. CASE state = "INIT" /\ m.kind = "READY"
  <2>1. At("init", m)
    BY <1>5 DEF MqttGet
  <2>2. QED
    BY <1>1, <1>2, <1>3, <1>5, <2>1
<1>6. CASE state = "CONNECTED" /\ m.kind = "SEND"
  <2>1. At("publish", m)
    BY <1>6 DEF MqttGet
  <2>2. QED
    BY <1>1, <1>2, <1>4, <1>6, <2>1
<1>7. CASE state \in {"INIT", "DISCONNECTED"} /\ m.kind = "SEND"
  <2>1. Refuse(m)
    BY <1>7 DEF MqttGet
  <2>2. QED
    BY <1>1, <1>2, <1>4, <1>7, <2>1
<1>8. CASE /\ ~(state = "INIT" /\ m.kind = "READY")
           /\ ~(state = "CONNECTED" /\ m.kind = "SEND")
           /\ ~(state \in {"INIT", "DISCONNECTED"} /\ m.kind = "SEND")
  <2>1. Finish(m) /\ UNCHANGED evq
    BY <1>8 DEF MqttGet
  <2>2. QED
    BY <1>1, <1>2, <1>3, <1>8, <2>1
<1>9. QED
  BY <1>5, <1>6, <1>7, <1>8

(* The thread is done with its message. *)
LEMMA FinishTyped ==
  ASSUME TypeOK, NEW m \in Messages \union {NoMsg}, Finish(m)
  PROVE  /\ mqtt' = Idle /\ mqtt'.pc = "get" /\ mqtt'.msg = NoMsg
         /\ strings' = strings - One(m, Texts) /\ strings' \in Int
BY DEF Finish, Idle, One, TypeOK

(* Taking readings and moving them into the queues. *)
LEMMA TypeQueueing ==
  ASSUME TypeOK, (\E k \in ReadingKinds : Take(k)) \/ Workqueue
  PROVE  TypeOK'
<1>1. ASSUME NEW k \in ReadingKinds, Take(k) PROVE TypeOK'
  <2>1. taken' \in 1 .. MaxReadings /\ taken' = taken + 1
    BY <1>1, CloudAssumption DEF Take, TypeOK, CloudAssumption
  <2>2. Reading(k, taken + 1) \in Messages
    BY <2>1, MessageSets DEF Readings
  <2>3. evq' \in Seq(Messages)
    BY <1>1, <2>2, QueueTypes DEF Take
  <2>4. QED
    BY <1>1, <2>1, <2>3 DEF Take, TypeOK, threads, link, heap
<1>2. CASE HandleEvent
  <2>1. Head(evq) \in Messages /\ evq' \in Seq(Messages)
    BY <1>2, QueueTypes DEF HandleEvent
  <2>2. /\ worker' = [msg |-> Head(evq), to |-> Listeners(Head(evq))]
        /\ copies' = copies + One(Head(evq), Copied)
    BY <1>2 DEF HandleEvent
  <2>3. /\ worker' \in [msg : Messages \union {NoMsg}, to : SUBSET Modules]
        /\ worker'.msg = Head(evq) /\ worker'.to = Listeners(Head(evq)) /\ worker'.to # {}
        /\ worker'.msg # NoMsg
    BY <2>1, <2>2, MessageRoles, MessageSets
  <2>4. copies' \in Int
    BY <2>2 DEF TypeOK, One
  <2>5. QED
    BY <1>2, <2>1, <2>3, <2>4 DEF HandleEvent, TypeOK, threads, link
<1>3. ASSUME NEW q \in Modules, Put(q) PROVE TypeOK'
  <2>1. /\ msgq' \in [Modules -> Seq(Messages)]
        /\ \A p \in Modules : Len(msgq'[p]) <= QueueLen[p]
    BY <1>3, PutTyped
  <2>2. CASE worker' = IdleWorker
    <3>1. /\ worker' \in [msg : Messages \union {NoMsg}, to : SUBSET Modules]
          /\ worker'.msg = NoMsg /\ worker'.to = {}
      BY <2>2 DEF IdleWorker
    <3>2. QED
      BY <1>3, <2>1, <3>1 DEF Put, TypeOK, threads, link, heap
  <2>3. CASE worker' = [msg |-> Ready, to |-> Modules \ {q}]
    <3>1. /\ worker' \in [msg : Messages \union {NoMsg}, to : SUBSET Modules]
          /\ worker'.msg = Ready /\ worker'.to # {} /\ Ready # NoMsg
          /\ worker'.to \subseteq Listeners(Ready)
      BY <2>3, MessageSets, MessageRoles DEF Modules
    <3>2. QED
      BY <1>3, <2>1, <3>1 DEF Put, TypeOK, threads, link, heap
  <2>4. QED
    BY <1>3, <2>2, <2>3, PutTyped
<1>4. QED
  BY <1>1, <1>2, <1>3 DEF Workqueue

LEMMA TypeAnalysis == TypeOK /\ AnalysisThread => TypeOK'
<1>1. ASSUME TypeOK, AnalysisGet PROVE TypeOK'
  <2>1. Get("analysis") /\ "analysis" \in Modules
    BY <1>1 DEF AnalysisGet, Modules
  <2>2. /\ analysis' \in Messages /\ msgq' \in [Modules -> Seq(Messages)]
        /\ \A p \in Modules : Len(msgq'[p]) <= QueueLen[p]
    BY <1>1, <2>1, GetTyped DEF AnalysisGet
  <2>3. QED
    BY <1>1, <2>2 DEF AnalysisGet, TypeOK, link, heap
<1>2. ASSUME TypeOK, Analyse PROVE TypeOK'
  <2>1. copies' \in Int
    BY <1>2, AnalyseCases DEF TypeOK, One
  <2>2. evq' \in Seq(Messages) /\ strings' \in Int
    <3>1. CASE UNCHANGED <<evq, strings>>
      BY <1>2, <3>1 DEF TypeOK
    <3>2. ASSUME NEW s \in Sends, evq' = Append(evq, s), strings' = strings + One(s, Texts)
          PROVE  evq' \in Seq(Messages) /\ strings' \in Int
      BY <1>2, <3>2, QueueTypes, MessageSets DEF TypeOK, One
    <3>3. QED
      BY <1>2, <3>1, <3>2, AnalyseCases
  <2>3. QED
    BY <1>2, <2>1, <2>2, AnalyseCases DEF TypeOK
<1>3. QED
  BY <1>1, <1>2 DEF AnalysisThread

(* The callbacks of the client. *)
LEMMA CallbackTyped ==
  ASSUME TypeOK, ConnectedCb \/ DisconnectedCb
  PROVE  evq' \in Seq(Messages) /\ state' \in States /\ evq' = Append(evq, Notice)
BY QueueTypes, MessageSets DEF ConnectedCb, DisconnectedCb, States

LEMMA TypeMqtt == TypeOK /\ MqttThread => TypeOK'
<1>1. ASSUME TypeOK, MqttGet PROVE TypeOK'
  <2> DEFINE m == Head(msgq["mqtt"])
  <2>1. m \in Messages /\ m # NoMsg /\ m \in Messages \union {NoMsg} /\ "mqtt" \in Modules
    BY <1>1, MqttGetCases, MessageSets DEF Modules
  <2>2. /\ msgq' \in [Modules -> Seq(Messages)]
        /\ \A p \in Modules : Len(msgq'[p]) <= QueueLen[p]
    BY <1>1, <2>1, MqttGetCases, GetTyped
  <2>3. /\ mqtt' \in [pc : {"get", "init", "connect", "publish"}, msg : Messages \union {NoMsg}]
        /\ mqtt'.pc = "get" <=> mqtt'.msg = NoMsg
        /\ mqtt'.pc \in {"init", "connect"} => mqtt'.msg = Ready
        /\ mqtt'.pc = "publish" => mqtt'.msg \in Sends
        /\ evq' \in Seq(Messages) /\ strings' \in Int
    <3>1. CASE m = Ready /\ At("init", m)
      BY <1>1, <2>1, <3>1 DEF At, TypeOK
    <3>2. CASE m \in Sends /\ At("publish", m)
      BY <1>1, <2>1, <3>2 DEF At, TypeOK
    <3>3. CASE Finish(m) /\ (evq' = evq \/ evq' = Append(evq, Notice))
      <4>1. evq' \in Seq(Messages)
        BY <1>1, <3>3, QueueTypes, MessageSets DEF TypeOK
      <4>2. QED
        BY <1>1, <2>1, <3>3, <4>1, FinishTyped DEF Idle
    <3>4. CASE Refuse(m)
      BY <3>3, <3>4 DEF Refuse
    <3>5. QED
      BY <1>1, <3>1, <3>2, <3>3, <3>4, MqttGetCases
  <2>4. QED
    BY <1>1, <2>2, <2>3, MqttGetCases DEF TypeOK
<1>2. ASSUME TypeOK, InitClient PROVE TypeOK'
  <2>1. /\ mqtt' \in [pc : {"get", "init", "connect", "publish"}, msg : Messages \union {NoMsg}]
        /\ mqtt'.pc = "get" <=> mqtt'.msg = NoMsg
        /\ mqtt'.pc \in {"init", "connect"} => mqtt'.msg = Ready
        /\ mqtt'.pc = "publish" => mqtt'.msg \in Sends
    BY <1>2, MessageSets DEF InitClient, TypeOK, Idle
  <2>2. state' \in States
    BY <1>2 DEF InitClient, States
  <2>3. QED
    BY <1>2, <2>1, <2>2 DEF InitClient, TypeOK, link, heap
<1>3. ASSUME TypeOK, Connect PROVE TypeOK'
  BY <1>3 DEF Connect, TypeOK, Idle, heap
<1>4. ASSUME TypeOK, Publish PROVE TypeOK'
  <2>1. mqtt.msg \in Sends /\ mqtt.msg \in Messages
    BY <1>4, MessageSets DEF Publish, TypeOK
  <2>2. mqtt' = Idle /\ strings' \in Int
    BY <1>4, <2>1, FinishTyped DEF Publish
  <2>3. published' \in 0 .. MaxReadings
    BY <1>4, <2>1, MessageKinds, CloudAssumption DEF Publish, TypeOK, CloudAssumption
  <2>4. evq' \in Seq(Messages) /\ state' \in States
    BY <1>4, CallbackTyped DEF Publish, TypeOK
  <2>5. session' \in {"none", "waiting", "refused", "up", "dead", "closed"}
    BY <1>4 DEF Publish, TypeOK
  <2>6. QED
    BY <1>4, <2>2, <2>3, <2>4, <2>5 DEF Publish, TypeOK, Idle
<1>5. QED
  BY <1>1, <1>2, <1>3, <1>4 DEF MqttThread

LEMMA TypeLink == TypeOK /\ (PollThread \/ Network) => TypeOK'
<1>1. ASSUME TypeOK, InputFails \/ Connack PROVE TypeOK'
  BY <1>1, CallbackTyped DEF InputFails, Connack, TypeOK, heap
<1>2. ASSUME TypeOK, PollEnds \/ Lose PROVE TypeOK'
  BY <1>2 DEF PollEnds, Lose, TypeOK, threads, heap
<1>3. QED
  BY <1>1, <1>2 DEF PollThread, Network

LEMMA TypeStep == TypeOK /\ [Next]_vars => TypeOK'
<1>1. TypeOK /\ UNCHANGED vars => TypeOK'
  BY DEF vars, TypeOK
<1>2. QED
  BY <1>1, TypeQueueing, TypeAnalysis, TypeMqtt, TypeLink DEF Next

(***************************************************************************)
(* Type correctness: no queue holds more than it has room for, an event is *)
(* put only into the queues of its listeners, and only a message to send   *)
(* is published.                                                           *)
(***************************************************************************)
THEOREM TypeCorrect == Spec => []TypeOK
<1>1. QED
  BY TypeInit, TypeStep, PTL DEF Spec

-----------------------------------------------------------------------------
(* Ownership *)

(* The counts over the queues, and how Append() and Tail() change them. *)
LEMMA Counts ==
  ASSUME TypeOK, NEW S
  PROVE  /\ CountIn(evq, S) \in Nat
         /\ \A m \in Messages : CountIn(Append(evq, m), S) = CountIn(evq, S) + One(m, S)
         /\ evq # <<>> => /\ CountIn(Tail(evq), S) \in Nat
                          /\ CountIn(evq, S) = CountIn(Tail(evq), S) + One(Head(evq), S)
         /\ \A q \in Modules :
              /\ CountIn(msgq[q], S) \in Nat
              /\ \A m \in Messages : CountIn(Append(msgq[q], m), S) = CountIn(msgq[q], S) + One(m, S)
              /\ msgq[q] # <<>> =>
                   /\ CountIn(Tail(msgq[q]), S) \in Nat
                   /\ CountIn(msgq[q], S) = CountIn(Tail(msgq[q]), S) + One(Head(msgq[q]), S)
<1>1. ASSUME NEW s \in Seq(Messages)
      PROVE  /\ CountIn(s, S) \in Nat
             /\ \A m \in Messages : CountIn(Append(s, m), S) = CountIn(s, S) + One(m, S)
             /\ s # <<>> => /\ CountIn(Tail(s), S) \in Nat
                            /\ CountIn(s, S) = CountIn(Tail(s), S) + One(Head(s), S)
  <2>1. CountIn(s, S) \in Nat
    BY PositionsFinite
  <2>2. \A m \in Messages : CountIn(Append(s, m), S) = CountIn(s, S) + One(m, S)
    BY CountAppend DEF One
  <2>3. ASSUME s # <<>>
        PROVE  /\ CountIn(Tail(s), S) \in Nat
               /\ CountIn(s, S) = CountIn(Tail(s), S) + One(Head(s), S)
    <3>1. Tail(s) \in Seq(Messages)
      BY <2>3
    <3>2. QED
      BY <2>3, <3>1, PositionsFinite, CountTail DEF One
  <2>4. QED
    BY <2>1, <2>2, <2>3
<1>2. evq \in Seq(Messages) /\ \A q \in Modules : msgq[q] \in Seq(Messages)
  BY DEF TypeOK
<1>3. QED
  BY <1>1, <1>2

(* What owns a payload is neither a state event nor a notice. *)
LEMMA OwnersAre ==
  /\ One(NoMsg, Copied) = 0 /\ One(NoMsg, Texts) = 0
  /\ One(Ready, Copied) = 0 /\ One(Ready, Texts) = 0
  /\ One(Notice, Copied) = 0 /\ One(Notice, Texts) = 0
  /\ \A m \in Readings : One(m, Texts) = 0
  /\ \A m \in Sends : One(m, Copied) = 0
<1>1. Ready \notin Readings /\ Notice \notin Readings /\ Ready \notin Sends /\ Notice \notin Sends
  BY MessageSets, MessageKinds DEF Ready, Notice, ReadingKinds
<1>2. \A m \in Readings : m \notin Sends
  <2>1. SUFFICES ASSUME NEW m \in Readings, m \in Sends PROVE FALSE
    OBVIOUS
  <2>2. m.kind = "SEND" /\ m.kind \in ReadingKinds
    BY <2>1, MessageSets, MessageKinds
  <2>3. QED
    BY <2>2 DEF ReadingKinds
<1>3. NoMsg \notin Copied /\ NoMsg \notin Texts
  BY MessageSets
<1>4. QED
  BY <1>1, <1>2, <1>3, MessageSets DEF One

(* A notice owns no string. *)
LEMMA NoticeAppended ==
  ASSUME TypeOK, evq' = evq \/ evq' = Append(evq, Notice)
  PROVE  CountIn(evq', Texts) = CountIn(evq, Texts)
<1>1. CountIn(evq, Texts) \in Nat
  BY Counts
<1>2. CountIn(Append(evq, Notice), Texts) = CountIn(evq, Texts) + One(Notice, Texts)
  BY Counts, MessageSets
<1>3. One(Notice, Texts) = 0
  BY OwnersAre
<1>4. CountIn(Append(evq, Notice), Texts) = CountIn(evq, Texts)
  BY <1>1, <1>2, <1>3
<1>5. QED
  BY <1>4

LEMMA HeapInit == Init => HeapAccounted
<1> SUFFICES ASSUME Init PROVE HeapAccounted
  OBVIOUS
<1>1. TypeOK
  BY TypeInit
<1>2. CountIn(<<>>, Copied) = 0 /\ CountIn(<<>>, Texts) = 0
  BY CountEmpty
<1>3. CountIn(evq, Texts) = 0
  <2>1. evq = Append(<<>>, Ready) /\ <<>> \in Seq(Messages)
    BY DEF Init
  <2>2. CountIn(Append(<<>>, Ready), Texts) = CountIn(<<>>, Texts) + One(Ready, Texts)
    BY <2>1, CountAppend, MessageSets DEF One
  <2>3. QED
    BY <1>2, <2>1, <2>2, OwnersAre
<1>4. msgq["analysis"] = <<>> /\ msgq["mqtt"] = <<>>
  BY DEF Init, Modules
<1>5. QED
  BY <1>2, <1>3, <1>4, OwnersAre DEF Init, HeapAccounted, IdleWorker, Idle

LEMMA HeapQueueing ==
  ASSUME TypeOK, HeapAccounted, (\E k \in ReadingKinds : Take(k)) \/ Workqueue
  PROVE  HeapAccounted'
<1>1. ASSUME NEW k \in ReadingKinds, Take(k) PROVE HeapAccounted'
  <2>1. Reading(k, taken + 1) \in Readings /\ evq' = Append(evq, Reading(k, taken + 1))
    BY <1>1, CloudAssumption DEF Take, TypeOK, CloudAssumption, Readings
  <2>2. CountIn(evq', Texts) = CountIn(evq, Texts)
    BY <2>1, Counts, MessageSets, OwnersAre
  <2>3. QED
    BY <1>1, <2>2 DEF Take, HeapAccounted, threads, heap, link
<1>2. CASE HandleEvent
  <2>1. /\ evq # <<>> /\ evq' = Tail(evq) /\ worker.msg = NoMsg /\ worker'.msg = Head(evq)
        /\ copies' = copies + One(Head(evq), Copied) /\ strings' = strings
        /\ msgq' = msgq /\ analysis' = analysis /\ mqtt' = mqtt
    BY <1>2 DEF HandleEvent, IdleWorker, threads
  <2>2. /\ CountIn(evq, Texts) = CountIn(evq', Texts) + One(Head(evq), Texts)
        /\ CountIn(evq', Texts) \in Nat
    BY <2>1, Counts
  <2>3. /\ CountIn(msgq["analysis"], Copied) \in Nat /\ CountIn(msgq["mqtt"], Texts) \in Nat
        /\ \A m, S : One(m, S) \in Nat
    BY Counts DEF Modules, One
  <2>4. One(worker.msg, Copied) = 0 /\ One(worker.msg, Texts) = 0
    BY <2>1, OwnersAre
  <2>5. /\ copies = CountIn(msgq["analysis"], Copied) + One(analysis, Copied)
        /\ strings = CountIn(evq, Texts) + CountIn(msgq["mqtt"], Texts) + One(mqtt.msg, Texts)
    BY <2>2, <2>3, <2>4 DEF HeapAccounted
  <2>6. copies' = One(worker'.msg, Copied) + CountIn(msgq'["analysis"], Copied) + One(analysis', Copied)
    BY <2>1, <2>3, <2>5
  <2>7. strings' = CountIn(evq', Texts) + One(worker'.msg, Texts)
                   + CountIn(msgq'["mqtt"], Texts) + One(mqtt'.msg, Texts)
    BY <2>1, <2>2, <2>3, <2>5
  <2>8. QED
    BY <2>6, <2>7 DEF HeapAccounted
<1>3. ASSUME NEW q \in Modules, Put(q) PROVE HeapAccounted'
  <2> DEFINE m == worker.msg
  <2>1. /\ evq' = evq /\ copies' = copies /\ strings' = strings
        /\ analysis' = analysis /\ mqtt' = mqtt
    BY <1>3 DEF Put, threads, heap
  <2>2. /\ m \in Messages /\ q \in Listeners(m)
        /\ msgq'[q] = Append(msgq[q], m) /\ \A p \in Modules \ {q} : msgq'[p] = msgq[p]
        /\ worker'.msg = NoMsg \/ (m = Ready /\ worker'.msg = Ready)
    BY <1>3, PutTyped DEF IdleWorker
  <2>3. m = Ready \/ (m \in Readings /\ q = "analysis") \/ (m \in Sends \union {Notice} /\ q = "mqtt")
    BY <2>2, MessageRoles DEF Messages
  <2>4. /\ One(m, Copied) + CountIn(msgq["analysis"], Copied)
             = One(worker'.msg, Copied) + CountIn(msgq'["analysis"], Copied)
        /\ One(m, Texts) + CountIn(msgq["mqtt"], Texts)
             = One(worker'.msg, Texts) + CountIn(msgq'["mqtt"], Texts)
    <3>1. /\ \A p \in Modules : CountIn(msgq[p], Copied) \in Nat /\ CountIn(msgq[p], Texts) \in Nat
          /\ CountIn(msgq'[q], Copied) = CountIn(msgq[q], Copied) + One(m, Copied)
          /\ CountIn(msgq'[q], Texts) = CountIn(msgq[q], Texts) + One(m, Texts)
      BY <2>2, Counts
    <3>2. CASE m = Ready
      <4>1. /\ One(m, Copied) = 0 /\ One(m, Texts) = 0
            /\ One(worker'.msg, Copied) = 0 /\ One(worker'.msg, Texts) = 0
        BY <2>2, <3>2, OwnersAre
      <4>2. /\ CountIn(msgq'[q], Copied) = CountIn(msgq[q], Copied)
            /\ CountIn(msgq'[q], Texts) = CountIn(msgq[q], Texts)
        BY <3>1, <4>1
      <4>3. /\ CountIn(msgq'["analysis"], Copied) = CountIn(msgq["analysis"], Copied)
            /\ CountIn(msgq'["mqtt"], Texts) = CountIn(msgq["mqtt"], Texts)
        BY <2>2, <4>2 DEF Modules
      <4>4. QED
        BY <4>1, <4>3
    <3>3. CASE m \in Readings /\ q = "analysis"
      <4>1. worker'.msg = NoMsg /\ One(m, Texts) = 0 /\ msgq'["mqtt"] = msgq["mqtt"]
        <5>1. m # Ready
          BY <3>3, MessageSets, MessageKinds DEF Ready, ReadingKinds
        <5>2. QED
          BY <2>2, <3>3, <5>1, OwnersAre DEF Modules
      <4>2. QED
        BY <3>1, <3>3, <4>1, OwnersAre DEF Modules, One
    <3>4. CASE m \in Sends \union {Notice} /\ q = "mqtt"
      <4>1. worker'.msg = NoMsg /\ One(m, Copied) = 0 /\ msgq'["analysis"] = msgq["analysis"]
        <5>1. m # Ready
          BY <3>4, MessageSets, MessageKinds DEF Ready, Notice
        <5>2. QED
          BY <2>2, <3>4, <5>1, OwnersAre DEF Modules
      <4>2. QED
        BY <3>1, <3>4, <4>1, OwnersAre DEF Modules, One
    <3>5. QED
      BY <2>3, <3>2, <3>3, <3>4
  <2>5. /\ CountIn(msgq["analysis"], Copied) \in Nat /\ CountIn(msgq["mqtt"], Texts) \in Nat
        /\ CountIn(evq, Texts) \in Nat /\ \A x, S : One(x, S) \in Nat
    BY Counts DEF Modules, One
  <2>6. CountIn(msgq'["analysis"], Copied) \in Int /\ CountIn(msgq'["mqtt"], Texts) \in Int
    <3>1. TypeOK'
      BY <1>3, TypeQueueing DEF Workqueue
    <3>2. \A p \in Modules : msgq'[p] \in Seq(Messages)
      BY <3>1 DEF TypeOK
    <3>3. QED
      BY <3>2, PositionsFinite DEF Modules
  <2>7. QED
    BY <2>1, <2>4, <2>5, <2>6 DEF HeapAccounted
<1>4. QED
  BY <1>1, <1>2, <1>3 DEF Workqueue

LEMMA HeapThreads ==
  ASSUME TypeOK, HeapAccounted, AnalysisThread \/ MqttThread
  PROVE  HeapAccounted'
<1>0. /\ CountIn(msgq["analysis"], Copied) \in Nat /\ CountIn(msgq["mqtt"], Texts) \in Nat
      /\ CountIn(evq, Texts) \in Nat /\ \A x, S : One(x, S) \in Nat
      /\ copies \in Int /\ strings \in Int
  BY Counts DEF Modules, One, TypeOK
<1>1. CASE AnalysisGet
  <2>1. /\ evq' = evq /\ worker' = worker /\ mqtt' = mqtt /\ copies' = copies /\ strings' = strings
        /\ analysis = NoMsg /\ analysis' = Head(msgq["analysis"]) /\ Get("analysis")
    BY <1>1 DEF AnalysisGet, heap
  <2>2. /\ msgq["analysis"] # <<>> /\ msgq'["analysis"] = Tail(msgq["analysis"])
        /\ msgq'["mqtt"] = msgq["mqtt"]
    BY <2>1, GetTyped DEF Modules
  <2>3. /\ CountIn(msgq'["analysis"], Copied) \in Nat
        /\ CountIn(msgq["analysis"], Copied) = CountIn(msgq'["analysis"], Copied) + One(analysis', Copied)
    BY <2>1, <2>2, Counts DEF Modules
  <2>4. QED
    BY <1>0, <2>1, <2>2, <2>3, OwnersAre DEF HeapAccounted
<1>2. CASE Analyse
  <2>1. /\ analysis' = NoMsg /\ copies' = copies - One(analysis, Copied)
        /\ worker' = worker /\ msgq' = msgq /\ mqtt' = mqtt
    BY <1>2, AnalyseCases
  <2>2. copies' = One(worker'.msg, Copied) + CountIn(msgq'["analysis"], Copied) + One(analysis', Copied)
    BY <1>0, <2>1, OwnersAre DEF HeapAccounted
  <2>3. strings' - CountIn(evq', Texts) = strings - CountIn(evq, Texts) /\ CountIn(evq', Texts) \in Nat
    <3>1. CASE UNCHANGED <<evq, strings>>
      BY <1>0, <3>1
    <3>2. ASSUME NEW s \in Sends, evq' = Append(evq, s), strings' = strings + One(s, Texts)
          PROVE  strings' - CountIn(evq', Texts) = strings - CountIn(evq, Texts) /\ CountIn(evq', Texts) \in Nat
      <4>1. CountIn(evq', Texts) = CountIn(evq, Texts) + One(s, Texts)
        BY <3>2, Counts, MessageSets
      <4>2. QED
        BY <1>0, <3>2, <4>1
    <3>3. QED
      BY <1>2, <3>1, <3>2, AnalyseCases
  <2>4. strings' = CountIn(evq', Texts) + One(worker.msg, Texts)
                   + CountIn(msgq["mqtt"], Texts) + One(mqtt.msg, Texts)
    <3>1. strings = CountIn(evq, Texts) + One(worker.msg, Texts)
                    + CountIn(msgq["mqtt"], Texts) + One(mqtt.msg, Texts)
      BY DEF HeapAccounted
    <3>2. /\ One(worker.msg, Texts) \in Nat /\ One(mqtt.msg, Texts) \in Nat
          /\ strings' \in Int
      <4>1. TypeOK'
        BY <1>2, TypeAnalysis DEF AnalysisThread
      <4>2. QED
        BY <4>1 DEF TypeOK, One
    <3>3. QED
      BY <1>0, <2>3, <3>1, <3>2
  <2>5. QED
    BY <2>1, <2>2, <2>4 DEF HeapAccounted
<1>3. CASE MqttGet
  <2> DEFINE m == Head(msgq["mqtt"])
  <2>1. /\ m \in Messages /\ mqtt.msg = NoMsg /\ Get("mqtt")
        /\ UNCHANGED <<worker, analysis, copies>>
    BY <1>3, MqttGetCases
  <2>2. /\ msgq["mqtt"] # <<>> /\ msgq'["mqtt"] = Tail(msgq["mqtt"])
        /\ msgq'["analysis"] = msgq["analysis"]
    BY <2>1, GetTyped DEF Modules
  <2>3. /\ CountIn(msgq'["mqtt"], Texts) \in Nat
        /\ CountIn(msgq["mqtt"], Texts) = CountIn(msgq'["mqtt"], Texts) + One(m, Texts)
    BY <2>2, Counts DEF Modules
  <2>4. strings' = CountIn(evq', Texts) + One(worker.msg, Texts)
                   + CountIn(msgq'["mqtt"], Texts) + One(mqtt'.msg, Texts)
    <3>1. ASSUME NEW pc, At(pc, m)
          PROVE  strings' = CountIn(evq', Texts) + One(worker.msg, Texts)
                            + CountIn(msgq'["mqtt"], Texts) + One(mqtt'.msg, Texts)
      <4>1. evq' = evq /\ strings' = strings /\ mqtt'.msg = m
        BY <3>1 DEF At
      <4>2. QED
        <5>1. One(mqtt.msg, Texts) = 0
          BY <2>1, OwnersAre
        <5>2. strings = CountIn(evq, Texts) + One(worker.msg, Texts) + CountIn(msgq["mqtt"], Texts)
          BY <1>0, <5>1 DEF HeapAccounted
        <5>3. QED
          BY <1>0, <2>3, <4>1, <5>2
    <3>2. CASE Finish(m) /\ (evq' = evq \/ evq' = Append(evq, Notice))
      <4>1. strings' = strings - One(m, Texts) /\ mqtt'.msg = NoMsg
        BY <2>1, <3>2, FinishTyped
      <4>2. CountIn(evq', Texts) = CountIn(evq, Texts)
        BY <3>2, NoticeAppended
      <4>3. QED
        BY <1>0, <2>1, <2>3, <4>1, <4>2, OwnersAre DEF HeapAccounted
    <3>3. CASE Refuse(m)
      BY <3>2, <3>3 DEF Refuse
    <3>4. QED
      BY <1>3, <3>1, <3>2, <3>3, MqttGetCases
  <2>5. QED
    BY <2>1, <2>2, <2>4 DEF HeapAccounted
<1>4. CASE InitClient
  <2>1. mqtt.msg = Ready /\ mqtt'.msg \in {Ready, NoMsg}
    BY <1>4 DEF InitClient, TypeOK, Idle
  <2>2. QED
    BY <1>4, <2>1, OwnersAre DEF InitClient, HeapAccounted, heap
<1>5. CASE Connect
  <2>1. mqtt.msg = Ready /\ mqtt'.msg = NoMsg
    BY <1>5 DEF Connect, TypeOK, Idle
  <2>2. QED
    BY <1>5, <2>1, OwnersAre DEF Connect, HeapAccounted, heap
<1>6. CASE Publish
  <2>1. /\ mqtt'.msg = NoMsg /\ strings' = strings - One(mqtt.msg, Texts)
        /\ UNCHANGED <<worker, msgq, analysis, copies>>
    BY <1>6 DEF Publish, Finish, Idle
  <2>2. CountIn(evq', Texts) = CountIn(evq, Texts)
    <3>1. evq' = evq \/ evq' = Append(evq, Notice)
      BY <1>6 DEF Publish, DisconnectedCb
    <3>2. QED
      BY <3>1, NoticeAppended
  <2>3. QED
    BY <1>0, <2>1, <2>2, OwnersAre DEF HeapAccounted
<1>7. QED
  BY <1>1, <1>2, <1>3, <1>4, <1>5, <1>6 DEF AnalysisThread, MqttThread

LEMMA HeapLink ==
  ASSUME TypeOK, HeapAccounted, PollThread \/ Network
  PROVE  HeapAccounted'
<1>1. CountIn(evq', Texts) = CountIn(evq, Texts)
  <2>1. evq' = evq \/ evq' = Append(evq, Notice)
    BY DEF PollThread, Network, InputFails, PollEnds, Connack, Lose, ConnectedCb, DisconnectedCb
  <2>2. QED
    BY <2>1, NoticeAppended
<1>2. UNCHANGED <<worker, msgq, analysis, mqtt, copies, strings>>
  BY DEF PollThread, Network, InputFails, PollEnds, Connack, Lose, threads, heap
<1>3. QED
  BY <1>1, <1>2 DEF HeapAccounted

(***************************************************************************)
(* Ownership: every string and every copy of a heat map is owned by exactly *)
(* one event, message or thread, for any lengths of the two queues.        *)
(***************************************************************************)
THEOREM HeapCorrect == Spec => []HeapAccounted
<1>1. TypeOK /\ HeapAccounted /\ [Next]_vars => HeapAccounted'
  <2>1. HeapAccounted /\ UNCHANGED vars => HeapAccounted'
    BY DEF vars, HeapAccounted
  <2>2. QED
    BY <2>1, HeapQueueing, HeapThreads, HeapLink DEF Next
<1>2. QED
  BY <1>1, HeapInit, TypeCorrect, PTL DEF Spec

-----------------------------------------------------------------------------
(* The state of the connection *)

(***************************************************************************)
(* StateFollowsSession, strengthened by where the thread is that makes the *)
(* connection, and by the states in which a session can be broken.         *)
(***************************************************************************)
ConnInv ==
  /\ StateFollowsSession
  /\ session = "dead" => state \in {"CONNECTED", "DISCONNECTED"}
  /\ mqtt.pc = "init" => state = "INIT"
  /\ mqtt.pc = "connect" => state = "DISCONNECTED" /\ session = "none"

LEMMA ConnStep == TypeOK /\ ConnInv /\ [Next]_vars => ConnInv'
<1> SUFFICES ASSUME TypeOK, ConnInv, [Next]_vars PROVE ConnInv'
  OBVIOUS
<1> USE DEF ConnInv, StateFollowsSession
<1>1. CASE UNCHANGED <<state, session, mqtt>>
  BY <1>1
<1>2. CASE MqttGet
  <2>1. UNCHANGED <<state, session>>
    BY <1>2, MqttGetCases
  <2>2. mqtt'.pc \in {"get", "publish"} \/ (mqtt'.pc = "init" /\ state = "INIT")
    BY <1>2, MqttGetCases DEF At, Finish, Refuse, Idle
  <2>3. QED
    BY <2>1, <2>2
<1>3. CASE InitClient
  <2>1. state = "INIT" /\ session = "none" /\ session' = session
    BY <1>3 DEF InitClient, TypeOK, link
  <2>2. \/ state' = "ERROR" /\ mqtt'.pc = "get"
        \/ state' = "DISCONNECTED" /\ mqtt'.pc = "connect"
    BY <1>3 DEF InitClient, Idle, TypeOK
  <2>3. QED
    BY <2>1, <2>2
<1>4. CASE Connect
  BY <1>4 DEF Connect, Idle
<1>5. CASE Publish
  BY <1>5 DEF Publish, Finish, Idle, DisconnectedCb
<1>6. CASE PollThread
  BY <1>6 DEF PollThread, InputFails, PollEnds, DisconnectedCb, threads
<1>7. CASE Network
  BY <1>7 DEF Network, Connack, Lose, ConnectedCb, threads
<1>8. ASSUME NEW k \in ReadingKinds, Take(k) PROVE UNCHANGED <<state, session, mqtt>>
  BY <1>8 DEF Take, threads, link
<1>9. ASSUME Workqueue PROVE UNCHANGED <<state, session, mqtt>>
  BY <1>9 DEF Workqueue, HandleEvent, Put, threads, link
<1>10. ASSUME AnalysisThread PROVE UNCHANGED <<state, session, mqtt>>
  BY <1>10 DEF AnalysisThread, AnalysisGet, Analyse, link
<1>11. ASSUME UNCHANGED vars PROVE UNCHANGED <<state, session, mqtt>>
  BY <1>11 DEF vars
<1>12. QED
  BY <1>1, <1>2, <1>3, <1>4, <1>5, <1>6, <1>7, <1>8, <1>9, <1>10, <1>11 DEF Next, MqttThread

LEMMA ConnInvariant == Spec => []ConnInv
<1>1. Init => ConnInv
  BY DEF Init, ConnInv, StateFollowsSession, Idle
<1>2. QED
  BY <1>1, ConnStep, TypeCorrect, PTL DEF Spec

(***************************************************************************)
(* The state follows the session, although the poll thread and the thread  *)
(* of the module both write it: messages are refused only while none could *)
(* be sent.                                                                *)
(***************************************************************************)
THEOREM StateCorrect == Spec => []StateFollowsSession
<1>1. ConnInv => StateFollowsSession
  BY DEF ConnInv
<1>2. QED
  BY <1>1, ConnInvariant, PTL

-----------------------------------------------------------------------------
(* What the error state frees *)

(* The notices on their way to the MQTT module. *)
Notices == CountIn(evq, {Notice}) + One(worker.msg, {Notice}) + CountIn(msgq["mqtt"], {Notice})

(* The READY of main is before everything else the MQTT module gets. *)
ReadyFirst ==
  \/ mqtt.pc = "init"
  \/ /\ mqtt.pc = "get"
     /\ \/ msgq["mqtt"] # <<>> /\ Head(msgq["mqtt"]) = Ready
        \/ msgq["mqtt"] = <<>> /\ worker.msg = Ready /\ "mqtt" \in worker.to
        \/ msgq["mqtt"] = <<>> /\ worker = IdleWorker /\ evq # <<>> /\ Head(evq) = Ready

(***************************************************************************)
(* Before the client is set up, and when that failed, nobody has submitted *)
(* a notice: there was no session, and no message was refused before READY.*)
(***************************************************************************)
StartInv ==
  /\ state \in {"INIT", "ERROR"} => Notices = 0 /\ mqtt.pc \in {"get", "init"}
  /\ state = "INIT" => ReadyFirst

(* The notices that each step leaves. *)
LEMMA NoticesKept ==
  ASSUME TypeOK, ConnInv, StartInv, [Next]_vars, state \in {"INIT", "ERROR"}, Notices = 0
  PROVE  Notices' = 0
<1>0. /\ CountIn(evq, {Notice}) = 0 /\ worker.msg # Notice /\ CountIn(msgq["mqtt"], {Notice}) = 0
      /\ session = "none"
  <2>1. CountIn(evq, {Notice}) \in Nat /\ CountIn(msgq["mqtt"], {Notice}) \in Nat
    BY Counts DEF Modules
  <2>2. CountIn(evq, {Notice}) = 0 /\ One(worker.msg, {Notice}) = 0 /\ CountIn(msgq["mqtt"], {Notice}) = 0
    BY <2>1 DEF Notices, One
  <2>3. session = "none"
    BY DEF ConnInv, StateFollowsSession, TypeOK
  <2>4. QED
    BY <2>2, <2>3 DEF One
<1>1. SUFFICES /\ CountIn(evq', {Notice}) = 0 /\ worker'.msg # Notice
               /\ CountIn(msgq'["mqtt"], {Notice}) = 0
  BY DEF Notices, One
<1>2. ASSUME NEW m \in Messages, m # Notice PROVE CountIn(Append(evq, m), {Notice}) = 0
  BY <1>0, <1>2, Counts DEF One
<1>3. /\ evq # <<>> => Head(evq) # Notice /\ CountIn(Tail(evq), {Notice}) = 0
      /\ msgq["mqtt"] # <<>> => CountIn(Tail(msgq["mqtt"]), {Notice}) = 0
  <2>1. "mqtt" \in Modules
    BY DEF Modules
  <2>2. evq # <<>> => Head(evq) # Notice /\ CountIn(Tail(evq), {Notice}) = 0
    BY <1>0, Counts DEF One
  <2>3. msgq["mqtt"] # <<>> => CountIn(Tail(msgq["mqtt"]), {Notice}) = 0
    BY <1>0, <2>1, Counts DEF One
  <2>4. QED
    BY <2>2, <2>3
<1>4. NoMsg # Notice /\ Ready # Notice
  BY MessageSets DEF Ready, Notice
<1>5. ASSUME NEW k \in ReadingKinds, Take(k) PROVE <1>1!1
  <2>1. Reading(k, taken + 1) \in Readings
    BY <1>5, CloudAssumption DEF Take, TypeOK, CloudAssumption, Readings
  <2>2. Reading(k, taken + 1) \in Messages /\ Reading(k, taken + 1) # Notice
    BY <2>1, MessageSets, MessageKinds DEF Notice, ReadingKinds
  <2>3. QED
    BY <1>0, <1>2, <1>5, <2>2 DEF Take
<1>6. CASE HandleEvent
  BY <1>0, <1>3, <1>6 DEF HandleEvent
<1>7. ASSUME NEW q \in Modules, Put(q) PROVE <1>1!1
  <2>1. evq' = evq /\ worker'.msg # Notice
    BY <1>4, <1>7, PutTyped DEF Put, IdleWorker
  <2>2. CountIn(msgq'["mqtt"], {Notice}) = 0
    <3>1. CASE q = "mqtt"
      <4>1. msgq'[q] = Append(msgq[q], worker.msg) /\ worker.msg \in Messages
        BY <1>7, PutTyped
      <4>2. CountIn(msgq'[q], {Notice}) = CountIn(msgq[q], {Notice}) + One(worker.msg, {Notice})
        BY <4>1, Counts
      <4>3. QED
        BY <1>0, <3>1, <4>2 DEF One
    <3>2. CASE q # "mqtt"
      BY <1>0, <1>7, <3>2, PutTyped DEF Modules
    <3>3. QED
      BY <3>1, <3>2
  <2>3. QED
    BY <1>0, <2>1, <2>2
<1>8. CASE AnalysisGet
  <2>1. Get("analysis") /\ evq' = evq /\ worker' = worker
    BY <1>8 DEF AnalysisGet
  <2>2. msgq'["mqtt"] = msgq["mqtt"]
    BY <2>1, GetTyped DEF Modules
  <2>3. QED
    BY <1>0, <2>1, <2>2
<1>9. CASE Analyse
  <2>1. worker' = worker /\ msgq' = msgq
    BY <1>9, AnalyseCases
  <2>2. ASSUME NEW s \in Sends, evq' = Append(evq, s) PROVE CountIn(evq', {Notice}) = 0
    <3>1. s \in Messages /\ s # Notice
      BY MessageSets, MessageKinds DEF Notice
    <3>2. QED
      BY <1>2, <2>2, <3>1
  <2>3. CountIn(evq', {Notice}) = 0
    BY <1>0, <1>9, <2>2, AnalyseCases
  <2>4. QED
    BY <1>0, <2>1, <2>3
<1>10. CASE MqttGet
  <2> DEFINE m == Head(msgq["mqtt"])
  <2>1. worker' = worker /\ Get("mqtt")
    BY <1>10, MqttGetCases
  <2>2. msgq["mqtt"] # <<>> /\ msgq'["mqtt"] = Tail(msgq["mqtt"])
    BY <2>1, GetTyped DEF Modules
  <2>3. evq' = evq
    <3>1. ~(state \in {"INIT", "DISCONNECTED"} /\ m \in Sends)
      <4>1. state = "INIT" => m = Ready
        BY <1>10, <2>2, MqttGetCases DEF StartInv, ReadyFirst
      <4>2. Ready \notin Sends
        BY MessageSets, MessageKinds DEF Ready
      <4>3. QED
        BY <4>1, <4>2
    <3>2. QED
      BY <1>10, <3>1, MqttGetCases DEF At
  <2>4. QED
    BY <1>0, <1>3, <2>1, <2>2, <2>3
<1>11. CASE InitClient
  BY <1>0, <1>11 DEF InitClient
<1>12. CASE Connect \/ Publish
  BY <1>12 DEF Connect, Publish, StartInv
<1>13. CASE PollThread \/ Network
  BY <1>0, <1>13 DEF PollThread, Network, InputFails, PollEnds, Connack, Lose
<1>14. CASE UNCHANGED vars
  BY <1>0, <1>14 DEF vars
<1>15. QED
  BY <1>5, <1>6, <1>7, <1>8, <1>9, <1>10, <1>11, <1>12, <1>13, <1>14
     DEF Next, Workqueue, AnalysisThread, MqttThread

(* READY stays in front until the thread of the module takes it. *)
LEMMA ReadyStaysFirst ==
  ASSUME TypeOK, StartInv, [Next]_vars, state = "INIT", state' = "INIT"
  PROVE  ReadyFirst'
<1>0. ReadyFirst
  BY DEF StartInv
<1>1. ASSUME UNCHANGED <<worker, msgq, mqtt>>,
             \/ evq' = evq
             \/ \E m \in Messages : evq' = Append(evq, m)
      PROVE  ReadyFirst'
  <2>1. evq # <<>> => evq' # <<>> /\ Head(evq') = Head(evq)
    BY <1>1 DEF TypeOK
  <2>2. QED
    BY <1>0, <1>1, <2>1 DEF ReadyFirst
<1>2. ASSUME NEW k \in ReadingKinds, Take(k) PROVE ReadyFirst'
  <2>1. Reading(k, taken + 1) \in Messages
    BY <1>2, CloudAssumption, MessageSets DEF Take, TypeOK, CloudAssumption, Readings
  <2>2. QED
    BY <1>1, <1>2, <2>1 DEF Take, threads
<1>3. CASE HandleEvent
  <2>1. /\ worker = IdleWorker /\ worker.to = {} /\ evq # <<>>
        /\ UNCHANGED <<msgq, mqtt>>
        /\ worker' = [msg |-> Head(evq), to |-> Listeners(Head(evq))]
    BY <1>3 DEF HandleEvent, IdleWorker, threads
  <2>2. Head(evq) = Ready => worker'.msg = Ready /\ "mqtt" \in worker'.to
    BY <2>1, MessageSets, MessageRoles DEF Modules
  <2>3. QED
    BY <1>0, <2>1, <2>2 DEF ReadyFirst
<1>4. ASSUME NEW q \in Modules, Put(q) PROVE ReadyFirst'
  <2>1. UNCHANGED <<evq, mqtt>> /\ q \in worker.to
    BY <1>4 DEF Put, threads
  <2>2. worker # IdleWorker
    BY <2>1 DEF IdleWorker
  <2>3. /\ worker.msg \in Messages
        /\ msgq'[q] = Append(msgq[q], worker.msg) /\ msgq[q] \in Seq(Messages)
        /\ \A p \in Modules \ {q} : msgq'[p] = msgq[p]
        /\ \/ worker' = IdleWorker /\ worker.to = {q}
           \/ worker' = [msg |-> Ready, to |-> Modules \ {q}]
    BY <1>4, PutTyped, QueueTypes
  <2>4. CASE mqtt.pc = "init"
    BY <2>1, <2>4 DEF ReadyFirst
  <2>5. CASE mqtt.pc = "get" /\ msgq["mqtt"] # <<>> /\ Head(msgq["mqtt"]) = Ready
    <3>1. msgq'["mqtt"] # <<>> /\ Head(msgq'["mqtt"]) = Ready
      BY <2>3, <2>5 DEF Modules
    <3>2. QED
      BY <2>1, <2>5, <3>1 DEF ReadyFirst
  <2>6. CASE mqtt.pc = "get" /\ msgq["mqtt"] = <<>> /\ worker.msg = Ready /\ "mqtt" \in worker.to
    <3>1. CASE q = "mqtt"
      <4>1. msgq'["mqtt"] # <<>> /\ Head(msgq'["mqtt"]) = Ready
        BY <2>3, <2>6, <3>1
      <4>2. QED
        BY <2>1, <2>6, <4>1 DEF ReadyFirst
    <3>2. CASE q = "analysis"
      <4>1. worker' = [msg |-> Ready, to |-> {"mqtt"}] /\ msgq'["mqtt"] = <<>>
        BY <2>3, <2>6, <3>2 DEF Modules
      <4>2. QED
        BY <2>1, <2>6, <4>1 DEF ReadyFirst
    <3>3. QED
      BY <3>1, <3>2 DEF Modules
  <2>7. QED
    BY <1>0, <2>2, <2>4, <2>5, <2>6 DEF ReadyFirst
<1>5. CASE AnalysisGet
  <2>1. UNCHANGED <<evq, worker, mqtt>> /\ msgq'["mqtt"] = msgq["mqtt"]
    BY <1>5, GetTyped DEF AnalysisGet, Modules
  <2>2. QED
    BY <1>0, <2>1 DEF ReadyFirst
<1>6. CASE Analyse
  <2>1. UNCHANGED <<worker, msgq, mqtt>>
    BY <1>6, AnalyseCases
  <2>2. evq' = evq \/ \E m \in Messages : evq' = Append(evq, m)
    BY <1>6, AnalyseCases, MessageSets
  <2>3. QED
    BY <1>1, <2>1, <2>2
<1>7. CASE MqttGet
  <2>1. msgq["mqtt"] # <<>> /\ mqtt.pc = "get"
    BY <1>7, MqttGetCases DEF Get
  <2>2. Head(msgq["mqtt"]) = Ready
    BY <1>0, <2>1 DEF ReadyFirst
  <2>3. Ready \notin Sends
    BY MessageSets, MessageKinds DEF Ready
  <2>4. At("init", Ready)
    BY <1>7, <2>2, <2>3, MqttGetCases
  <2>5. QED
    BY <2>4 DEF At, ReadyFirst
<1>8. CASE InitClient \/ Connect \/ Publish
  BY <1>8 DEF InitClient, Connect, Publish, StartInv
<1>9. CASE PollThread \/ Network
  <2>1. UNCHANGED <<worker, msgq, mqtt>>
    BY <1>9 DEF PollThread, Network, InputFails, PollEnds, Connack, Lose, threads
  <2>2. evq' = evq \/ \E m \in Messages : evq' = Append(evq, m)
    BY <1>9, MessageSets DEF PollThread, Network, InputFails, PollEnds, Connack, Lose, ConnectedCb, DisconnectedCb
  <2>3. QED
    BY <1>1, <2>1, <2>2
<1>10. CASE UNCHANGED vars
  BY <1>0, <1>10 DEF vars, ReadyFirst
<1>11. QED
  BY <1>2, <1>3, <1>4, <1>5, <1>6, <1>7, <1>8, <1>9, <1>10
     DEF Next, Workqueue, AnalysisThread, MqttThread

(* Nothing returns to the state before the client is set up. *)
LEMMA NoReturn ==
  ASSUME TypeOK, ConnInv, [Next]_vars, state' \in {"INIT", "ERROR"}
  PROVE  /\ state = "INIT" \/ (state = "ERROR" /\ state' = "ERROR")
         /\ state' = state \/ InitClient
<1>1. \/ UNCHANGED state
      \/ InitClient
      \/ ConnectedCb \/ DisconnectedCb
  <2>1. ASSUME NEW k \in ReadingKinds, Take(k) PROVE UNCHANGED state
    BY <2>1 DEF Take, threads
  <2>2. ASSUME Workqueue \/ AnalysisThread PROVE UNCHANGED state
    BY <2>2 DEF Workqueue, HandleEvent, Put, AnalysisThread, AnalysisGet, Analyse, threads
  <2>3. ASSUME MqttGet \/ Connect PROVE UNCHANGED state
    BY <2>3 DEF MqttGet, Connect
  <2>4. ASSUME Publish PROVE UNCHANGED state \/ DisconnectedCb
    BY <2>4 DEF Publish
  <2>5. ASSUME PollThread \/ Network PROVE UNCHANGED state \/ ConnectedCb \/ DisconnectedCb
    BY <2>5 DEF PollThread, Network, InputFails, PollEnds, Connack, Lose, threads
  <2>6. ASSUME UNCHANGED vars PROVE UNCHANGED state
    BY <2>6 DEF vars
  <2>7. QED
    BY <2>1, <2>2, <2>3, <2>4, <2>5, <2>6 DEF Next, MqttThread
<1>2. ~(ConnectedCb \/ DisconnectedCb)
  BY DEF ConnectedCb, DisconnectedCb
<1>3. ASSUME InitClient PROVE state = "INIT"
  BY <1>3 DEF InitClient, ConnInv
<1>4. QED
  BY <1>1, <1>2, <1>3

LEMMA StartStep ==
  ASSUME TypeOK, ConnInv, StartInv, [Next]_vars
  PROVE  StartInv'
<1>1. ASSUME state' \in {"INIT", "ERROR"} PROVE Notices' = 0 /\ mqtt'.pc \in {"get", "init"}
  <2>1. state \in {"INIT", "ERROR"}
    BY <1>1, NoReturn
  <2>2. Notices' = 0
    BY <2>1, NoticesKept DEF StartInv
  <2>3. mqtt'.pc \in {"get", "init"}
    <3>1. CASE InitClient
      BY <1>1, <3>1 DEF InitClient, Idle
    <3>2. CASE state = "INIT" /\ state' = "INIT"
      BY <3>2, ReadyStaysFirst DEF ReadyFirst
    <3>3. CASE state = "ERROR" /\ state' = "ERROR"
      <4>1. mqtt.pc = "get"
        BY <3>3 DEF StartInv, ConnInv
      <4>2. mqtt' = mqtt \/ MqttGet
        <5>1. ASSUME NEW k \in ReadingKinds, Take(k) PROVE mqtt' = mqtt
          BY <5>1 DEF Take, threads
        <5>2. ASSUME Workqueue \/ AnalysisThread PROVE mqtt' = mqtt
          BY <5>2 DEF Workqueue, HandleEvent, Put, AnalysisThread, AnalysisGet, Analyse, threads
        <5>3. ASSUME InitClient \/ Connect \/ Publish PROVE FALSE
          BY <4>1, <5>3 DEF InitClient, Connect, Publish
        <5>4. ASSUME PollThread \/ Network PROVE mqtt' = mqtt
          BY <5>4 DEF PollThread, Network, InputFails, PollEnds, Connack, Lose, threads
        <5>5. ASSUME UNCHANGED vars PROVE mqtt' = mqtt
          BY <5>5 DEF vars
        <5>6. QED
          BY <5>1, <5>2, <5>3, <5>4, <5>5 DEF Next, MqttThread
      <4>3. CASE MqttGet
        BY <3>3, <4>3, MqttGetCases DEF Finish, Idle
      <4>4. QED
        BY <4>1, <4>2, <4>3
    <3>4. QED
      BY <1>1, <3>1, <3>2, <3>3, NoReturn
  <2>4. QED
    BY <2>2, <2>3
<1>2. ASSUME state' = "INIT" PROVE ReadyFirst'
  <2>1. state = "INIT"
    BY <1>2, NoReturn
  <2>2. QED
    BY <1>2, <2>1, ReadyStaysFirst
<1>3. QED
  BY <1>1, <1>2 DEF StartInv

(***************************************************************************)
(* In STATE_ERROR the module frees the message of any event it gets: none  *)
(* that is on its way has data that was never initialised.                 *)
(***************************************************************************)
THEOREM ErrorCorrect == Spec => []ErrorFreesOnlyStrings
<1>1. Init => StartInv
  <2> SUFFICES ASSUME Init PROVE StartInv
    OBVIOUS
  <2>1. mqtt.pc = "get" /\ msgq["mqtt"] = <<>> /\ evq = Append(<<>>, Ready) /\ worker.msg = NoMsg
    BY DEF Init, Idle, IdleWorker, Modules
  <2>2. NoMsg # Notice /\ Ready # Notice
    BY MessageSets DEF Ready, Notice
  <2>3. CountIn(<<>>, {Notice}) = 0
    BY CountEmpty
  <2>4. CountIn(evq, {Notice}) = 0
    <3>1. <<>> \in Seq(Messages) /\ Ready \in Messages
      BY MessageSets
    <3>2. CountIn(Append(<<>>, Ready), {Notice}) = CountIn(<<>>, {Notice})
                                                   + (IF Ready \in {Notice} THEN 1 ELSE 0)
      BY <3>1, CountAppend
    <3>3. QED
      BY <2>1, <2>2, <2>3, <3>2
  <2>5. Notices = 0
    BY <2>1, <2>2, <2>3, <2>4 DEF Notices, One
  <2>6. ReadyFirst
    BY <2>1 DEF Init, ReadyFirst
  <2>7. QED
    BY <2>1, <2>5, <2>6 DEF StartInv
<1>2. TypeOK /\ ConnInv /\ StartInv /\ [Next]_vars => StartInv'
  BY StartStep
<1>3. StartInv => ErrorFreesOnlyStrings
  BY DEF StartInv, Notices, ErrorFreesOnlyStrings
<1>4. QED
  BY <1>1, <1>2, <1>3, TypeCorrect, ConnInvariant, PTL DEF Spec

-----------------------------------------------------------------------------
(* The readings on their way *)

ReadingNum == [m \in Readings |-> m.num]
SendNum == [m \in Sends |-> m.num]

(***************************************************************************)
(* The numbers of the readings at each place of the path, from the broker  *)
(* back to the sensors, and last the one that is taken next.               *)
(***************************************************************************)
Flow ==
  <<{published},
    SlotOf(mqtt.msg, SendNum), NumsOf(msgq["mqtt"], SendNum),
    SlotOf(worker.msg, SendNum), NumsOf(evq, SendNum),
    SlotOf(analysis, ReadingNum), NumsOf(msgq["analysis"], ReadingNum),
    SlotOf(worker.msg, ReadingNum), NumsOf(evq, ReadingNum),
    {taken + 1}>>

(* The readings keep their order, in each place and from place to place. *)
FlowInv ==
  /\ Chain(Flow)
  /\ InOrder(evq, SendNum) /\ InOrder(evq, ReadingNum)
  /\ InOrder(msgq["mqtt"], SendNum) /\ InOrder(msgq["analysis"], ReadingNum)

(* The numbers are integers. *)
LEMMA NumbersTyped ==
  /\ DOMAIN ReadingNum = Readings /\ DOMAIN SendNum = Sends
  /\ \A q : NumsOf(q, ReadingNum) \subseteq Int /\ NumsOf(q, SendNum) \subseteq Int
  /\ \A m : SlotOf(m, ReadingNum) \subseteq Int /\ SlotOf(m, SendNum) \subseteq Int
<1>1. \A m \in Readings : ReadingNum[m] \in Int
  <2> SUFFICES ASSUME NEW m \in Readings PROVE m.num \in Int
    BY DEF ReadingNum
  <2>1. m.num \in 1 .. MaxReadings
    BY MessageSets, MessageKinds
  <2>2. QED
    BY <2>1, CloudAssumption DEF CloudAssumption
<1>2. \A m \in Sends : SendNum[m] \in Int
  <2> SUFFICES ASSUME NEW m \in Sends PROVE m.num \in Int
    BY DEF SendNum
  <2>1. m.num \in 1 .. MaxReadings
    BY MessageSets, MessageKinds
  <2>2. QED
    BY <2>1, CloudAssumption DEF CloudAssumption
<1>3. DOMAIN ReadingNum = Readings /\ DOMAIN SendNum = Sends
  BY DEF ReadingNum, SendNum
<1>4. QED
  BY <1>1, <1>2, <1>3 DEF NumsOf, SlotOf

(* The places, before and after a step. *)
LEMMA FlowPlaces ==
  /\ DOMAIN Flow = 1 .. 10 /\ DOMAIN Flow' = 1 .. 10
  /\ Flow[1] = {published} /\ Flow'[1] = {published'}
  /\ Flow[2] = SlotOf(mqtt.msg, SendNum) /\ Flow'[2] = SlotOf(mqtt'.msg, SendNum)
  /\ Flow[3] = NumsOf(msgq["mqtt"], SendNum) /\ Flow'[3] = NumsOf(msgq'["mqtt"], SendNum)
  /\ Flow[4] = SlotOf(worker.msg, SendNum) /\ Flow'[4] = SlotOf(worker'.msg, SendNum)
  /\ Flow[5] = NumsOf(evq, SendNum) /\ Flow'[5] = NumsOf(evq', SendNum)
  /\ Flow[6] = SlotOf(analysis, ReadingNum) /\ Flow'[6] = SlotOf(analysis', ReadingNum)
  /\ Flow[7] = NumsOf(msgq["analysis"], ReadingNum) /\ Flow'[7] = NumsOf(msgq'["analysis"], ReadingNum)
  /\ Flow[8] = SlotOf(worker.msg, ReadingNum) /\ Flow'[8] = SlotOf(worker'.msg, ReadingNum)
  /\ Flow[9] = NumsOf(evq, ReadingNum) /\ Flow'[9] = NumsOf(evq', ReadingNum)
  /\ Flow[10] = {taken + 1} /\ Flow'[10] = {taken' + 1}
BY DEF Flow, ReadingNum, SendNum

(* A place is one of the ten. *)
LEMMA TenPlaces ==
  ASSUME NEW k \in 1 .. 10
  PROVE  k = 1 \/ k = 2 \/ k = 3 \/ k = 4 \/ k = 5 \/ k = 6 \/ k = 7 \/ k = 8 \/ k = 9 \/ k = 10
OBVIOUS

LEMMA FlowTyped ==
  ASSUME TypeOK, TypeOK', NEW k \in 1 .. 10
  PROVE  Flow[k] \subseteq Int /\ Flow'[k] \subseteq Int
<1>1. /\ {published} \subseteq Int /\ {taken + 1} \subseteq Int
      /\ {published'} \subseteq Int /\ {taken' + 1} \subseteq Int
  BY CloudAssumption DEF TypeOK, CloudAssumption
<1>2. QED
  BY <1>1, TenPlaces, FlowPlaces, NumbersTyped

(* A step that moves readings one place on, or loses them. *)
LEMMA FlowMove ==
  ASSUME TypeOK, TypeOK', Chain(Flow), NEW j \in 2 .. 10, NEW X \in SUBSET Flow[j],
         \A k \in (1 .. 10) \ {j - 1, j} : Flow'[k] \subseteq Flow[k],
         Flow'[j - 1] \subseteq Flow[j - 1] \union X,
         Before(X, Flow'[j]), Flow'[j] \subseteq Flow[j] \/ (j = 10 /\ X # {})
  PROVE  Chain(Flow')
<1>1. \A k \in 1 .. 10 : Flow[k] \subseteq Int /\ Flow'[k] \subseteq Int
  BY FlowTyped
<1>2. DOMAIN Flow = 1 .. 10 /\ DOMAIN Flow' = 1 .. 10
  BY FlowPlaces
<1> DEFINE L == Flow
           M == Flow'
<1> HIDE DEF L, M
<1>3. QED
  <2>1. /\ DOMAIN L = 1 .. 10 /\ DOMAIN M = 1 .. 10 /\ 10 \in Nat /\ Chain(L) /\ X \in SUBSET L[j]
        /\ \A k \in 1 .. 10 : L[k] \subseteq Int /\ M[k] \subseteq Int
        /\ \A k \in (1 .. 10) \ {j - 1, j} : M[k] \subseteq L[k]
        /\ M[j - 1] \subseteq L[j - 1] \union X
        /\ Before(X, M[j]) /\ (M[j] \subseteq L[j] \/ (j = 10 /\ X # {}))
    BY <1>1, <1>2 DEF L, M
  <2>2. Chain(M)
    BY <2>1, ChainMove
  <2>3. QED
    BY <2>2 DEF M

(* What is further on its way has a smaller number. *)
LEMMA FlowBefore ==
  ASSUME Chain(Flow), NEW i \in 1 .. 10, NEW k \in 1 .. 10, i < k
  PROVE  Before(Flow[i], Flow[k])
BY FlowPlaces DEF Chain

(* Which messages carry a number of which kind. *)
LEMMA SlotFacts ==
  /\ SlotOf(NoMsg, ReadingNum) = {} /\ SlotOf(NoMsg, SendNum) = {}
  /\ SlotOf(Ready, ReadingNum) = {} /\ SlotOf(Ready, SendNum) = {}
  /\ SlotOf(Notice, ReadingNum) = {} /\ SlotOf(Notice, SendNum) = {}
  /\ \A m \in Readings : SlotOf(m, ReadingNum) = {m.num} /\ SlotOf(m, SendNum) = {}
  /\ \A m \in Sends : SlotOf(m, SendNum) = {m.num} /\ SlotOf(m, ReadingNum) = {}
<1>1. /\ Ready \notin Readings /\ Notice \notin Readings /\ NoMsg \notin Readings
      /\ Ready \notin Sends /\ Notice \notin Sends /\ NoMsg \notin Sends
  BY MessageSets, MessageKinds DEF Ready, Notice, ReadingKinds
<1>2. \A m \in Readings : m \notin Sends
  <2>1. SUFFICES ASSUME NEW m \in Readings, m \in Sends PROVE FALSE
    OBVIOUS
  <2>2. m.kind = "SEND" /\ m.kind \in ReadingKinds
    BY <2>1, MessageSets, MessageKinds
  <2>3. QED
    BY <2>2 DEF ReadingKinds
<1>3. /\ \A m \in Readings : ReadingNum[m] = m.num
      /\ \A m \in Sends : SendNum[m] = m.num
  BY DEF ReadingNum, SendNum
<1>4. QED
  BY <1>1, <1>2, <1>3, NumbersTyped DEF SlotOf

(* A notice in the queue of the event manager has no number. *)
LEMMA NoticeFlow ==
  ASSUME TypeOK, evq' = evq \/ evq' = Append(evq, Notice), NEW num \in {SendNum, ReadingNum}
  PROVE  /\ NumsOf(evq', num) = NumsOf(evq, num)
         /\ InOrder(evq, num) => InOrder(evq', num)
<1>0. SlotOf(Notice, num) = {}
  BY SlotFacts
<1>1. evq \in Seq(Messages) /\ Notice \in Messages
  BY MessageSets DEF TypeOK
<1>2. CASE evq' = Append(evq, Notice)
  <2>1. /\ NumsOf(evq', num) = NumsOf(evq, num) \union SlotOf(Notice, num)
        /\ InOrder(evq, num) /\ Before(NumsOf(evq, num), SlotOf(Notice, num)) => InOrder(evq', num)
    BY <1>1, <1>2, OrderAppend
  <2>2. QED
    BY <1>0, <2>1 DEF Before
<1>3. QED
  BY <1>2

(* A step that leaves the messages where they are. *)
LEMMA FlowStays ==
  ASSUME TypeOK, FlowInv, UNCHANGED <<worker, msgq, analysis, taken, published>>,
         mqtt'.msg = mqtt.msg \/ SlotOf(mqtt'.msg, SendNum) = {},
         evq' = evq \/ evq' = Append(evq, Notice)
  PROVE  FlowInv'
<1>1. /\ NumsOf(evq', SendNum) = NumsOf(evq, SendNum)
      /\ NumsOf(evq', ReadingNum) = NumsOf(evq, ReadingNum)
      /\ InOrder(evq', SendNum) /\ InOrder(evq', ReadingNum)
  BY NoticeFlow DEF FlowInv
<1>2. \A k \in 1 .. 10 : Flow'[k] \subseteq Flow[k]
  BY <1>1, TenPlaces, FlowPlaces
<1>3. Chain(Flow')
  BY <1>2, FlowPlaces, ChainShrink DEF FlowInv
<1>4. QED
  BY <1>1, <1>3 DEF FlowInv, SendNum, ReadingNum

(* A reading is taken. *)
LEMMA FlowTake ==
  ASSUME TypeOK, TypeOK', FlowInv, NEW k \in ReadingKinds, Take(k)
  PROVE  FlowInv'
<1> DEFINE m == Reading(k, taken + 1)
<1>1. /\ m \in Readings /\ m \in Messages /\ m.num = taken + 1 /\ evq' = Append(evq, m)
      /\ evq \in Seq(Messages) /\ taken' = taken + 1 /\ taken \in Int
      /\ UNCHANGED <<worker, msgq, analysis, mqtt, published>>
  BY CloudAssumption, MessageSets DEF Take, TypeOK, CloudAssumption, Readings, Reading, threads, link
<1>2. SlotOf(m, ReadingNum) = {taken + 1} /\ SlotOf(m, SendNum) = {}
  BY <1>1, SlotFacts
<1> HIDE DEF m
<1>3. Before(NumsOf(evq, ReadingNum), {taken + 1})
  BY FlowBefore, FlowPlaces DEF FlowInv
<1>4. /\ NumsOf(evq', ReadingNum) = NumsOf(evq, ReadingNum) \union {taken + 1}
      /\ NumsOf(evq', SendNum) = NumsOf(evq, SendNum)
      /\ InOrder(evq', ReadingNum) /\ InOrder(evq', SendNum)
  <2>1. Before(NumsOf(evq, ReadingNum), SlotOf(m, ReadingNum))
    BY <1>2, <1>3
  <2>2. Before(NumsOf(evq, SendNum), SlotOf(m, SendNum))
    BY <1>2 DEF Before
  <2>3. InOrder(evq', ReadingNum) /\ InOrder(evq', SendNum)
    BY <1>1, <2>1, <2>2, OrderAppend DEF FlowInv
  <2>4. /\ NumsOf(evq', ReadingNum) = NumsOf(evq, ReadingNum) \union SlotOf(m, ReadingNum)
        /\ NumsOf(evq', SendNum) = NumsOf(evq, SendNum) \union SlotOf(m, SendNum)
    BY <1>1, OrderAppend
  <2>5. QED
    BY <1>2, <2>3, <2>4
<1>5. Chain(Flow')
  <2> DEFINE X == {taken + 1}
  <2>1. X \in SUBSET Flow[10] /\ Flow'[9] \subseteq Flow[9] \union X
    BY <1>4, FlowPlaces
  <2>2. \A i \in (1 .. 10) \ {9, 10} : Flow'[i] \subseteq Flow[i]
    BY <1>1, <1>4, TenPlaces, FlowPlaces
  <2>3. Before(X, Flow'[10]) /\ X # {}
    BY <1>1, FlowPlaces DEF Before
  <2>4. QED
    BY <2>1, <2>2, <2>3, FlowMove DEF FlowInv
<1>6. QED
  BY <1>1, <1>4, <1>5 DEF FlowInv, SendNum, ReadingNum

(* An event goes to its listeners. *)
LEMMA FlowHandle ==
  ASSUME TypeOK, TypeOK', FlowInv, HandleEvent
  PROVE  FlowInv'
<1> DEFINE m == Head(evq)
<1>1. /\ m \in Messages /\ evq # <<>> /\ evq \in Seq(Messages) /\ evq' = Tail(evq)
      /\ worker'.msg = m
      /\ UNCHANGED <<msgq, analysis, mqtt, published, taken>>
  BY QueueTypes DEF HandleEvent, TypeOK, threads, link
<1> HIDE DEF m
<1>2. ASSUME NEW num \in {SendNum, ReadingNum}
      PROVE  /\ InOrder(evq', num) /\ NumsOf(evq, num) = NumsOf(evq', num) \union SlotOf(m, num)
             /\ Before(SlotOf(m, num), NumsOf(evq', num))
  BY <1>1, OrderTail DEF FlowInv, m
<1>3. Chain(Flow')
  <2>1. CASE m \in Readings
    <3> DEFINE X == SlotOf(m, ReadingNum)
    <3>1. SlotOf(m, SendNum) = {}
      BY <2>1, SlotFacts
    <3>2. X \in SUBSET Flow[9] /\ Flow'[8] \subseteq Flow[8] \union X
      BY <1>1, <1>2, FlowPlaces
    <3>3. \A i \in (1 .. 10) \ {8, 9} : Flow'[i] \subseteq Flow[i]
      BY <1>1, <1>2, <3>1, TenPlaces, FlowPlaces
    <3>4. Before(X, Flow'[9]) /\ Flow'[9] \subseteq Flow[9]
      BY <1>1, <1>2, FlowPlaces
    <3>5. QED
      BY <3>2, <3>3, <3>4, FlowMove DEF FlowInv
  <2>2. CASE m \notin Readings
    <3> DEFINE X == SlotOf(m, SendNum)
    <3>1. SlotOf(m, ReadingNum) = {}
      BY <2>2, NumbersTyped DEF SlotOf
    <3>2. X \in SUBSET Flow[5] /\ Flow'[4] \subseteq Flow[4] \union X
      BY <1>1, <1>2, FlowPlaces
    <3>3. \A i \in (1 .. 10) \ {4, 5} : Flow'[i] \subseteq Flow[i]
      BY <1>1, <1>2, <3>1, TenPlaces, FlowPlaces
    <3>4. Before(X, Flow'[5]) /\ Flow'[5] \subseteq Flow[5]
      BY <1>1, <1>2, FlowPlaces
    <3>5. QED
      BY <3>2, <3>3, <3>4, FlowMove DEF FlowInv
  <2>3. QED
    BY <2>1, <2>2
<1>4. QED
  BY <1>1, <1>2, <1>3 DEF FlowInv, SendNum, ReadingNum

(* A listener puts the event into the queue of its module. *)
LEMMA FlowPut ==
  ASSUME TypeOK, TypeOK', FlowInv, NEW q \in Modules, Put(q)
  PROVE  FlowInv'
<1> DEFINE m == worker.msg
<1>1. /\ m \in Messages /\ msgq[q] \in Seq(Messages)
      /\ msgq'[q] = Append(msgq[q], m) /\ \A p \in Modules \ {q} : msgq'[p] = msgq[p]
      /\ UNCHANGED <<evq, analysis, mqtt, published, taken>>
      /\ worker'.msg = NoMsg \/ (m = Ready /\ worker'.msg = Ready)
  BY PutTyped, QueueTypes DEF Put, IdleWorker, threads, link
<1>2. SlotOf(worker'.msg, SendNum) = {} /\ SlotOf(worker'.msg, ReadingNum) = {}
  BY <1>1, SlotFacts
<1>3. CASE q = "analysis"
  <2> DEFINE X == SlotOf(m, ReadingNum)
  <2>1. msgq'["mqtt"] = msgq["mqtt"]
    BY <1>1, <1>3 DEF Modules
  <2>2. Before(NumsOf(msgq["analysis"], ReadingNum), X)
    BY FlowBefore, FlowPlaces DEF FlowInv
  <2>3. /\ NumsOf(msgq'["analysis"], ReadingNum) = NumsOf(msgq["analysis"], ReadingNum) \union X
        /\ InOrder(msgq'["analysis"], ReadingNum)
    <3>1. /\ m \in Messages /\ msgq["analysis"] \in Seq(Messages)
          /\ msgq'["analysis"] = Append(msgq["analysis"], m)
      BY <1>1, <1>3
    <3>2. InOrder(msgq["analysis"], ReadingNum)
      BY DEF FlowInv
    <3>3. QED
      BY <2>2, <3>1, <3>2, OrderAppend
  <2>4. Chain(Flow')
    <3>1. X \in SUBSET Flow[8] /\ Flow'[7] \subseteq Flow[7] \union X /\ Flow'[8] = {}
      BY <1>2, <2>3, FlowPlaces
    <3>2. \A i \in (1 .. 10) \ {7, 8} : Flow'[i] \subseteq Flow[i]
      BY <1>1, <1>2, <2>1, TenPlaces, FlowPlaces
    <3>3. QED
      BY <3>1, <3>2, FlowMove DEF FlowInv, Before
  <2>5. QED
    BY <1>1, <2>1, <2>3, <2>4 DEF FlowInv, SendNum, ReadingNum
<1>4. CASE q = "mqtt"
  <2> DEFINE X == SlotOf(m, SendNum)
  <2>1. msgq'["analysis"] = msgq["analysis"]
    BY <1>1, <1>4 DEF Modules
  <2>2. Before(NumsOf(msgq["mqtt"], SendNum), X)
    BY FlowBefore, FlowPlaces DEF FlowInv
  <2>3. /\ NumsOf(msgq'["mqtt"], SendNum) = NumsOf(msgq["mqtt"], SendNum) \union X
        /\ InOrder(msgq'["mqtt"], SendNum)
    <3>1. /\ m \in Messages /\ msgq["mqtt"] \in Seq(Messages)
          /\ msgq'["mqtt"] = Append(msgq["mqtt"], m)
      BY <1>1, <1>4
    <3>2. InOrder(msgq["mqtt"], SendNum)
      BY DEF FlowInv
    <3>3. QED
      BY <2>2, <3>1, <3>2, OrderAppend
  <2>4. Chain(Flow')
    <3>1. X \in SUBSET Flow[4] /\ Flow'[3] \subseteq Flow[3] \union X /\ Flow'[4] = {}
      BY <1>2, <2>3, FlowPlaces
    <3>2. \A i \in (1 .. 10) \ {3, 4} : Flow'[i] \subseteq Flow[i]
      BY <1>1, <1>2, <2>1, TenPlaces, FlowPlaces
    <3>3. QED
      BY <3>1, <3>2, FlowMove DEF FlowInv, Before
  <2>5. QED
    BY <1>1, <2>1, <2>3, <2>4 DEF FlowInv, SendNum, ReadingNum
<1>5. QED
  BY <1>3, <1>4 DEF Modules

(* The analysis module gets a reading, and makes a string of it. *)
LEMMA FlowAnalysis ==
  ASSUME TypeOK, TypeOK', FlowInv, AnalysisThread
  PROVE  FlowInv'
<1>1. CASE AnalysisGet
  <2> DEFINE m == Head(msgq["analysis"])
             X == SlotOf(m, ReadingNum)
  <2>1. /\ m \in Messages /\ msgq["analysis"] # <<>> /\ msgq["analysis"] \in Seq(Messages)
        /\ msgq'["analysis"] = Tail(msgq["analysis"]) /\ msgq'["mqtt"] = msgq["mqtt"]
        /\ analysis' = m /\ UNCHANGED <<evq, worker, mqtt, published, taken>>
    BY <1>1, GetTyped, QueueTypes DEF AnalysisGet, Modules, link
  <2>2. /\ NumsOf(msgq["analysis"], ReadingNum) = NumsOf(msgq'["analysis"], ReadingNum) \union X
        /\ InOrder(msgq'["analysis"], ReadingNum)
        /\ Before(X, NumsOf(msgq'["analysis"], ReadingNum))
    BY <2>1, OrderTail DEF FlowInv
  <2>3. Chain(Flow')
    <3>1. X \in SUBSET Flow[7] /\ Flow'[6] \subseteq Flow[6] \union X
      BY <2>1, <2>2, FlowPlaces
    <3>2. \A i \in (1 .. 10) \ {6, 7} : Flow'[i] \subseteq Flow[i]
      BY <2>1, TenPlaces, FlowPlaces
    <3>3. Before(X, Flow'[7]) /\ Flow'[7] \subseteq Flow[7]
      BY <2>2, FlowPlaces
    <3>4. QED
      BY <3>1, <3>2, <3>3, FlowMove DEF FlowInv
  <2>4. QED
    BY <2>1, <2>2, <2>3 DEF FlowInv, SendNum, ReadingNum
<1>2. CASE Analyse
  <2>1. /\ UNCHANGED <<worker, msgq, mqtt, published, taken>> /\ SlotOf(analysis', ReadingNum) = {}
    BY <1>2, AnalyseCases, SlotFacts
  <2>2. CASE evq' = evq
    <3>1. \A i \in 1 .. 10 : Flow'[i] \subseteq Flow[i]
      BY <2>1, <2>2, TenPlaces, FlowPlaces
    <3>2. Chain(Flow')
      BY <3>1, FlowPlaces, ChainShrink DEF FlowInv
    <3>3. QED
      BY <2>1, <2>2, <3>2 DEF FlowInv, SendNum, ReadingNum
  <2>3. ASSUME NEW text \in BOOLEAN, analysis \in Readings, Send(analysis.num, text) \in Sends,
               evq' = Append(evq, Send(analysis.num, text))
        PROVE  FlowInv'
    <3> DEFINE s == Send(analysis.num, text)
               X == SlotOf(analysis, ReadingNum)
    <3>1. s \in Sends /\ s \in Messages /\ s.num = analysis.num /\ evq' = Append(evq, s)
      BY <2>3, MessageSets DEF Send
    <3> HIDE DEF s
    <3>2. X = {analysis.num} /\ SlotOf(s, SendNum) = X /\ SlotOf(s, ReadingNum) = {}
      BY <2>3, <3>1, SlotFacts
    <3>3. Before(NumsOf(evq, SendNum), X)
      BY FlowBefore, FlowPlaces DEF FlowInv
    <3>4. /\ NumsOf(evq', SendNum) = NumsOf(evq, SendNum) \union X
          /\ NumsOf(evq', ReadingNum) = NumsOf(evq, ReadingNum)
          /\ InOrder(evq', SendNum) /\ InOrder(evq', ReadingNum)
      <4>1. Before(NumsOf(evq, SendNum), SlotOf(s, SendNum))
        BY <3>2, <3>3
      <4>2. Before(NumsOf(evq, ReadingNum), SlotOf(s, ReadingNum))
        BY <3>2 DEF Before
      <4>3. InOrder(evq', SendNum) /\ InOrder(evq', ReadingNum)
        BY <3>1, <4>1, <4>2, OrderAppend DEF FlowInv, TypeOK
      <4>4. /\ NumsOf(evq', SendNum) = NumsOf(evq, SendNum) \union SlotOf(s, SendNum)
            /\ NumsOf(evq', ReadingNum) = NumsOf(evq, ReadingNum) \union SlotOf(s, ReadingNum)
        <5>1. evq \in Seq(Messages)
          BY DEF TypeOK
        <5>2. QED
          BY <3>1, <5>1, OrderAppend
      <4>5. QED
        BY <3>2, <4>3, <4>4
    <3>5. Chain(Flow')
      <4>1. X \in SUBSET Flow[6] /\ Flow'[5] \subseteq Flow[5] \union X /\ Flow'[6] = {}
        BY <2>1, <3>4, FlowPlaces
      <4>2. \A i \in (1 .. 10) \ {5, 6} : Flow'[i] \subseteq Flow[i]
        BY <2>1, <3>4, TenPlaces, FlowPlaces
      <4>3. QED
        BY <4>1, <4>2, FlowMove DEF FlowInv, Before
    <3>6. QED
      BY <2>1, <3>4, <3>5 DEF FlowInv, SendNum, ReadingNum
  <2>4. QED
    BY <1>2, <2>2, <2>3, AnalyseCases
<1>3. QED
  BY <1>1, <1>2 DEF AnalysisThread

(* The MQTT module gets a string, and publishes it. *)
LEMMA FlowMqtt ==
  ASSUME TypeOK, TypeOK', FlowInv, MqttThread
  PROVE  FlowInv'
<1>1. CASE MqttGet
  <2> DEFINE m == Head(msgq["mqtt"])
             X == SlotOf(m, SendNum)
  <2>1. /\ m \in Messages /\ msgq["mqtt"] # <<>> /\ msgq["mqtt"] \in Seq(Messages)
        /\ msgq'["mqtt"] = Tail(msgq["mqtt"]) /\ msgq'["analysis"] = msgq["analysis"]
        /\ UNCHANGED <<worker, analysis, published, taken>>
        /\ TypeOK /\ FlowInv
    BY <1>1, MqttGetCases, GetTyped, QueueTypes DEF Modules, MqttGet, link
  <2>2. /\ mqtt'.msg \in {m, NoMsg}
        /\ evq' = evq \/ evq' = Append(evq, Notice)
    BY <1>1, MqttGetCases DEF At, Refuse, Finish, Idle
  <2>3. /\ NumsOf(msgq["mqtt"], SendNum) = NumsOf(msgq'["mqtt"], SendNum) \union X
        /\ InOrder(msgq'["mqtt"], SendNum)
        /\ Before(X, NumsOf(msgq'["mqtt"], SendNum))
    BY <2>1, OrderTail DEF FlowInv
  <2>4. /\ NumsOf(evq', SendNum) = NumsOf(evq, SendNum)
        /\ NumsOf(evq', ReadingNum) = NumsOf(evq, ReadingNum)
        /\ InOrder(evq', SendNum) /\ InOrder(evq', ReadingNum)
    BY <2>2, NoticeFlow DEF FlowInv
  <2>5. Chain(Flow')
    <3>1. X \in SUBSET Flow[3] /\ Flow'[2] \subseteq Flow[2] \union X
      BY <2>2, <2>3, FlowPlaces, SlotFacts
    <3>2. \A i \in (1 .. 10) \ {2, 3} : Flow'[i] \subseteq Flow[i]
      BY <2>1, <2>4, TenPlaces, FlowPlaces
    <3>3. Before(X, Flow'[3]) /\ Flow'[3] \subseteq Flow[3]
      BY <2>3, FlowPlaces
    <3>4. QED
      BY <3>1, <3>2, <3>3, FlowMove DEF FlowInv
  <2>6. QED
    BY <2>1, <2>3, <2>4, <2>5 DEF FlowInv, SendNum, ReadingNum
<1>2. CASE InitClient \/ Connect
  <2>1. SlotOf(mqtt'.msg, SendNum) = {}
    BY <1>2, SlotFacts DEF InitClient, Connect, Idle, TypeOK
  <2>2. UNCHANGED <<evq, worker, msgq, analysis, taken, published>>
    BY <1>2 DEF InitClient, Connect, link
  <2>3. QED
    BY <2>1, <2>2, FlowStays
<1>3. CASE Publish
  <2>1. /\ UNCHANGED <<worker, msgq, analysis, taken>> /\ SlotOf(mqtt'.msg, SendNum) = {}
        /\ evq' = evq \/ evq' = Append(evq, Notice)
        /\ mqtt.msg \in Sends
    BY <1>3, SlotFacts DEF Publish, Finish, Idle, DisconnectedCb, TypeOK
  <2>2. CASE published' = published
    BY <2>1, <2>2, FlowStays
  <2>3. CASE published' = mqtt.msg.num
    <3> DEFINE X == {mqtt.msg.num}
    <3>1. X \in SUBSET Flow[2] /\ Flow'[1] \subseteq Flow[1] \union X /\ Flow'[2] = {}
      BY <2>1, <2>3, SlotFacts, FlowPlaces
    <3>2. /\ NumsOf(evq', SendNum) = NumsOf(evq, SendNum)
          /\ NumsOf(evq', ReadingNum) = NumsOf(evq, ReadingNum)
          /\ InOrder(evq', SendNum) /\ InOrder(evq', ReadingNum)
      BY <2>1, NoticeFlow DEF FlowInv
    <3>3. \A i \in (1 .. 10) \ {1, 2} : Flow'[i] \subseteq Flow[i]
      BY <2>1, <3>2, TenPlaces, FlowPlaces
    <3>4. Chain(Flow')
      BY <3>1, <3>3, FlowMove DEF FlowInv, Before
    <3>5. QED
      BY <2>1, <3>2, <3>4 DEF FlowInv, SendNum, ReadingNum
  <2>4. QED
    BY <1>3, <2>2, <2>3 DEF Publish
<1>4. QED
  BY <1>1, <1>2, <1>3 DEF MqttThread

LEMMA FlowStep == TypeOK /\ TypeOK' /\ FlowInv /\ [Next]_vars => FlowInv'
<1> SUFFICES ASSUME TypeOK, TypeOK', FlowInv, [Next]_vars PROVE FlowInv'
  OBVIOUS
<1>1. CASE PollThread \/ Network
  <2>1. /\ UNCHANGED <<worker, msgq, analysis, mqtt, taken, published>>
        /\ evq' = evq \/ evq' = Append(evq, Notice)
    BY <1>1 DEF PollThread, Network, InputFails, PollEnds, Connack, Lose, ConnectedCb,
                DisconnectedCb, threads
  <2>2. QED
    BY <2>1, FlowStays
<1>2. CASE UNCHANGED vars
  <2>1. UNCHANGED <<evq, worker, msgq, analysis, mqtt, taken, published>>
    BY <1>2 DEF vars
  <2>2. QED
    BY <2>1, FlowStays
<1>3. QED
  BY <1>1, <1>2, FlowTake, FlowHandle, FlowPut, FlowAnalysis, FlowMqtt DEF Next, Workqueue

(* The order in which readings were taken is kept on the whole path. *)
LEMMA FlowKept == Spec => []FlowInv
<1>1. Init => FlowInv
  <2> SUFFICES ASSUME Init PROVE FlowInv
    OBVIOUS
  <2>1. /\ evq = Append(<<>>, Ready) /\ <<>> \in Seq(Messages) /\ Ready \in Messages
        /\ msgq["mqtt"] = <<>> /\ msgq["analysis"] = <<>>
        /\ worker.msg = NoMsg /\ mqtt.msg = NoMsg /\ analysis = NoMsg
        /\ published = 0 /\ taken = 0
    BY MessageSets DEF Init, Modules, IdleWorker, Idle
  <2>2. ASSUME NEW num \in {SendNum, ReadingNum}
        PROVE  NumsOf(evq, num) = {} /\ InOrder(evq, num)
    <3>1. /\ NumsOf(<<>>, num) = {} /\ InOrder(<<>>, num) /\ SlotOf(Ready, num) = {}
      BY OrderEmpty, SlotFacts
    <3>2. /\ NumsOf(Append(<<>>, Ready), num) = NumsOf(<<>>, num) \union SlotOf(Ready, num)
          /\ InOrder(<<>>, num) /\ Before(NumsOf(<<>>, num), SlotOf(Ready, num))
               => InOrder(Append(<<>>, Ready), num)
      BY <2>1, OrderAppend
    <3>3. QED
      BY <2>1, <3>1, <3>2 DEF Before
  <2>3. \A k \in 1 .. 10 : k # 1 /\ k # 10 => Flow[k] = {}
    BY <2>1, <2>2, OrderEmpty, SlotFacts, TenPlaces, FlowPlaces
  <2>4. Flow[1] = {0} /\ Flow[10] = {1}
    BY <2>1, FlowPlaces
  <2>5. Chain(Flow)
    <3> SUFFICES ASSUME NEW i \in 1 .. 10, NEW k \in 1 .. 10, i < k,
                        NEW x \in Flow[i], NEW y \in Flow[k]
                 PROVE  x < y
      BY FlowPlaces DEF Chain, Before
    <3>1. i = 1 /\ k = 10
      BY <2>3
    <3>2. QED
      BY <2>4, <3>1
  <2>6. QED
    BY <2>1, <2>2, <2>5, OrderEmpty DEF FlowInv
<1>2. QED
  BY <1>1, FlowStep, TypeCorrect, PTL DEF Spec

-----------------------------------------------------------------------------
(* The path implements the feed *)

(* What a step of the path is for the feed. *)
LEMMA FeedStep ==
  ASSUME TypeOK, ConnInv, FlowInv, [Next]_vars
  PROVE  [F!Next]_(F!vars)
<1>1. CASE UNCHANGED <<session, taken, published>>
  BY <1>1 DEF F!vars, Phase
<1>2. ASSUME NEW k \in ReadingKinds, Take(k) PROVE F!Take
  BY <1>2 DEF Take, F!Take, link, Phase
<1>3. ASSUME Workqueue \/ AnalysisThread \/ MqttGet \/ InitClient \/ PollEnds
      PROVE  UNCHANGED <<session, taken, published>>
  <2>1. CASE Workqueue \/ AnalysisThread
    BY <2>1 DEF Workqueue, HandleEvent, Put, AnalysisThread, AnalysisGet, Analyse, link
  <2>2. CASE MqttGet \/ InitClient \/ PollEnds
    BY <2>2 DEF MqttGet, InitClient, PollEnds, link
  <2>3. QED
    BY <1>3, <2>1, <2>2
<1>4. ASSUME Connect PROVE UNCHANGED F!vars
  <2>1. session = "none" /\ session' \in {"none", "waiting"} /\ UNCHANGED <<taken, published>>
    BY <1>4 DEF Connect, ConnInv
  <2>2. QED
    BY <2>1 DEF F!vars, Phase
<1>5. CASE Publish
  <2>1. UNCHANGED taken
    BY <1>5 DEF Publish
  <2>2. ASSUME session = "up", published' = mqtt.msg.num, session' = session
        PROVE  F!Give
    <3>1. mqtt.msg \in Sends
      BY <1>5 DEF Publish, TypeOK
    <3>2. mqtt.msg.num \in Flow[2] /\ published \in Flow[1] /\ taken + 1 \in Flow[10]
      BY <3>1, SlotFacts, FlowPlaces
    <3>3. published < mqtt.msg.num /\ mqtt.msg.num < taken + 1
      BY <3>2, FlowBefore DEF FlowInv, Before
    <3>4. mqtt.msg.num \in Int /\ published \in Nat /\ taken \in Nat
      BY <3>1, CloudAssumption, MessageSets, MessageKinds DEF TypeOK, CloudAssumption
    <3>5. mqtt.msg.num \in published + 1 .. taken
      BY <3>3, <3>4
    <3>6. QED
      BY <2>1, <2>2, <3>5 DEF F!Give, Phase
  <2>3. ASSUME session = "dead", session' = "closed", published' = published
        PROVE  UNCHANGED F!vars
    BY <2>1, <2>3 DEF F!vars, Phase
  <2>4. QED
    BY <1>1, <1>5, <2>1, <2>2, <2>3 DEF Publish, F!Next
<1>6. ASSUME Connack PROVE F!Open \/ UNCHANGED F!vars
  BY <1>6 DEF Connack, F!Open, F!vars, Phase
<1>7. ASSUME Lose PROVE F!Close
  BY <1>7 DEF Lose, F!Close, Phase
<1>8. ASSUME InputFails PROVE F!Close \/ UNCHANGED F!vars
  BY <1>8 DEF InputFails, F!Close, F!vars, Phase
<1>9. CASE UNCHANGED vars
  BY <1>1, <1>9 DEF vars
<1>10. QED
  BY <1>1, <1>2, <1>3, <1>4, <1>5, <1>6, <1>7, <1>8, <1>9
     DEF Next, MqttThread, PollThread, Network, F!Next

(***************************************************************************)
(* The two modules, their queues and their threads implement one feed: for *)
(* every number of readings and every length of the queues, readings reach *)
(* the broker in the order they were taken, each at most once, and only in *)
(* one open session.                                                       *)
(***************************************************************************)
THEOREM FeedImplemented == Spec => ImplementsFeed
<1>1. Init => F!Init
  BY DEF Init, F!Init, Phase
<1>2. TypeOK /\ ConnInv /\ FlowInv /\ [Next]_vars => [F!Next]_(F!vars)
  BY FeedStep
<1>3. QED
  BY <1>1, <1>2, TypeCorrect, ConnInvariant, FlowKept, PTL DEF Spec, ImplementsFeed, F!Spec

=============================================================================
