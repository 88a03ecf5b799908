---------------------------- MODULE HeatPathProofs ----------------------------
(***************************************************************************)
(* What holds of the link between the microcontrollers for every number of *)
(* heat maps, every size of the messages, of the buffer and of the queues, *)
(* and any number of restarts.                                             *)
(***************************************************************************)
EXTENDS HeatPath, QueueProofs

-----------------------------------------------------------------------------
(* Events *)

WireEvents == [kind : Wire, num : 0 .. MaxFrames, received : BOOLEAN]

LEMMA EventsTyped ==
  /\ Ready \in Events /\ Up \in Events /\ Trouble \in Events /\ Toggle \in Events
  /\ Error \in Events /\ [Error EXCEPT !.received = TRUE] \in Events
  /\ \A k \in 1 .. MaxFrames : Frame(k) \in Events
  /\ \A kind \in Wire, k \in 0 .. MaxFrames, r \in BOOLEAN : Mcu(kind, k, r) \in Events
  /\ \A b \in Seq(Pieces) : Data(b) \in Events
<1>1. MaxFrames \in Nat /\ 0 \in 0 .. MaxFrames
  BY HeatAssumption
<1>2. \A kind \in Wire, k \in 0 .. MaxFrames, r \in BOOLEAN : Mcu(kind, k, r) \in WireEvents
  BY DEF Mcu, WireEvents
<1>3. "ERROR" \in Wire
  BY DEF Wire
<1>4. Error \in WireEvents /\ [Error EXCEPT !.received = TRUE] \in WireEvents
  BY <1>1, <1>3 DEF Error, Mcu, WireEvents
<1>5. WireEvents \subseteq Events
  BY DEF WireEvents, Events
<1>6. \A b \in Seq(Pieces) : Data(b) \in [kind : {"DATA"}, bytes : Seq(Pieces)]
  BY DEF Data
<1>7. QED
  BY <1>2, <1>4, <1>5, <1>6 DEF Events

LEMMA EventKinds ==
  ASSUME NEW m \in Events
  PROVE  /\ m # NoMsg
         /\ m.kind \in Wire => m \in WireEvents
         /\ m.kind = "FRAME" => m.num \in 1 .. MaxFrames
         /\ m.kind = "DATA" => m.bytes \in Seq(Pieces)
         /\ m = Ready <=> m.kind = "READY"
<1>1. m # NoMsg
  BY NoMsgAssumption
<1>2. CASE m \in {Ready, Up, Trouble, Toggle}
  BY <1>1, <1>2 DEF Ready, Up, Trouble, Toggle, Wire
<1>3. CASE m \in {Frame(k) : k \in 1 .. MaxFrames}
  BY <1>1, <1>3 DEF Frame, Ready, Wire
<1>4. CASE m \in WireEvents
  BY <1>1, <1>4 DEF WireEvents, Ready, Wire
<1>5. CASE m \in [kind : {"DATA"}, bytes : Seq(Pieces)]
  BY <1>1, <1>5 DEF Ready, Wire
<1>6. QED
  BY <1>2, <1>3, <1>4, <1>5 DEF Events, WireEvents

(* The message of an event that is sent, and the event made of a message. *)
LEMMA MessageTyped ==
  /\ \A m \in Events : m.kind \in Wire => Message(m) \in Messages /\ Message(m).kind = m.kind
  /\ \A m \in Messages : Received(m) \in Events
<1>1. \A m \in WireEvents : Message(m) \in Messages /\ Message(m).kind = m.kind
  BY DEF WireEvents, Message, Messages
<1>2. \A m \in Messages : m.kind \in Wire /\ m.num \in 0 .. MaxFrames
  BY DEF Messages
<1>3. QED
  BY <1>1, <1>2, EventKinds, EventsTyped DEF Received

LEMMA SizeTyped ==
  /\ BufLen \in Nat
  /\ \A k \in Wire : Size[k] \in Nat /\ 1 <= Size[k] /\ Size[k] < BufLen
<1>1. BufLen \in Nat /\ \A k \in Wire : Size[k] \in 1 .. BufLen - 1
  BY HeatAssumption
<1>2. QED
  BY <1>1

-----------------------------------------------------------------------------
(* Type correctness *)

(* TypeOK in parts: what the queues hold, the workqueues, and the line. *)
QueuesOK ==
  /\ evq \in [Sides -> Seq(Events)]
  /\ msgq \in [Sides -> [Modules -> Seq(Events)]]
  /\ \A n \in Sides, q \in Modules : Len(msgq[n][q]) <= QueueLen[q]

WorkerOK ==
  /\ worker \in [Sides -> [msg : Events \union {NoMsg}, to : SUBSET Modules]]
  /\ \A n \in Sides :
       /\ worker[n].msg = NoMsg <=> worker[n].to = {}
       /\ worker[n].msg # NoMsg => worker[n].to \subseteq Listeners(n, worker[n].msg)

LineOK ==
  /\ mcu \in [Sides -> [msg : Events \union {NoMsg}, piece : 0 .. BufLen]]
  /\ \A n \in Sides :
       \/ mcu[n] = NotSending
       \/ mcu[n].msg # NoMsg /\ ToSend(mcu[n].msg)
          /\ mcu[n].piece \in 1 .. Size[mcu[n].msg.kind] + 1
  /\ listening \in [Sides -> BOOLEAN] /\ up \in [Sides -> BOOLEAN]
  /\ buf \in [Sides -> Seq(Pieces)]
  /\ \A n \in Sides : Len(buf[n]) < BufLen

RestOK ==
  /\ ready \in BOOLEAN
  /\ copies \in [Sides -> Int]
  /\ got \in Seq(0 .. MaxFrames) /\ toggled \in Nat /\ disturbed \in BOOLEAN
  /\ unsent \subseteq 0 .. MaxFrames
  /\ used \in [Inputs -> Nat]
  /\ used["frames"] <= MaxFrames

LEMMA TypeParts == TypeOK <=> QueuesOK /\ WorkerOK /\ LineOK /\ RestOK
BY DEF TypeOK, QueuesOK, WorkerOK, LineOK, RestOK

LEMMA SidesTyped ==
  /\ \A n \in Sides : Peer(n) \in Sides /\ Peer(Peer(n)) = n /\ Peer(n) # n
  /\ "nrf52" \in Sides /\ "nrf91" \in Sides /\ "comm" \in Modules /\ "mcu" \in Modules
  /\ \A n \in Sides, m \in Events : Listeners(n, m) \in SUBSET Modules /\ Listeners(n, m) # {}
BY DEF Sides, Peer, Modules, Listeners

LEMMA SubmitTyped ==
  ASSUME QueuesOK, NEW n \in Sides, NEW m \in Events, Submit(n, m), UNCHANGED msgq
  PROVE  QueuesOK'
<1>1. evq' = [evq EXCEPT ![n] = Append(@, m)]
  BY DEF Submit
<1>2. Append(evq[n], m) \in Seq(Events)
  BY DEF QueuesOK
<1>3. QED
  BY <1>1, <1>2 DEF QueuesOK

LEMMA UseTyped ==
  ASSUME RestOK, NEW input \in Inputs, Use(input)
  PROVE  /\ used' \in [Inputs -> Nat] /\ used'["frames"] <= MaxFrames
         /\ used'[input] = used[input] + 1
<1>1. used' = [used EXCEPT ![input] = used[input] + 1] /\ used \in [Inputs -> Nat]
  BY DEF Use, RestOK
<1>2. PICK b \in Budgets : \A i \in Inputs : used'[i] <= b[i]
  BY DEF Use
<1>3. "frames" \in Inputs
  BY DEF Inputs
<1>4. b["frames"] \in Nat /\ b["frames"] <= MaxFrames /\ MaxFrames \in Nat
  BY <1>2, <1>3, HeatAssumption
<1>5. used' \in [Inputs -> Nat]
  BY <1>1
<1>6. used'["frames"] \in Nat /\ used'["frames"] <= b["frames"]
  BY <1>2, <1>3, <1>5
<1>7. QED
  BY <1>1, <1>4, <1>5, <1>6

LEMMA InitType == Init => TypeOK
<1> SUFFICES ASSUME Init PROVE TypeOK
  OBVIOUS
<1>1. <<Ready>> \in Seq(Events)
  BY EventsTyped
<1>2. QueuesOK
  <2>1. \A q \in Modules : QueueLen[q] \in Nat
    BY HeatAssumption
  <2>2. msgq = [n \in Sides |-> [q \in Modules |-> <<>>]]
    BY DEF Init, NoQueues
  <2>3. QED
    <3>1. evq \in [Sides -> Seq(Events)]
      BY <1>1 DEF Init
    <3>2. \A n \in Sides, q \in Modules : msgq[n][q] = <<>>
      BY <2>2
    <3>3. msgq \in [Sides -> [Modules -> Seq(Events)]]
      BY <2>2
    <3>4. Len(<<>>) = 0
      OBVIOUS
    <3>5. \A n \in Sides, q \in Modules : Len(msgq[n][q]) <= QueueLen[q]
      BY <2>1, <3>2, <3>4
    <3>6. QED
      BY <3>1, <3>3, <3>5 DEF QueuesOK
<1>3. WorkerOK
  BY DEF Init, WorkerOK, IdleWorker
<1>4. LineOK
  <2>1. 0 \in 0 .. BufLen /\ 0 < BufLen
    BY SizeTyped DEF Wire
  <2>2. NotSending \in [msg : Events \union {NoMsg}, piece : 0 .. BufLen]
    BY <2>1 DEF NotSending
  <2>3. QED
    BY <2>1, <2>2 DEF Init, LineOK
<1>5. RestOK
  <2>1. MaxFrames \in Nat /\ "frames" \in Inputs
    BY HeatAssumption DEF Inputs
  <2>2. QED
    <3>1. used \in [Inputs -> Nat] /\ used["frames"] <= MaxFrames
      BY <2>1 DEF Init
    <3>2. copies \in [Sides -> Int] /\ got \in Seq(0 .. MaxFrames)
      BY DEF Init
    <3>3. QED
      BY <3>1, <3>2 DEF Init, RestOK
<1>6. QED
  BY <1>2, <1>3, <1>4, <1>5, TypeParts

LEMMA SenseType == TypeOK /\ Sense => TypeOK'
<1> SUFFICES ASSUME TypeOK, Sense PROVE TypeOK'
  OBVIOUS
<1>1. QueuesOK /\ WorkerOK /\ LineOK /\ RestOK
  BY TypeParts
<1>2. UNCHANGED <<worker, msgq, ready, mcu, listening, buf, up, disturbed, unsent, copies, got, toggled>>
  BY DEF Sense, line, seen
<1>3. QueuesOK' /\ RestOK'
  <2>1. CASE Use("frames") /\ Submit("nrf52", Frame(used["frames"] + 1))
    <3>1. used["frames"] \in Nat /\ "frames" \in Inputs
      BY <1>1 DEF RestOK, Inputs
    <3>2. used["frames"] + 1 \in 1 .. MaxFrames
      BY <1>1, <2>1, <3>1, UseTyped, HeatAssumption
    <3>3. QED
      BY <1>1, <1>2, <2>1, <3>1, <3>2, UseTyped, EventsTyped, SubmitTyped, SidesTyped DEF RestOK
  <2>2. CASE Use("troubles") /\ Submit("nrf52", Trouble)
    <3>1. "troubles" \in Inputs
      BY DEF Inputs
    <3>2. QED
      BY <1>1, <1>2, <2>2, <3>1, UseTyped, EventsTyped, SubmitTyped, SidesTyped DEF RestOK
  <2>3. QED
    BY <2>1, <2>2 DEF Sense
<1>4. WorkerOK' /\ LineOK'
  BY <1>1, <1>2 DEF WorkerOK, LineOK
<1>5. QED
  BY <1>3, <1>4 DEF TypeOK, QueuesOK, WorkerOK, LineOK, RestOK

LEMMA PressType == TypeOK /\ Press => TypeOK'
<1> SUFFICES ASSUME TypeOK, Press PROVE TypeOK'
  OBVIOUS
<1>1. QueuesOK /\ WorkerOK /\ LineOK /\ RestOK
  BY TypeParts
<1>2. UNCHANGED <<worker, msgq, ready, mcu, listening, buf, up, disturbed, unsent, copies, got, toggled>>
  BY DEF Press, line, seen
<1>3. PICK r \in BOOLEAN : Submit("nrf91", Mcu("BUTTON", 0, r))
  BY DEF Press
<1>4. Mcu("BUTTON", 0, r) \in Events /\ "presses" \in Inputs
  BY EventsTyped, HeatAssumption DEF Wire, Inputs
<1>5. QueuesOK' /\ RestOK'
  BY <1>1, <1>2, <1>3, <1>4, UseTyped, SubmitTyped, SidesTyped DEF Press, RestOK
<1>6. WorkerOK' /\ LineOK'
  BY <1>1, <1>2 DEF WorkerOK, LineOK
<1>7. QED
  BY <1>5, <1>6 DEF TypeOK, QueuesOK, WorkerOK, LineOK, RestOK

(* A copy is allocated or freed. *)
LEMMA CopiesTyped ==
  ASSUME RestOK, NEW n \in Sides, NEW c \in Nat,
         \/ copies' = [copies EXCEPT ![n] = @ + c]
         \/ copies' = [copies EXCEPT ![n] = @ - c]
  PROVE  copies' \in [Sides -> Int]
<1>1. copies \in [Sides -> Int] /\ copies[n] \in Int
  BY DEF RestOK
<1>2. copies[n] + c \in Int /\ copies[n] - c \in Int
  BY <1>1
<1>3. CASE copies' = [copies EXCEPT ![n] = @ + c]
  BY <1>1, <1>2, <1>3
<1>4. CASE copies' = [copies EXCEPT ![n] = @ - c]
  BY <1>1, <1>2, <1>4
<1>5. QED
  BY <1>3, <1>4

LEMMA HandleEventType ==
  ASSUME NEW n \in Sides, TypeOK, HandleEvent(n)
  PROVE  TypeOK'
<1>1. QueuesOK /\ WorkerOK /\ LineOK /\ RestOK
  BY TypeParts
<1> DEFINE m == Head(evq[n])
<1>2. evq[n] \in Seq(Events) /\ evq[n] # <<>>
  BY <1>1 DEF QueuesOK, HandleEvent
<1>3. m \in Events /\ Tail(evq[n]) \in Seq(Events)
  BY <1>2
<1>4. QueuesOK'
  BY <1>1, <1>3 DEF QueuesOK, HandleEvent
<1>5. worker' = [worker EXCEPT ![n] = [msg |-> m, to |-> Listeners(n, m)]]
  BY DEF HandleEvent
<1> HIDE DEF m
<1>6. WorkerOK'
  <2>1. /\ [msg |-> m, to |-> Listeners(n, m)] \in [msg : Events \union {NoMsg}, to : SUBSET Modules]
        /\ Listeners(n, m) # {} /\ m # NoMsg
    BY <1>3, SidesTyped, EventKinds
  <2>2. QED
    BY <1>1, <1>5, <2>1 DEF WorkerOK
<1>7. RestOK'
  <2>1. got' \in Seq(0 .. MaxFrames)
    <3>1. m.kind = "MAP" => m.num \in 0 .. MaxFrames
      BY <1>3, EventKinds DEF Wire, WireEvents
    <3>2. got' = IF n = "nrf91" /\ m.kind = "MAP" THEN Append(got, m.num) ELSE got
      BY DEF HandleEvent, Analyse, m
    <3>3. QED
      <4>1. CASE n = "nrf91" /\ m.kind = "MAP"
        <5>1. Append(got, m.num) \in Seq(0 .. MaxFrames)
          BY <1>1, <3>1, <4>1 DEF RestOK
        <5>2. QED
          BY <3>2, <4>1, <5>1
      <4>2. CASE ~ (n = "nrf91" /\ m.kind = "MAP")
        BY <1>1, <3>2, <4>2 DEF RestOK
      <4>3. QED
        BY <4>1, <4>2
  <2>2. toggled' \in Nat
    BY <1>1 DEF HandleEvent, RestOK
  <2>3. QED
    BY <1>1, <2>1, <2>2 DEF HandleEvent, RestOK, line
<1>8. LineOK'
  BY <1>1 DEF HandleEvent, LineOK, line
<1>9. QED
  BY <1>4, <1>6, <1>7, <1>8 DEF TypeOK, QueuesOK, WorkerOK, LineOK, RestOK

(* What a module's message queue and its listener are like at a Put. *)
LEMMA PutTyped ==
  ASSUME NEW n \in Sides, NEW q \in Modules, TypeOK, Put(n, q)
  PROVE  /\ worker[n].msg \in Events
         /\ worker[n].to \in SUBSET Modules /\ q \in worker[n].to
         /\ msgq[n][q] \in Seq(Events)
         /\ Append(msgq[n][q], worker[n].msg) \in Seq(Events)
         /\ Len(Append(msgq[n][q], worker[n].msg)) <= QueueLen[q]
         /\ CopyOf(q, worker[n].msg) \in Nat
<1>1. worker[n].msg \in Events /\ worker[n].to \in SUBSET Modules /\ q \in worker[n].to
  BY DEF TypeOK, Put
<1>2. msgq[n][q] \in Seq(Events) /\ Len(msgq[n][q]) < QueueLen[q] /\ QueueLen[q] \in Nat
  BY HeatAssumption DEF TypeOK, Put
<1>3. QED
  BY <1>1, <1>2 DEF CopyOf

LEMMA PutType ==
  ASSUME NEW n \in Sides, NEW q \in Modules, TypeOK, Put(n, q)
  PROVE  TypeOK'
<1>1. QueuesOK /\ WorkerOK /\ LineOK /\ RestOK
  BY TypeParts
<1>2. QueuesOK'
  <2>1. evq' = evq /\ msgq' = [msgq EXCEPT ![n][q] = Append(msgq[n][q], worker[n].msg)]
    BY DEF Put
  <2>2. /\ \A k \in Sides, r \in Modules :
             msgq'[k][r] = IF k = n /\ r = q THEN Append(msgq[n][q], worker[n].msg) ELSE msgq[k][r]
        /\ msgq' \in [Sides -> [Modules -> Seq(Events)]]
    BY <1>1, <2>1, PutTyped DEF QueuesOK
  <2>3. QED
    BY <1>1, <2>1, <2>2, PutTyped DEF QueuesOK
<1>3. WorkerOK'
  <2>1. /\ worker[n].msg # NoMsg /\ worker[n].to \subseteq Listeners(n, worker[n].msg)
        /\ worker[n].msg \in Events
    BY <1>1, PutTyped, EventKinds DEF WorkerOK
  <2>2. CASE worker[n].to = {q}
    <3>1. worker' = [worker EXCEPT ![n] = IdleWorker]
      BY <2>2 DEF Put
    <3>2. QED
      BY <1>1, <3>1 DEF WorkerOK, IdleWorker
  <2>3. CASE worker[n].to # {q}
    <3>1. worker' = [worker EXCEPT ![n] = [msg |-> worker[n].msg, to |-> worker[n].to \ {q}]]
      BY <2>3 DEF Put
    <3>2. worker[n].to \ {q} # {}
      BY <2>3, PutTyped
    <3>3. /\ worker'[n].msg = worker[n].msg /\ worker'[n].to = worker[n].to \ {q}
          /\ \A k \in Sides : k # n => worker'[k] = worker[k]
          /\ worker' \in [Sides -> [msg : Events \union {NoMsg}, to : SUBSET Modules]]
      BY <1>1, <3>1 DEF WorkerOK
    <3>4. QED
      BY <1>1, <2>1, <3>2, <3>3 DEF WorkerOK
  <2>4. QED
    BY <2>2, <2>3
<1>4. RestOK'
  <2>1. copies' \in [Sides -> Int]
    BY <1>1, PutTyped, CopiesTyped DEF Put
  <2>2. QED
    BY <1>1, <2>1 DEF Put, RestOK, line, seen
<1>5. LineOK'
  BY <1>1 DEF Put, LineOK, line
<1>6. QED
  BY <1>2, <1>3, <1>4, <1>5 DEF TypeOK, QueuesOK, WorkerOK, LineOK, RestOK

(* A thread takes the head of its queue. *)
LEMMA TakenTyped ==
  ASSUME NEW n \in Sides, NEW q \in Modules, TypeOK, msgq[n][q] # <<>>
  PROVE  /\ Head(msgq[n][q]) \in Events /\ Tail(msgq[n][q]) \in Seq(Events)
         /\ Len(Tail(msgq[n][q])) <= QueueLen[q]
         /\ CopyOf(q, Head(msgq[n][q])) \in Nat
<1>1. /\ msgq[n][q] \in Seq(Events) /\ Len(msgq[n][q]) <= QueueLen[q]
      /\ QueueLen[q] \in Nat
  BY HeatAssumption DEF TypeOK
<1>2. QED
  BY <1>1 DEF CopyOf

LEMMA TakeType ==
  ASSUME NEW n \in Sides, NEW q \in Modules, TypeOK, msgq[n][q] # <<>>,
         msgq' = [msgq EXCEPT ![n][q] = Tail(@)],
         \/ UNCHANGED evq
         \/ \E k \in Sides : \E e \in Events : Submit(k, e)
  PROVE  QueuesOK'
<1>1. QueuesOK
  BY TypeParts
<1>2. evq' \in [Sides -> Seq(Events)]
  <2>1. ASSUME NEW k \in Sides, NEW e \in Events, Submit(k, e)
        PROVE  evq' \in [Sides -> Seq(Events)]
    <3>1. Append(evq[k], e) \in Seq(Events)
      BY <1>1 DEF QueuesOK
    <3>2. QED
      BY <1>1, <2>1, <3>1 DEF QueuesOK, Submit
  <2>2. QED
    BY <1>1, <2>1 DEF QueuesOK
<1>3. /\ \A k \in Sides, r \in Modules :
           msgq'[k][r] = IF k = n /\ r = q THEN Tail(msgq[n][q]) ELSE msgq[k][r]
      /\ msgq' \in [Sides -> [Modules -> Seq(Events)]]
  BY <1>1, TakenTyped DEF QueuesOK
<1>4. QED
  BY <1>1, <1>2, <1>3, TakenTyped DEF QueuesOK

(* What commCtrl_module.c submits for a message. *)
LEMMA Routed ==
  ASSUME NEW m \in Events, Route(m)
  PROVE  \/ UNCHANGED evq
         \/ \E e \in Events : Submit("nrf52", e) /\ e.kind # "DATA"
                              /\ (e.kind = "BUTTON" => e.received)
<1>1. CASE m.kind = "FRAME" /\ ready
  <2>1. m.num \in 0 .. MaxFrames /\ "MAP" \in Wire
    <3>1. MaxFrames \in Nat
      BY HeatAssumption
    <3>2. QED
      BY <1>1, <3>1, EventKinds DEF Wire
  <2>2. Mcu("MAP", m.num, FALSE) \in Events /\ Mcu("MAP", m.num, FALSE).kind = "MAP"
    BY <2>1, EventsTyped DEF Mcu
  <2>3. QED
    BY <1>1, <2>2 DEF Route
<1>2. CASE m.kind = "BUTTON" /\ ready
  BY <1>2, EventsTyped DEF Route, Toggle
<1>3. CASE m.kind = "TROUBLE"
  BY <1>3, EventsTyped DEF Route, Error, Mcu
<1>4. CASE ~ (m.kind = "FRAME" /\ ready) /\ ~ (m.kind = "BUTTON" /\ ready) /\ m.kind # "TROUBLE"
  BY <1>4 DEF Route
<1>5. QED
  BY <1>1, <1>2, <1>3, <1>4

LEMMA CommType == TypeOK /\ Comm => TypeOK'
<1> SUFFICES ASSUME TypeOK, Comm PROVE TypeOK'
  OBVIOUS
<1>1. QueuesOK /\ WorkerOK /\ LineOK /\ RestOK
  BY TypeParts
<1> DEFINE m == Head(msgq["nrf52"]["comm"])
<1>2. m \in Events /\ CopyOf("comm", m) \in Nat
  BY TakenTyped, SidesTyped DEF Comm
<1>3. QueuesOK'
  BY <1>2, Routed, TakeType, SidesTyped DEF Comm
<1>4. RestOK'
  <2>1. copies' = [copies EXCEPT !["nrf52"] = @ - CopyOf("comm", m)] /\ ready' \in BOOLEAN
    BY DEF Comm
  <2> HIDE DEF m
  <2>2. copies' \in [Sides -> Int]
    BY <1>1, <1>2, <2>1, CopiesTyped, SidesTyped
  <2>3. QED
    BY <1>1, <2>1, <2>2 DEF Comm, RestOK, line, seen
<1>5. WorkerOK' /\ LineOK'
  BY <1>1 DEF Comm, WorkerOK, LineOK, line
<1>6. QED
  BY <1>3, <1>4, <1>5 DEF TypeOK, QueuesOK, WorkerOK, LineOK, RestOK

(* The bytes of a message are those of one message. *)
LEMMA ParsedTyped ==
  ASSUME NEW b \in Seq(Pieces), Parses(b)
  PROVE  b[1][1] \in Messages
<1>1. b[1] \in Pieces
  BY DEF Parses
<1>2. QED
  BY <1>1 DEF Pieces

(* What mcu_exchange.c submits for a message. *)
LEMMA Handled ==
  ASSUME NEW n \in Sides, NEW m \in Events,
         InitLine(n, m) \/ StartSend(n, m) \/ HandleData(n, m) \/ EncodeFails(n, m) \/ Ignore(n, m)
  PROVE  \/ UNCHANGED evq
         \/ \E e \in Events : Submit(n, e) /\ e.kind # "DATA"
                              /\ (e.kind \in {"MAP", "BUTTON"} => e.received)
<1>1. CASE InitLine(n, m)
  BY <1>1, EventsTyped DEF InitLine, Up, Error, Mcu
<1>2. CASE StartSend(n, m) \/ EncodeFails(n, m) \/ Ignore(n, m)
  BY <1>2 DEF StartSend, EncodeFails, Ignore
<1>3. CASE HandleData(n, m)
  <2>1. CASE Parses(m.bytes) /\ Submit(n, Received(m.bytes[1][1]))
    <3>1. m.bytes[1][1] \in Messages
      BY <1>3, <2>1, ParsedTyped, EventKinds DEF HandleData
    <3>2. LET e == Received(m.bytes[1][1])
          IN  e \in Events /\ e.kind \in Wire /\ e.received
      BY <3>1, MessageTyped DEF Received, Mcu, Messages
    <3>3. QED
      BY <2>1, <3>2 DEF Wire
  <2>2. CASE Submit(n, [Error EXCEPT !.received = TRUE])
    BY <2>2, EventsTyped DEF Error, Mcu
  <2>3. CASE UNCHANGED evq
    BY <2>3
  <2>4. QED
    BY <1>3, <2>1, <2>2, <2>3 DEF HandleData
<1>4. QED
  BY <1>1, <1>2, <1>3

LEMMA GetMessageType ==
  ASSUME NEW n \in Sides, TypeOK, GetMessage(n)
  PROVE  TypeOK'
<1>1. QueuesOK /\ WorkerOK /\ LineOK /\ RestOK
  BY TypeParts
<1> DEFINE m == Head(msgq[n]["mcu"])
<1>2. m \in Events /\ CopyOf("mcu", m) \in Nat
  BY TakenTyped, SidesTyped DEF GetMessage
<1>3. InitLine(n, m) \/ StartSend(n, m) \/ HandleData(n, m) \/ EncodeFails(n, m) \/ Ignore(n, m)
  BY DEF GetMessage
<1>4. QueuesOK'
  BY <1>2, <1>3, Handled, TakeType, SidesTyped DEF GetMessage
<1> HIDE DEF m
<1>5. RestOK'
  <2>1. copies' = copies \/ copies' = [copies EXCEPT ![n] = @ - CopyOf("mcu", m)]
    BY <1>3 DEF InitLine, StartSend, HandleData, EncodeFails, Ignore, Free
  <2>2. copies' \in [Sides -> Int]
    BY <1>1, <1>2, <2>1, CopiesTyped DEF RestOK
  <2>3. unsent' \subseteq 0 .. MaxFrames
    <3>1. CASE UNCHANGED unsent
      BY <1>1, <3>1 DEF RestOK
    <3>2. CASE EncodeFails(n, m)
      <4>1. m.num \in 0 .. MaxFrames
        BY <1>2, <3>2, EventKinds DEF EncodeFails, ToSend, WireEvents
      <4>2. QED
        BY <1>1, <3>2, <4>1 DEF EncodeFails, RestOK
    <3>3. QED
      BY <1>3, <3>1, <3>2 DEF InitLine, StartSend, HandleData, Ignore
  <2>4. QED
    BY <1>1, <2>2, <2>3 DEF GetMessage, RestOK, seen
<1>6. LineOK'
  <2>1. listening' \in [Sides -> BOOLEAN] /\ up' \in [Sides -> BOOLEAN] /\ buf' = buf
    BY <1>1, <1>3 DEF InitLine, StartSend, HandleData, EncodeFails, Ignore, GetMessage, LineOK
  <2>2. CASE StartSend(n, m)
    <3>1. mcu' = [mcu EXCEPT ![n] = [msg |-> m, piece |-> 1]] /\ ToSend(m)
      BY <2>2 DEF StartSend
    <3>2. m.kind \in Wire /\ Size[m.kind] \in Nat /\ 1 <= Size[m.kind] /\ 1 \in 0 .. BufLen
      <4>1. m.kind \in Wire
        BY <3>1 DEF ToSend
      <4>2. QED
        BY <4>1, SizeTyped
    <3>3. m # NoMsg /\ 1 \in 1 .. Size[m.kind] + 1
      BY <1>2, <3>2, EventKinds
    <3>4. [msg |-> m, piece |-> 1] \in [msg : Events \union {NoMsg}, piece : 0 .. BufLen]
      BY <1>2, <3>2
    <3>5. mcu' \in [Sides -> [msg : Events \union {NoMsg}, piece : 0 .. BufLen]]
      BY <1>1, <3>1, <3>4 DEF LineOK
    <3>6. mcu'[n].msg = m /\ mcu'[n].piece = 1 /\ \A k \in Sides : k # n => mcu'[k] = mcu[k]
      BY <1>1, <3>1 DEF LineOK
    <3>7. QED
      BY <1>1, <2>1, <3>1, <3>3, <3>5, <3>6 DEF LineOK
  <2>3. CASE UNCHANGED mcu
    BY <1>1, <2>1, <2>3 DEF LineOK
  <2>4. QED
    BY <1>3, <2>2, <2>3 DEF InitLine, HandleData, EncodeFails, Ignore
<1>7. WorkerOK'
  BY <1>1 DEF GetMessage, WorkerOK
<1>8. QED
  BY <1>4, <1>5, <1>6, <1>7 DEF TypeOK, QueuesOK, WorkerOK, LineOK, RestOK

(* A piece of a message on its way out. *)
LEMMA PieceTyped ==
  ASSUME NEW n \in Sides, TypeOK, mcu[n] # NotSending
  PROVE  LET m == mcu[n].msg
             i == mcu[n].piece
         IN  /\ m \in Events /\ m.kind \in Wire /\ ~m.received
             /\ i \in Nat /\ 1 <= i /\ i <= Size[m.kind] + 1
             /\ i <= Size[m.kind] => /\ PieceOf(m, i) = <<Message(m), i>>
                                     /\ PieceOf(m, i) \in Pieces /\ PieceOf(m, i) # Zero
             /\ ~ (i <= Size[m.kind]) => i = Size[m.kind] + 1 /\ PieceOf(m, i) = Zero
<1> DEFINE m == mcu[n].msg
           i == mcu[n].piece
<1>1. mcu[n] \in [msg : Events \union {NoMsg}, piece : 0 .. BufLen]
  BY DEF TypeOK
<1>2. m # NoMsg /\ ToSend(m) /\ i \in 1 .. Size[m.kind] + 1
  BY DEF TypeOK
<1>3. m \in Events /\ m.kind \in Wire /\ ~m.received
  BY <1>1, <1>2 DEF ToSend
<1> HIDE DEF m, i
<1>4. i \in Nat /\ 1 <= i /\ i <= Size[m.kind] + 1
  BY <1>2, <1>3, SizeTyped
<1>5. ASSUME i <= Size[m.kind]
      PROVE  PieceOf(m, i) = <<Message(m), i>> /\ PieceOf(m, i) \in Pieces /\ PieceOf(m, i) # Zero
  <2>1. PieceOf(m, i) = <<Message(m), i>>
    BY <1>5 DEF PieceOf
  <2>2. i \in 1 .. BufLen - 1 /\ i # 0
    BY <1>3, <1>4, <1>5, SizeTyped
  <2>3. Message(m) \in Messages
    BY <1>3, MessageTyped
  <2>4. QED
    BY <2>1, <2>2, <2>3 DEF Pieces, Zero
<1>6. ASSUME ~ (i <= Size[m.kind])
      PROVE  i = Size[m.kind] + 1 /\ PieceOf(m, i) = Zero
  BY <1>3, <1>4, <1>6, SizeTyped DEF PieceOf
<1>7. QED
  BY <1>3, <1>4, <1>5, <1>6 DEF m, i

LEMMA FilledTyped ==
  ASSUME NEW b \in Seq(Pieces), NEW p \in Pieces
  PROVE  /\ Filled(b, p, BufLen) \in Seq(Pieces)
         /\ Len(Filled(b, p, BufLen)) < BufLen
<1>1. 0 < BufLen /\ BufLen \in Nat
  BY SizeTyped DEF Wire
<1>2. CASE Len(b) + 1 < BufLen
  BY <1>1, <1>2 DEF Filled
<1>3. CASE ~ (Len(b) + 1 < BufLen)
  BY <1>1, <1>3 DEF Filled
<1>4. QED
  BY <1>2, <1>3

LEMMA SendPieceType ==
  ASSUME NEW n \in Sides, TypeOK, SendPiece(n)
  PROVE  TypeOK'
<1> DEFINE m == mcu[n].msg
           i == mcu[n].piece
           k == Peer(n)
<1>1. QueuesOK /\ WorkerOK /\ LineOK /\ RestOK /\ k \in Sides
  BY TypeParts, SidesTyped
<1>2. mcu[n] # NotSending
  BY DEF SendPiece
<1>3. UNCHANGED <<worker, msgq, ready, listening, up, unsent, got, toggled, used>>
  BY DEF SendPiece, seen
<1>4. /\ buf' \in [Sides -> Seq(Pieces)] /\ \A j \in Sides : Len(buf'[j]) < BufLen
      /\ disturbed' \in BOOLEAN
      /\ QueuesOK'
  <2>1. CASE ~ listening[k]
    BY <1>1, <1>3, <2>1 DEF SendPiece, LineOK, RestOK, QueuesOK
  <2>2. CASE listening[k] /\ i <= Size[m.kind]
    <3>1. buf' = [buf EXCEPT ![k] = Filled(buf[k], PieceOf(m, i), BufLen)] /\ evq' = evq
      BY <1>2, <2>2, PieceTyped DEF SendPiece, Receive
    <3>2. buf[k] \in Seq(Pieces) /\ PieceOf(m, i) \in Pieces
      BY <1>1, <1>2, <2>2, PieceTyped DEF LineOK
    <3>3. QED
      BY <1>1, <1>3, <2>2, <3>1, <3>2, FilledTyped DEF SendPiece, LineOK, RestOK, QueuesOK
  <2>3. CASE listening[k] /\ ~ (i <= Size[m.kind])
    <3>1. Process(k) /\ buf' = [buf EXCEPT ![k] = <<>>]
      BY <1>2, <2>3, PieceTyped DEF SendPiece, Receive
    <3>2. buf[k] \in Seq(Pieces)
      BY <1>1 DEF LineOK
    <3>3. QueuesOK'
      BY <1>1, <1>3, <3>1, <3>2, EventsTyped, SubmitTyped DEF Process, QueuesOK
    <3>4. 0 < BufLen
      BY SizeTyped DEF Wire
    <3>5. buf' \in [Sides -> Seq(Pieces)] /\ \A j \in Sides : Len(buf'[j]) < BufLen
      BY <1>1, <3>1, <3>4 DEF LineOK
    <3>6. QED
      BY <1>1, <2>3, <3>3, <3>5 DEF SendPiece, RestOK
  <2>4. QED
    BY <2>1, <2>2, <2>3
<1>5. WorkerOK'
  BY <1>1, <1>3 DEF WorkerOK
<1>6. /\ mcu' \in [Sides -> [msg : Events \union {NoMsg}, piece : 0 .. BufLen]]
      /\ \A j \in Sides :
           \/ mcu'[j] = NotSending
           \/ mcu'[j].msg # NoMsg /\ ToSend(mcu'[j].msg)
              /\ mcu'[j].piece \in 1 .. Size[mcu'[j].msg.kind] + 1
      /\ copies' \in [Sides -> Int]
  <2>1. CASE i <= Size[m.kind]
    <3>1. mcu' = [mcu EXCEPT ![n].piece = i + 1] /\ copies' = copies
      BY <2>1 DEF SendPiece
    <3>2. i + 1 \in 0 .. BufLen /\ i + 1 \in 1 .. Size[m.kind] + 1
      BY <1>2, <2>1, PieceTyped, SizeTyped
    <3>3. mcu[n] \in [msg : Events \union {NoMsg}, piece : 0 .. BufLen]
          /\ m # NoMsg /\ ToSend(m)
      BY <1>1, <1>2 DEF LineOK
    <3>4. /\ mcu'[n].msg = m /\ mcu'[n].piece = i + 1
          /\ \A j \in Sides : j # n => mcu'[j] = mcu[j]
          /\ mcu' \in [Sides -> [msg : Events \union {NoMsg}, piece : 0 .. BufLen]]
      BY <1>1, <3>1, <3>2, <3>3 DEF LineOK
    <3> HIDE DEF m, i
    <3>5. QED
      BY <1>1, <3>1, <3>2, <3>3, <3>4 DEF LineOK, RestOK
  <2>2. CASE ~ (i <= Size[m.kind])
    <3>1. mcu' = [mcu EXCEPT ![n] = NotSending] /\ copies' = [copies EXCEPT ![n] = @ - CopyOf("mcu", m)]
      BY <2>2 DEF SendPiece, Free
    <3>2. NotSending \in [msg : Events \union {NoMsg}, piece : 0 .. BufLen]
      BY SizeTyped DEF NotSending
    <3>3. CopyOf("mcu", m) \in Nat
      BY DEF CopyOf
    <3> HIDE DEF m, i
    <3>4. copies' \in [Sides -> Int]
      BY <1>1, <3>1, <3>3, CopiesTyped
    <3>5. QED
      BY <1>1, <3>1, <3>2, <3>4 DEF LineOK
  <2>3. QED
    BY <2>1, <2>2
<1>7. LineOK'
  BY <1>1, <1>3, <1>4, <1>6 DEF LineOK
<1>8. RestOK'
  BY <1>1, <1>3, <1>4, <1>6 DEF RestOK
<1>9. QED
  BY <1>4, <1>5, <1>7, <1>8 DEF TypeOK, QueuesOK, WorkerOK, LineOK, RestOK

LEMMA RestartType ==
  ASSUME NEW n \in Sides, TypeOK, Restart(n)
  PROVE  TypeOK'
<1>1. QueuesOK /\ WorkerOK /\ LineOK /\ RestOK
  BY TypeParts
<1>2. QueuesOK'
  <2>1. evq' \in [Sides -> Seq(Events)]
    <3>1. <<Ready>> \in Seq(Events)
      BY EventsTyped
    <3>2. QED
      BY <1>1, <3>1 DEF Restart, QueuesOK
  <2>2. NoQueues \in [Modules -> Seq(Events)] /\ \A q \in Modules : Len(NoQueues[q]) = 0
    BY DEF NoQueues
  <2>3. msgq' = [msgq EXCEPT ![n] = NoQueues]
    BY DEF Restart
  <2>4. \A q \in Modules : 0 <= QueueLen[q]
    BY HeatAssumption
  <2>5. QED
    BY <1>1, <2>1, <2>2, <2>3, <2>4 DEF QueuesOK
<1>3. WorkerOK'
  BY <1>1 DEF Restart, WorkerOK, IdleWorker
<1>4. LineOK'
  <2>1. NotSending \in [msg : Events \union {NoMsg}, piece : 0 .. BufLen] /\ 0 < BufLen
    BY SizeTyped DEF NotSending, Wire
  <2>2. /\ mcu' = [mcu EXCEPT ![n] = NotSending] /\ buf' = [buf EXCEPT ![n] = <<>>]
        /\ listening' = [listening EXCEPT ![n] = FALSE] /\ up' = [up EXCEPT ![n] = TRUE]
    BY DEF Restart
  <2>3. QED
    BY <1>1, <2>1, <2>2 DEF LineOK
<1>5. RestOK'
  <2>1. used' \in [Inputs -> Nat] /\ used'["frames"] <= MaxFrames
    BY <1>1, UseTyped DEF Restart, Inputs
  <2>2. QED
    BY <1>1, <2>1 DEF Restart, RestOK, seen
<1>6. QED
  BY <1>2, <1>3, <1>4, <1>5 DEF TypeOK, QueuesOK, WorkerOK, LineOK, RestOK

LEMMA TypeStep == TypeOK /\ [Next]_vars => TypeOK'
<1> SUFFICES ASSUME TypeOK, [Next]_vars PROVE TypeOK'
  OBVIOUS
<1>1. ASSUME NEW n \in Sides, Workqueue(n) \/ McuThread(n) \/ Restart(n)
      PROVE  TypeOK'
  BY <1>1, HandleEventType, PutType, GetMessageType, SendPieceType, RestartType
     DEF Workqueue, McuThread
<1>2. CASE UNCHANGED vars
  BY <1>2 DEF vars, TypeOK
<1>3. QED
  BY <1>1, <1>2, SenseType, PressType, CommType DEF Next

(***************************************************************************)
(* The link's state is always of its type: no queue is longer than it may  *)
(* be, and uart_buf is never filled to its end.                            *)
(***************************************************************************)
THEOREM TypeCorrect == Spec => []TypeOK
BY InitType, TypeStep, PTL DEF Spec

-----------------------------------------------------------------------------
(* The line in step *)

LEMMA InStepElsewhere ==
  InStep /\ UNCHANGED <<mcu, buf, disturbed>> => InStep'
BY DEF InStep

LEMMA InStepGetMessage ==
  ASSUME NEW n \in Sides, TypeOK, InStep, GetMessage(n)
  PROVE  InStep'
<1> DEFINE m == Head(msgq[n]["mcu"])
<1>1. buf' = buf /\ disturbed' = disturbed /\ mcu[n] = NotSending
  BY DEF GetMessage
<1>2. CASE UNCHANGED mcu
  BY <1>1, <1>2, InStepElsewhere
<1>3. CASE StartSend(n, m) /\ ~disturbed
  <2>1. mcu' = [mcu EXCEPT ![n] = [msg |-> m, piece |-> 1]]
    BY <1>3 DEF StartSend
  <2> HIDE DEF m
  <2>2. /\ mcu'[n].msg = m /\ mcu'[n].piece = 1 /\ mcu'[n] # NotSending
        /\ \A j \in Sides : j # n => mcu'[j] = mcu[j]
    BY <2>1 DEF TypeOK, NotSending
  <2>3. buf[Peer(n)] = <<>>
    BY <1>1, <1>3 DEF InStep
  <2>4. QED
    BY <1>1, <1>3, <2>2, <2>3 DEF InStep
<1>4. CASE disturbed
  BY <1>1, <1>4 DEF InStep
<1>5. QED
  BY <1>2, <1>3, <1>4 DEF GetMessage, InitLine, HandleData, EncodeFails, Ignore

(* Undisturbed, what is in the buffer is what has been sent so far. *)
LEMMA InStepBuffer ==
  ASSUME NEW n \in Sides, TypeOK, InStep, ~disturbed, mcu[n] # NotSending
  PROVE  LET b == buf[Peer(n)]
         IN  /\ b \in Seq(Pieces) /\ Len(b) = mcu[n].piece - 1
             /\ \A i \in 1 .. Len(b) : b[i] = <<Message(mcu[n].msg), i>>
<1> DEFINE m == mcu[n].msg
           i == mcu[n].piece
           b == buf[Peer(n)]
<1>1. b \in Seq(Pieces) /\ Len(b) = i - 1 /\ \A j \in DOMAIN b : b[j] = PieceOf(m, j)
  BY SidesTyped DEF InStep, TypeOK
<1>2. m.kind \in Wire /\ i \in Nat /\ i <= Size[m.kind] + 1 /\ Size[m.kind] \in Nat
  BY PieceTyped, SizeTyped
<1> HIDE DEF m, i, b
<1>3. \A j \in 1 .. Len(b) : j <= Size[m.kind] /\ b[j] = PieceOf(m, j)
  BY <1>1, <1>2
<1>4. \A j \in 1 .. Len(b) : b[j] = <<Message(m), j>>
  BY <1>3 DEF PieceOf
<1>5. QED
  BY <1>1, <1>4 DEF m, i, b

LEMMA InStepSendPiece ==
  ASSUME NEW n \in Sides, TypeOK, InStep, SendPiece(n)
  PROVE  InStep'
<1> DEFINE m == mcu[n].msg
           i == mcu[n].piece
           k == Peer(n)
<1>1. k \in Sides /\ k # n /\ Peer(k) = n /\ \A j \in Sides : j # n => j = k
  BY DEF Sides, Peer
<1>2. mcu[n] # NotSending
  BY DEF SendPiece
<1>3. CASE disturbed'
  BY <1>3 DEF InStep
<1>4. CASE ~disturbed' /\ i <= Size[m.kind]
  <2>1. listening[k] /\ ~disturbed
    BY <1>4 DEF SendPiece
  <2>2. /\ buf' = [buf EXCEPT ![k] = Filled(buf[k], PieceOf(m, i), BufLen)]
        /\ mcu' = [mcu EXCEPT ![n].piece = i + 1]
    BY <1>2, <1>4, <2>1, PieceTyped DEF SendPiece, Receive
  <2>3. /\ buf[k] \in Seq(Pieces) /\ Len(buf[k]) = i - 1
        /\ \A j \in 1 .. Len(buf[k]) : buf[k][j] = <<Message(m), j>>
    BY <1>2, <2>1, InStepBuffer
  <2>4. i \in Nat /\ 1 <= i /\ i < BufLen /\ PieceOf(m, i) = <<Message(m), i>>
    BY <1>2, <1>4, PieceTyped, SizeTyped
  <2>5. buf'[k] = Append(buf[k], PieceOf(m, i))
    <3>1. Filled(buf[k], PieceOf(m, i), BufLen) = Append(buf[k], PieceOf(m, i))
      BY <2>3, <2>4, SizeTyped DEF Filled
    <3>2. k \in DOMAIN buf
      BY <1>1 DEF TypeOK
    <3>3. QED
      BY <2>2, <3>1, <3>2
  <2>6. /\ mcu'[n].msg = m /\ mcu'[n].piece = i + 1 /\ mcu'[k] = mcu[k] /\ buf'[n] = buf[n]
        /\ mcu'[n] # NotSending
    BY <1>1, <2>2, <2>4 DEF TypeOK, NotSending
  <2> HIDE DEF m, i, k
  <2>7. Len(buf'[k]) = i /\ \A j \in 1 .. i : buf'[k][j] = PieceOf(m, j)
    <3>1. \A j \in 1 .. i : j <= Size[m.kind]
      BY <1>2, <1>4, <2>4, PieceTyped, SizeTyped DEF m, i
    <3> DEFINE b == buf[k]
               p == <<Message(m), i>>
    <3>2. buf'[k] = Append(b, p) /\ b \in Seq(Pieces) /\ Len(b) = i - 1
      BY <2>3, <2>4, <2>5
    <3>3. \A j \in 1 .. i : Append(b, p)[j] = IF j = i THEN p ELSE b[j]
      BY <2>4, <3>2
    <3>4. \A j \in 1 .. i : Append(b, p)[j] = <<Message(m), j>>
      BY <2>3, <2>4, <3>2, <3>3
    <3>5. Len(Append(b, p)) = i
      BY <2>4, <3>2
    <3>6. QED
      BY <3>1, <3>2, <3>4, <3>5 DEF PieceOf
  <2>8. DOMAIN buf'[k] = 1 .. i
    BY <2>3, <2>4, <2>5
  <2>9. IF mcu[k] = NotSending THEN buf[n] = <<>>
        ELSE /\ Len(buf[n]) = mcu[k].piece - 1
             /\ \A j \in DOMAIN buf[n] : buf[n][j] = PieceOf(mcu[k].msg, j)
    BY <1>1, <2>1 DEF InStep
  <2>10. QED
    BY <1>1, <2>4, <2>6, <2>7, <2>8, <2>9 DEF InStep, k
<1>5. CASE ~disturbed' /\ ~ (i <= Size[m.kind])
  <2>1. listening[k] /\ ~disturbed
    BY <1>5 DEF SendPiece
  <2>2. buf' = [buf EXCEPT ![k] = <<>>] /\ mcu' = [mcu EXCEPT ![n] = NotSending]
    BY <1>2, <1>5, <2>1, PieceTyped DEF SendPiece, Receive
  <2>3. buf'[k] = <<>> /\ mcu'[n] = NotSending /\ buf'[n] = buf[n] /\ mcu'[k] = mcu[k]
    BY <1>1, <2>2 DEF TypeOK
  <2>4. QED
    BY <1>1, <2>1, <2>3 DEF InStep
<1>6. QED
  BY <1>3, <1>4, <1>5

LEMMA InStepStep == TypeOK /\ InStep /\ [Next]_vars => InStep'
<1> SUFFICES ASSUME TypeOK, InStep, [Next]_vars PROVE InStep'
  OBVIOUS
<1>1. CASE Sense \/ Press \/ Comm
  BY <1>1, InStepElsewhere DEF Sense, Press, Comm, line
<1>2. ASSUME NEW n \in Sides, Workqueue(n) PROVE InStep'
  BY <1>2, InStepElsewhere DEF Workqueue, HandleEvent, Put, line
<1>3. ASSUME NEW n \in Sides, McuThread(n) PROVE InStep'
  BY <1>3, InStepGetMessage, InStepSendPiece DEF McuThread
<1>4. ASSUME NEW n \in Sides, Restart(n) PROVE InStep'
  BY <1>4 DEF Restart, InStep
<1>5. CASE UNCHANGED vars
  BY <1>5, InStepElsewhere DEF vars
<1>6. QED
  BY <1>1, <1>2, <1>3, <1>4, <1>5 DEF Next

(***************************************************************************)
(* Undisturbed, the receive buffer has exactly what the other side has     *)
(* sent of its message, so that it is never discarded: for messages of any *)
(* size that fit.                                                          *)
(***************************************************************************)
THEOREM LineInStep == Spec => []InStep
<1>1. Init => InStep
  BY SidesTyped DEF Init, InStep
<1>2. QED
  BY <1>1, InStepStep, TypeCorrect, PTL DEF Spec

-----------------------------------------------------------------------------
(* What is on its way on each side *)

(* The events there may be: heat maps and buttons of the other side are    *)
(* received ones, and text that cannot be parsed comes of a disturbance.   *)
May(n) ==
  {e \in Events :
     /\ n = "nrf91" /\ e.kind = "MAP" => e.received
     /\ n = "nrf52" /\ e.kind = "BUTTON" => e.received
     /\ disturbed \/ (e.kind = "DATA" => Parses(e.bytes))}

Traffic ==
  \A n \in Sides :
    /\ evq[n] \in Seq(May(n))
    /\ worker[n].msg # NoMsg => worker[n].msg \in May(n)
    /\ \A q \in Modules : msgq[n][q] \in Seq(May(n))
    /\ mcu[n] # NotSending => mcu[n].msg \in May(n)

(* What may be there still may when the line is disturbed. *)
LEMMA MayGrows ==
  ASSUME Traffic, disturbed => disturbed'
  PROVE  \A n \in Sides :
           /\ May(n) \subseteq May(n)'
           /\ evq[n] \in Seq(May(n)')
           /\ worker[n].msg # NoMsg => worker[n].msg \in May(n)'
           /\ \A q \in Modules : msgq[n][q] \in Seq(May(n)')
           /\ mcu[n] # NotSending => mcu[n].msg \in May(n)'
<1>1. ASSUME NEW n \in Sides PROVE May(n) \subseteq May(n)'
  BY DEF May
<1>2. ASSUME NEW S, NEW T, S \subseteq T, NEW s \in Seq(S) PROVE s \in Seq(T)
  BY <1>2
<1>3. QED
  BY <1>1, <1>2 DEF Traffic

(* Events that may always be there. *)
LEMMA MayAlways ==
  ASSUME NEW n \in Sides
  PROVE  /\ Ready \in May(n)' /\ Trouble \in May(n)'
         /\ \A k \in 1 .. MaxFrames : Frame(k) \in May(n)'
         /\ \A e \in Events : /\ e.kind # "DATA"
                              /\ n = "nrf91" /\ e.kind = "MAP" => e.received
                              /\ n = "nrf52" /\ e.kind = "BUTTON" => e.received
                              => e \in May(n)'
<1>1. Ready.kind = "READY" /\ Trouble.kind = "TROUBLE" /\ \A k \in 1 .. MaxFrames : Frame(k).kind = "FRAME"
  BY DEF Ready, Trouble, Frame
<1>2. QED
  BY <1>1, EventsTyped DEF May

LEMMA TrafficSubmit ==
  ASSUME NEW n \in Sides, TypeOK, Traffic, UNCHANGED <<worker, msgq, mcu>>,
         disturbed => disturbed',
         UNCHANGED evq \/ \E e \in May(n)' : Submit(n, e)
  PROVE  Traffic'
<1>1. ASSUME NEW e \in May(n)', Submit(n, e) PROVE Traffic'
  <2>1. evq' = [evq EXCEPT ![n] = Append(@, e)] /\ Append(evq[n], e) \in Seq(May(n)')
    BY <1>1, MayGrows DEF Submit
  <2>2. \A k \in Sides : evq'[k] = IF k = n THEN Append(evq[n], e) ELSE evq[k]
    BY <2>1 DEF TypeOK
  <2>3. QED
    BY <2>1, <2>2, MayGrows DEF Traffic
<1>2. CASE UNCHANGED evq
  BY <1>2, MayGrows DEF Traffic
<1>3. QED
  BY <1>1, <1>2

LEMMA TrafficInputs == TypeOK /\ Traffic /\ (Sense \/ Press) => Traffic'
<1>1. ASSUME TypeOK, Traffic, Sense PROVE Traffic'
  <2>1. CASE Submit("nrf52", Trouble)
    BY <1>1, <2>1, TrafficSubmit, MayAlways, SidesTyped DEF Sense, line
  <2>2. CASE Use("frames") /\ Submit("nrf52", Frame(used["frames"] + 1))
    <3>1. "frames" \in Inputs /\ RestOK
      BY <1>1, TypeParts DEF Inputs
    <3>2. used["frames"] \in Nat /\ used["frames"] + 1 <= MaxFrames /\ MaxFrames \in Nat
      BY <2>2, <3>1, UseTyped, HeatAssumption DEF RestOK
    <3>3. used["frames"] + 1 \in 1 .. MaxFrames
      BY <3>2
    <3>4. QED
      BY <1>1, <2>2, <3>3, TrafficSubmit, MayAlways, SidesTyped DEF Sense, line
  <2>3. QED
    BY <1>1, <2>1, <2>2 DEF Sense
<1>2. ASSUME TypeOK, Traffic, Press PROVE Traffic'
  <2>1. PICK r \in BOOLEAN : Submit("nrf91", Mcu("BUTTON", 0, r))
    BY <1>2 DEF Press
  <2>2. Mcu("BUTTON", 0, r) \in Events /\ Mcu("BUTTON", 0, r).kind = "BUTTON"
    BY EventsTyped, HeatAssumption DEF Wire, Mcu
  <2>3. Mcu("BUTTON", 0, r) \in May("nrf91")'
    BY <2>2, MayAlways, SidesTyped
  <2>4. QED
    BY <1>2, <2>1, <2>3, TrafficSubmit, SidesTyped DEF Press, line
<1>3. QED
  BY <1>1, <1>2

LEMMA TrafficHandleEvent ==
  ASSUME NEW n \in Sides, TypeOK, Traffic, HandleEvent(n)
  PROVE  Traffic'
<1> DEFINE m == Head(evq[n])
<1>1. UNCHANGED <<msgq, mcu, disturbed>>
  BY DEF HandleEvent, line
<1>2. m \in May(n)' /\ Tail(evq[n]) \in Seq(May(n)')
  BY <1>1, MayGrows DEF HandleEvent
<1>3. worker' = [worker EXCEPT ![n] = [msg |-> m, to |-> Listeners(n, m)]]
  BY DEF HandleEvent
<1>4. \A k \in Sides : evq'[k] = IF k = n THEN Tail(evq[n]) ELSE evq[k]
  BY DEF HandleEvent, TypeOK
<1> HIDE DEF m
<1>5. \A k \in Sides : worker'[k].msg = IF k = n THEN m ELSE worker[k].msg
  BY <1>3 DEF TypeOK
<1>6. QED
  BY <1>1, <1>2, <1>4, <1>5, MayGrows DEF Traffic

LEMMA TrafficPut ==
  ASSUME NEW n \in Sides, NEW q \in Modules, TypeOK, Traffic, Put(n, q)
  PROVE  Traffic'
<1>1. UNCHANGED <<evq, mcu, disturbed>>
  BY DEF Put, line
<1>2. worker[n].msg # NoMsg
  BY PutTyped, EventKinds
<1>3. Append(msgq[n][q], worker[n].msg) \in Seq(May(n)')
  BY <1>1, <1>2, MayGrows
<1>4. \A k \in Sides, r \in Modules :
        msgq'[k][r] = IF k = n /\ r = q THEN Append(msgq[n][q], worker[n].msg) ELSE msgq[k][r]
  BY DEF Put, TypeOK
<1>5. \A k \in Sides : worker'[k].msg \in {worker[k].msg, NoMsg}
  BY DEF Put, TypeOK, IdleWorker
<1>6. QED
  BY <1>1, <1>3, <1>4, <1>5, MayGrows DEF Traffic

(* A message is taken, an event may be submitted, and sending may begin. *)
LEMMA TrafficTake ==
  ASSUME NEW n \in Sides, NEW q \in Modules, TypeOK, Traffic, msgq[n][q] # <<>>,
         msgq' = [msgq EXCEPT ![n][q] = Tail(@)],
         UNCHANGED <<worker, disturbed>>,
         UNCHANGED evq \/ \E e \in May(n)' : Submit(n, e),
         UNCHANGED mcu \/ mcu' = [mcu EXCEPT ![n] = [msg |-> Head(msgq[n][q]), piece |-> 1]]
  PROVE  Traffic'
<1> DEFINE m == Head(msgq[n][q])
<1>1. m \in May(n)' /\ Tail(msgq[n][q]) \in Seq(May(n)')
  BY MayGrows
<1>2. \A k \in Sides, r \in Modules :
        msgq'[k][r] = IF k = n /\ r = q THEN Tail(msgq[n][q]) ELSE msgq[k][r]
  BY DEF TypeOK
<1> HIDE DEF m
<1>3. \A k \in Sides : mcu'[k].msg = mcu[k].msg \/ (k = n /\ mcu'[k].msg = m)
  BY DEF TypeOK, m
<1>4. \A k \in Sides : mcu'[k] # mcu[k] => k = n /\ mcu'[k].msg = m
  BY DEF TypeOK, m
<1>5. \A k \in Sides : evq'[k] \in Seq(May(k)')
  <2>1. ASSUME NEW e \in May(n)', Submit(n, e)
        PROVE  \A k \in Sides : evq'[k] \in Seq(May(k)')
    <3>1. evq' = [evq EXCEPT ![n] = Append(@, e)] /\ Append(evq[n], e) \in Seq(May(n)')
      BY <2>1, MayGrows DEF Submit
    <3>2. \A k \in Sides : evq'[k] = IF k = n THEN Append(evq[n], e) ELSE evq[k]
      BY <3>1 DEF TypeOK
    <3>3. QED
      BY <3>1, <3>2, MayGrows
  <2>2. QED
    BY <2>1, MayGrows
<1>6. QED
  BY <1>1, <1>2, <1>4, <1>5, MayGrows DEF Traffic

LEMMA TrafficComm == TypeOK /\ Traffic /\ Comm => Traffic'
<1> SUFFICES ASSUME TypeOK, Traffic, Comm PROVE Traffic'
  OBVIOUS
<1> DEFINE m == Head(msgq["nrf52"]["comm"])
<1>1. m \in Events /\ Route(m)
  BY TakenTyped, SidesTyped DEF Comm
<1>2. UNCHANGED evq \/ \E e \in May("nrf52")' : Submit("nrf52", e)
  BY <1>1, Routed, MayAlways, SidesTyped
<1>3. QED
  BY <1>2, TrafficTake, SidesTyped DEF Comm, line

LEMMA TrafficGetMessage ==
  ASSUME NEW n \in Sides, TypeOK, Traffic, GetMessage(n)
  PROVE  Traffic'
<1> DEFINE m == Head(msgq[n]["mcu"])
<1>1. m \in Events /\ (InitLine(n, m) \/ StartSend(n, m) \/ HandleData(n, m) \/ EncodeFails(n, m) \/ Ignore(n, m))
  BY TakenTyped, SidesTyped DEF GetMessage
<1>2. UNCHANGED evq \/ \E e \in May(n)' : Submit(n, e)
  BY <1>1, Handled, MayAlways
<1>3. UNCHANGED mcu \/ mcu' = [mcu EXCEPT ![n] = [msg |-> m, piece |-> 1]]
  BY <1>1 DEF InitLine, StartSend, HandleData, EncodeFails, Ignore
<1>4. QED
  BY <1>2, <1>3, TrafficTake, SidesTyped DEF GetMessage

LEMMA TrafficSendPiece ==
  ASSUME NEW n \in Sides, TypeOK, Traffic, InStep, SendPiece(n)
  PROVE  Traffic'
<1> DEFINE m == mcu[n].msg
           i == mcu[n].piece
           k == Peer(n)
<1>1. k \in Sides /\ mcu[n] # NotSending
  BY SidesTyped DEF SendPiece
<1>2. UNCHANGED <<worker, msgq>> /\ (disturbed => disturbed')
  BY DEF SendPiece
<1>3. \A j \in Sides : mcu'[j] # NotSending => mcu[j] # NotSending /\ mcu'[j].msg = mcu[j].msg
  <2>1. mcu' = [mcu EXCEPT ![n].piece = i + 1] \/ mcu' = [mcu EXCEPT ![n] = NotSending]
    BY DEF SendPiece
  <2>2. mcu \in [Sides -> [msg : Events \union {NoMsg}, piece : 0 .. BufLen]]
    BY DEF TypeOK
  <2>3. \A j \in Sides : j # n => mcu'[j] = mcu[j]
    BY <2>1, <2>2
  <2>4. mcu'[n] = NotSending \/ mcu'[n].msg = mcu[n].msg
    BY <2>1, <2>2
  <2>5. QED
    BY <1>1, <2>3, <2>4
<1>4. UNCHANGED evq \/ \E e \in May(k)' : Submit(k, e)
  <2>1. CASE listening[k] /\ ~ (i <= Size[m.kind]) /\ buf[k] # <<>>
    <3>1. Submit(k, Data(buf[k])) /\ disturbed' = disturbed
      BY <1>1, <2>1, PieceTyped DEF SendPiece, Receive, Process
    <3>2. buf[k] \in Seq(Pieces)
      BY <1>1 DEF TypeOK
    <3>3. disturbed \/ Parses(buf[k])
      <4>1. SUFFICES ASSUME ~disturbed PROVE Parses(buf[k])
        OBVIOUS
      <4>2. Len(buf[k]) = i - 1 /\ \A j \in 1 .. Len(buf[k]) : buf[k][j] = <<Message(m), j>>
        BY <1>1, <4>1, InStepBuffer
      <4>3. /\ i = Size[m.kind] + 1 /\ Size[m.kind] \in Nat /\ 1 <= Size[m.kind]
            /\ Message(m).kind = m.kind
        BY <1>1, <2>1, PieceTyped, SizeTyped, MessageTyped
      <4>4. Len(buf[k]) = Size[m.kind] /\ buf[k][1][1] = Message(m)
        <5> HIDE DEF m, i, k
        <5>1. Len(buf[k]) = Size[m.kind] /\ 1 \in 1 .. Len(buf[k])
          BY <4>2, <4>3
        <5>2. buf[k][1] = <<Message(m), 1>>
          BY <4>2, <5>1
        <5>3. QED
          BY <5>1, <5>2
      <4>5. QED
        BY <2>1, <4>2, <4>3, <4>4 DEF Parses
    <3>4. Data(buf[k]) \in May(k)'
      <4>1. Data(buf[k]).kind = "DATA" /\ Data(buf[k]).bytes = buf[k] /\ Data(buf[k]) \in Events
        BY <3>2, EventsTyped DEF Data
      <4>2. QED
        BY <3>1, <3>3, <4>1 DEF May
    <3>5. QED
      BY <3>1, <3>4
  <2>2. CASE ~ (listening[k] /\ ~ (i <= Size[m.kind]) /\ buf[k] # <<>>)
    BY <1>1, <2>2, PieceTyped DEF SendPiece, Receive, Process
  <2>3. QED
    BY <2>1, <2>2
<1>5. \A j \in Sides : evq'[j] \in Seq(May(j)')
  <2>1. ASSUME NEW e \in May(k)', Submit(k, e)
        PROVE  \A j \in Sides : evq'[j] \in Seq(May(j)')
    <3>1. evq' = [evq EXCEPT ![k] = Append(@, e)] /\ Append(evq[k], e) \in Seq(May(k)')
      BY <1>1, <1>2, <2>1, MayGrows DEF Submit
    <3>2. \A j \in Sides : evq'[j] = IF j = k THEN Append(evq[k], e) ELSE evq[j]
      BY <3>1 DEF TypeOK
    <3>3. QED
      BY <1>2, <3>1, <3>2, MayGrows
  <2>2. QED
    BY <1>2, <1>4, <2>1, MayGrows
<1>6. QED
  BY <1>2, <1>3, <1>5, MayGrows DEF Traffic

LEMMA TrafficRestart ==
  ASSUME NEW n \in Sides, TypeOK, Traffic, Restart(n)
  PROVE  Traffic'
<1>1. disturbed'
  BY DEF Restart
<1>2. <<Ready>> \in Seq(May(n)')
  BY MayAlways
<1>3. \A k \in Sides :
        IF k = n
        THEN /\ evq'[k] = <<Ready>> /\ worker'[k] = IdleWorker
             /\ msgq'[k] = NoQueues /\ mcu'[k] = NotSending
        ELSE /\ evq'[k] = evq[k] /\ worker'[k] = worker[k]
             /\ msgq'[k] = msgq[k] /\ mcu'[k] = mcu[k]
  BY DEF Restart, TypeOK
<1>4. IdleWorker.msg = NoMsg /\ \A q \in Modules : NoQueues[q] \in Seq(May(n)')
  BY DEF IdleWorker, NoQueues
<1>5. QED
  BY <1>1, <1>2, <1>3, <1>4, MayGrows DEF Traffic

LEMMA TrafficStep == TypeOK /\ InStep /\ Traffic /\ [Next]_vars => Traffic'
<1> SUFFICES ASSUME TypeOK, InStep, Traffic, [Next]_vars PROVE Traffic'
  OBVIOUS
<1>1. ASSUME NEW n \in Sides, Workqueue(n) \/ McuThread(n) \/ Restart(n)
      PROVE  Traffic'
  BY <1>1, TrafficHandleEvent, TrafficPut, TrafficGetMessage, TrafficSendPiece, TrafficRestart
     DEF Workqueue, McuThread
<1>2. CASE UNCHANGED vars
  BY <1>2 DEF vars, Traffic, May
<1>3. QED
  BY <1>1, <1>2, TrafficInputs, TrafficComm DEF Next

LEMMA TrafficInit == Init => Traffic
<1> SUFFICES ASSUME Init PROVE Traffic
  OBVIOUS
<1>1. \A n \in Sides : Ready \in May(n)
  BY EventsTyped DEF May, Ready
<1>2. \A n \in Sides : <<Ready>> \in Seq(May(n))
  BY <1>1
<1>3. QED
  BY <1>2 DEF Init, Traffic, IdleWorker, NoQueues

LEMMA TrafficCorrect == Spec => []Traffic
BY TrafficInit, TrafficStep, TypeCorrect, LineInStep, PTL DEF Spec

(***************************************************************************)
(* parse_message() reads the fields of nothing only after a restart or a   *)
(* message nobody listened to: undisturbed, all text is that of a message. *)
(***************************************************************************)
THEOREM FaultsNeedACut == Spec => []FaultOnlyAfterCut
<1>1. Init => FaultOnlyAfterCut
  BY DEF Init, FaultOnlyAfterCut
<1>2. TypeOK /\ Traffic /\ FaultOnlyAfterCut /\ [Next]_vars => FaultOnlyAfterCut'
  <2> SUFFICES ASSUME TypeOK, Traffic, FaultOnlyAfterCut, [Next]_vars
               PROVE  FaultOnlyAfterCut'
    OBVIOUS
  <2>1. ASSUME NEW n \in Sides, GetMessage(n) PROVE FaultOnlyAfterCut'
    <3> DEFINE m == Head(msgq[n]["mcu"])
    <3>1. m \in May(n)
      BY <2>1, SidesTyped DEF Traffic, GetMessage
    <3>2. disturbed' = disturbed /\ (up' = up \/ disturbed)
      BY <2>1, <3>1 DEF GetMessage, InitLine, StartSend, HandleData, EncodeFails, Ignore, May
    <3>3. QED
      BY <3>2 DEF FaultOnlyAfterCut
  <2>2. ASSUME NEW n \in Sides, SendPiece(n) PROVE FaultOnlyAfterCut'
    BY <2>2 DEF SendPiece, FaultOnlyAfterCut
  <2>3. ASSUME NEW n \in Sides, Restart(n) PROVE FaultOnlyAfterCut'
    BY <2>3 DEF Restart, FaultOnlyAfterCut
  <2>4. CASE Sense \/ Press \/ Comm \/ UNCHANGED vars
    BY <2>4 DEF Sense, Press, Comm, vars, line, FaultOnlyAfterCut
  <2>5. ASSUME NEW n \in Sides, Workqueue(n) PROVE FaultOnlyAfterCut'
    BY <2>5 DEF Workqueue, HandleEvent, Put, line, FaultOnlyAfterCut
  <2>6. QED
    BY <2>1, <2>2, <2>3, <2>4, <2>5 DEF Next, McuThread
<1>3. QED
  BY <1>1, <1>2, TrafficCorrect, TypeCorrect, PTL DEF Spec

-----------------------------------------------------------------------------
(* The copies of payloads *)

Payload(q) == {e \in Events : e.kind \in Copied(q)}

Queued(n, q) == CountIn(msgq[n][q], Payload(q))

Sending(n) == IF mcu[n] = NotSending THEN 0 ELSE 1

LEMMA QueuedIs ==
  ASSUME TypeOK, NEW n \in Sides, NEW q \in Modules
  PROVE  /\ Queued(n, q)
            = Cardinality({i \in DOMAIN msgq[n][q] : msgq[n][q][i].kind \in Copied(q)})
         /\ Queued(n, q) \in Nat
<1>1. msgq[n][q] \in Seq(Events)
  BY DEF TypeOK
<1>2. {i \in DOMAIN msgq[n][q] : msgq[n][q][i] \in Payload(q)}
      = {i \in DOMAIN msgq[n][q] : msgq[n][q][i].kind \in Copied(q)}
  BY <1>1 DEF Payload
<1>3. QED
  BY <1>1, <1>2, PositionsFinite DEF Queued, CountIn

(* HeapAccounted in these terms. *)
Accounted ==
  \A n \in Sides : up[n] => copies[n] = Queued(n, "comm") + Queued(n, "mcu") + Sending(n)

LEMMA HeapIsAccounted == TypeOK => (HeapAccounted <=> Accounted)
BY QueuedIs, SidesTyped DEF HeapAccounted, Accounted, Sending

LEMMA AccountedElsewhere ==
  Accounted /\ UNCHANGED <<msgq, mcu, up, copies>> => Accounted'
BY DEF Accounted, Queued, Sending

LEMMA AccountedPut ==
  ASSUME NEW n \in Sides, NEW q \in Modules, TypeOK, Accounted, Put(n, q)
  PROVE  Accounted'
<1> DEFINE m == worker[n].msg
<1>1. UNCHANGED <<mcu, up>> /\ copies' = [copies EXCEPT ![n] = @ + CopyOf(q, m)]
  BY DEF Put, line
<1>2. m \in Events /\ msgq[n][q] \in Seq(Events) /\ CopyOf(q, m) \in Nat
  BY PutTyped
<1> HIDE DEF m
<1>3. CountIn(Append(msgq[n][q], m), Payload(q)) = Queued(n, q) + CopyOf(q, m)
  BY <1>2, CountAppend DEF Queued, CopyOf, Payload
<1>4. \A k \in Sides, r \in Modules :
        msgq'[k][r] = IF k = n /\ r = q THEN Append(msgq[n][q], m) ELSE msgq[k][r]
  BY DEF Put, TypeOK, m
<1>5. \A k \in Sides, r \in Modules :
        Queued(k, r)' = IF k = n /\ r = q THEN Queued(n, q) + CopyOf(q, m) ELSE Queued(k, r)
  BY <1>3, <1>4 DEF Queued
<1>6. \A k \in Sides : copies'[k] = IF k = n THEN copies[n] + CopyOf(q, m) ELSE copies[k]
  BY <1>1 DEF TypeOK
<1>7. \A k \in Sides, r \in Modules : Queued(k, r) \in Nat
  BY QueuedIs
<1>8. \A k \in Sides : Sending(k)' = Sending(k) /\ Sending(k) \in Nat
  BY <1>1 DEF Sending
<1>9. q = "comm" \/ q = "mcu"
  BY DEF Modules
<1>10. \A k \in Sides : copies[k] \in Int
  BY DEF TypeOK
<1>11. ASSUME NEW k \in Sides, up'[k]
       PROVE  copies'[k] = Queued(k, "comm")' + Queued(k, "mcu")' + Sending(k)'
  <2> DEFINE d == IF k = n THEN CopyOf(q, m) ELSE 0
  <2>1. copies[k] = Queued(k, "comm") + Queued(k, "mcu") + Sending(k)
    BY <1>1, <1>11 DEF Accounted
  <2>2. copies'[k] = copies[k] + d /\ d \in Nat
    BY <1>2, <1>6, <1>10
  <2>3. /\ Queued(k, "comm")' = Queued(k, "comm") + (IF q = "comm" THEN d ELSE 0)
        /\ Queued(k, "mcu")' = Queued(k, "mcu") + (IF q = "mcu" THEN d ELSE 0)
    BY <1>5, <1>7, SidesTyped
  <2>4. Queued(k, "comm") \in Nat /\ Queued(k, "mcu") \in Nat
    BY <1>7, SidesTyped
  <2> HIDE DEF d
  <2>5. Queued(k, "comm")' + Queued(k, "mcu")' = Queued(k, "comm") + Queued(k, "mcu") + d
    BY <1>9, <2>2, <2>3, <2>4
  <2>6. QED
    BY <1>8, <2>1, <2>2, <2>4, <2>5
<1>12. QED
  BY <1>11 DEF Accounted

(* A message is taken: its copy is freed, or it is being sent. *)
LEMMA AccountedTake ==
  ASSUME NEW n \in Sides, NEW q \in Modules, TypeOK, Accounted, msgq[n][q] # <<>>,
         msgq' = [msgq EXCEPT ![n][q] = Tail(@)],
         \A k \in Sides : up'[k] => up[k],
         \/ UNCHANGED mcu /\ copies' = [copies EXCEPT ![n] = @ - CopyOf(q, Head(msgq[n][q]))]
         \/ UNCHANGED copies /\ CopyOf(q, Head(msgq[n][q])) = 1
            /\ mcu[n] = NotSending /\ mcu'[n] # NotSending
            /\ \A k \in Sides : k # n => mcu'[k] = mcu[k]
  PROVE  Accounted'
<1> DEFINE m == Head(msgq[n][q])
           c == CopyOf(q, m)
<1>1. m \in Events /\ msgq[n][q] \in Seq(Events) /\ c \in Nat
  BY TakenTyped DEF TypeOK
<1>2. CountIn(Tail(msgq[n][q]), Payload(q)) + c = Queued(n, q)
  <2>1. (m \in Payload(q)) <=> m.kind \in Copied(q)
    BY <1>1 DEF Payload
  <2>2. CountIn(Tail(msgq[n][q]), Payload(q)) \in Nat
    <3>1. Tail(msgq[n][q]) \in Seq(Events)
      BY TakenTyped
    <3>2. QED
      BY <3>1, PositionsFinite
  <2>3. QED
    BY <1>1, <2>1, <2>2, CountTail DEF Queued, CopyOf
<1>3. \A k \in Sides, r \in Modules :
        msgq'[k][r] = IF k = n /\ r = q THEN Tail(msgq[n][q]) ELSE msgq[k][r]
  BY DEF TypeOK
<1>4. /\ Queued(n, q)' + c = Queued(n, q)
      /\ \A k \in Sides, r \in Modules : ~ (k = n /\ r = q) => Queued(k, r)' = Queued(k, r)
  BY <1>2, <1>3 DEF Queued
<1>5. \A k \in Sides : copies'[k] + Sending(k)
                       = copies[k] + Sending(k)' - (IF k = n THEN c ELSE 0)
  <2>1. \A k \in Sides : copies[k] \in Int /\ Sending(k) \in Nat /\ Sending(k)' \in Nat
    BY DEF TypeOK, Sending
  <2>2. CASE UNCHANGED mcu /\ copies' = [copies EXCEPT ![n] = @ - CopyOf(q, Head(msgq[n][q]))]
    <3>1. copies' = [copies EXCEPT ![n] = @ - c]
      BY <2>2
    <3> HIDE DEF m, c
    <3>2. \A k \in Sides : copies'[k] = IF k = n THEN copies[n] - c ELSE copies[k]
      BY <3>1 DEF TypeOK
    <3>3. \A k \in Sides : Sending(k)' = Sending(k)
      BY <2>2 DEF Sending
    <3>4. QED
      BY <1>1, <2>1, <3>2, <3>3
  <2>3. CASE /\ UNCHANGED copies /\ c = 1
             /\ mcu[n] = NotSending /\ mcu'[n] # NotSending
             /\ \A k \in Sides : k # n => mcu'[k] = mcu[k]
    <3> HIDE DEF m, c
    <3>1. \A k \in Sides : Sending(k)' = IF k = n THEN Sending(k) + 1 ELSE Sending(k)
      BY <2>3 DEF Sending
    <3>2. QED
      BY <2>1, <2>3, <3>1
  <2>4. QED
    BY <2>2, <2>3
<1> HIDE DEF m, c
<1>6. \A k \in Sides, r \in Modules : Queued(k, r) \in Nat
  BY QueuedIs
<1>7. Queued(n, q)' \in Int
  <2>1. Tail(msgq[n][q]) \in Seq(Events)
    BY TakenTyped
  <2>2. Queued(n, q)' = CountIn(Tail(msgq[n][q]), Payload(q))
    BY <1>3 DEF Queued
  <2>3. CountIn(Tail(msgq[n][q]), Payload(q)) \in Nat
    BY <2>1, PositionsFinite
  <2>4. QED
    BY <2>2, <2>3
<1>8. \A k \in Sides : Sending(k) \in Nat /\ Sending(k)' \in Nat /\ copies[k] \in Int
  BY DEF Sending, TypeOK
<1>9. \A k \in Sides : copies'[k] \in Int
  <2>1. copies' \in [Sides -> Int]
    BY <1>1, CopiesTyped, TypeParts DEF TypeOK, c, m
  <2>2. QED
    BY <2>1
<1>10. q = "comm" \/ q = "mcu"
  BY DEF Modules
<1>11. ASSUME NEW k \in Sides, up'[k]
       PROVE  copies'[k] = Queued(k, "comm")' + Queued(k, "mcu")' + Sending(k)'
  <2>1. copies[k] = Queued(k, "comm") + Queued(k, "mcu") + Sending(k)
    BY <1>11 DEF Accounted
  <2> DEFINE d == IF k = n THEN c ELSE 0
  <2>2. copies'[k] + Sending(k) = copies[k] + Sending(k)' - d /\ d \in Nat
    BY <1>1, <1>5
  <2>3. /\ Queued(k, "comm")' + (IF q = "comm" THEN d ELSE 0) = Queued(k, "comm")
        /\ Queued(k, "mcu")' + (IF q = "mcu" THEN d ELSE 0) = Queued(k, "mcu")
        /\ Queued(k, "comm")' \in Int /\ Queued(k, "mcu")' \in Int
    BY <1>4, <1>6, <1>7, SidesTyped
  <2>4. Queued(k, "comm") \in Nat /\ Queued(k, "mcu") \in Nat
    BY <1>6, SidesTyped
  <2> HIDE DEF d
  <2>5. Queued(k, "comm")' + Queued(k, "mcu")' + d = Queued(k, "comm") + Queued(k, "mcu")
    BY <1>10, <2>2, <2>3, <2>4
  <2>6. Sending(k) \in Nat /\ Sending(k)' \in Nat /\ copies[k] \in Int /\ copies'[k] \in Int
    BY <1>8, <1>9
  <2> DEFINE held == Queued(k, "comm") + Queued(k, "mcu")
             heldNow == Queued(k, "comm")' + Queued(k, "mcu")'
  <2>7. /\ held \in Int /\ heldNow \in Int /\ d \in Int
        /\ heldNow + d = held /\ copies[k] = held + Sending(k)
    BY <2>1, <2>2, <2>3, <2>4, <2>5
  <2> HIDE DEF held, heldNow
  <2>8. Sending(k) \in Int /\ Sending(k)' \in Int
    BY <2>6
  <2>9. copies'[k] + Sending(k) = copies[k] + Sending(k)' - d
    BY <2>2
  <2>10. copies'[k] = heldNow + Sending(k)'
    BY <2>6, <2>7, <2>8, <2>9, SMTT(90)
  <2>11. QED
    BY <2>10 DEF heldNow
<1>12. QED
  BY <1>11 DEF Accounted

LEMMA AccountedGetMessage ==
  ASSUME NEW n \in Sides, TypeOK, Accounted, GetMessage(n)
  PROVE  Accounted'
<1> DEFINE m == Head(msgq[n]["mcu"])
<1>1. /\ m \in Events
      /\ InitLine(n, m) \/ StartSend(n, m) \/ HandleData(n, m) \/ EncodeFails(n, m) \/ Ignore(n, m)
      /\ mcu[n] = NotSending
  BY TakenTyped, SidesTyped DEF GetMessage
<1>2. \A k \in Sides : up'[k] => up[k]
  BY <1>1 DEF InitLine, StartSend, HandleData, EncodeFails, Ignore, TypeOK
<1>3. CASE StartSend(n, m)
  <2>1. mcu' = [mcu EXCEPT ![n] = [msg |-> m, piece |-> 1]] /\ m.kind \in Wire /\ UNCHANGED copies
    BY <1>3 DEF StartSend, ToSend
  <2>2. CopyOf("mcu", m) = 1
    BY <2>1 DEF CopyOf, Copied
  <2> HIDE DEF m
  <2>3. mcu'[n] # NotSending /\ \A k \in Sides : k # n => mcu'[k] = mcu[k]
    BY <2>1 DEF NotSending, TypeOK
  <2>4. QED
    BY <1>1, <1>2, <2>1, <2>2, <2>3, AccountedTake, SidesTyped DEF GetMessage, m
<1>4. CASE InitLine(n, m)
  <2>1. CopyOf("mcu", m) = 0 /\ UNCHANGED <<mcu, copies>>
    BY <1>4 DEF InitLine, CopyOf, Copied, Ready, Wire
  <2>2. copies' = [copies EXCEPT ![n] = @ - CopyOf("mcu", m)]
    <3> HIDE DEF m
    <3>1. copies \in [Sides -> Int]
      BY DEF TypeOK
    <3>2. copies[n] - 0 = copies[n]
      BY <3>1
    <3>3. QED
      BY <2>1, <3>1, <3>2
  <2>3. QED
    BY <1>2, <2>1, <2>2, AccountedTake, SidesTyped DEF GetMessage
<1>5. CASE HandleData(n, m) \/ EncodeFails(n, m) \/ Ignore(n, m)
  <2>1. copies' = [copies EXCEPT ![n] = @ - CopyOf("mcu", m)] /\ UNCHANGED mcu
    BY <1>5 DEF HandleData, EncodeFails, Ignore, Free
  <2>2. QED
    BY <1>2, <2>1, AccountedTake, SidesTyped DEF GetMessage
<1>6. QED
  BY <1>1, <1>3, <1>4, <1>5

LEMMA AccountedSendPiece ==
  ASSUME NEW n \in Sides, TypeOK, Accounted, SendPiece(n)
  PROVE  Accounted'
<1> DEFINE m == mcu[n].msg
           i == mcu[n].piece
<1>1. UNCHANGED <<msgq, up>> /\ mcu[n] # NotSending /\ m.kind \in Wire
  BY PieceTyped DEF SendPiece
<1>2. \A k \in Sides, r \in Modules : Queued(k, r)' = Queued(k, r) /\ Queued(k, r) \in Nat
  BY <1>1, QueuedIs DEF Queued
<1>3. CASE i <= Size[m.kind]
  <2>1. mcu' = [mcu EXCEPT ![n].piece = i + 1] /\ UNCHANGED copies
    BY <1>3 DEF SendPiece
  <2>2. i + 1 # 0
    BY PieceTyped, <1>1
  <2>3. mcu'[n] # NotSending /\ \A k \in Sides : k # n => mcu'[k] = mcu[k]
    BY <2>1, <2>2 DEF TypeOK, NotSending
  <2>4. \A k \in Sides : Sending(k)' = Sending(k)
    BY <1>1, <2>3 DEF Sending
  <2>5. QED
    BY <1>1, <1>2, <2>1, <2>4, SidesTyped DEF Accounted
<1>4. CASE ~ (i <= Size[m.kind])
  <2>1. mcu' = [mcu EXCEPT ![n] = NotSending] /\ copies' = [copies EXCEPT ![n] = @ - CopyOf("mcu", m)]
    BY <1>4 DEF SendPiece, Free
  <2>2. CopyOf("mcu", m) = 1
    BY <1>1 DEF CopyOf, Copied
  <2> HIDE DEF m, i
  <2>3. /\ mcu'[n] = NotSending /\ \A k \in Sides : k # n => mcu'[k] = mcu[k]
        /\ copies'[n] = copies[n] - 1 /\ \A k \in Sides : k # n => copies'[k] = copies[k]
        /\ copies[n] \in Int
    BY <2>1, <2>2 DEF TypeOK
  <2>4. Sending(n) = 1 /\ Sending(n)' = 0 /\ \A k \in Sides : k # n => Sending(k)' = Sending(k)
    BY <1>1, <2>3 DEF Sending
  <2>5. QED
    BY <1>1, <1>2, <2>3, <2>4, SidesTyped DEF Accounted
<1>5. QED
  BY <1>3, <1>4

LEMMA AccountedRestart ==
  ASSUME NEW n \in Sides, TypeOK, Accounted, Restart(n)
  PROVE  Accounted'
<1>1. /\ msgq'[n] = NoQueues /\ mcu'[n] = NotSending /\ copies'[n] = 0
      /\ \A k \in Sides : k # n => /\ msgq'[k] = msgq[k] /\ mcu'[k] = mcu[k]
                                   /\ copies'[k] = copies[k] /\ up'[k] = up[k]
  BY DEF Restart, TypeOK
<1>2. Queued(n, "comm")' = 0 /\ Queued(n, "mcu")' = 0 /\ Sending(n)' = 0
  <2>1. msgq'[n]["comm"] = <<>> /\ msgq'[n]["mcu"] = <<>>
    BY <1>1, SidesTyped DEF NoQueues
  <2>2. QED
    BY <1>1, <2>1, CountEmpty DEF Queued, Sending
<1>3. \A k \in Sides : k # n =>
        \A r \in Modules : Queued(k, r)' = Queued(k, r) /\ Sending(k)' = Sending(k)
  BY <1>1 DEF Queued, Sending
<1>4. QED
  BY <1>1, <1>2, <1>3, SidesTyped DEF Accounted

LEMMA AccountedStep == TypeOK /\ Accounted /\ [Next]_vars => Accounted'
<1> SUFFICES ASSUME TypeOK, Accounted, [Next]_vars PROVE Accounted'
  OBVIOUS
<1>1. CASE Sense \/ Press
  BY <1>1, AccountedElsewhere DEF Sense, Press, line
<1>2. CASE Comm
  BY <1>2, AccountedTake, SidesTyped DEF Comm, line
<1>3. ASSUME NEW n \in Sides, Workqueue(n) PROVE Accounted'
  <2>1. CASE HandleEvent(n)
    BY <2>1, AccountedElsewhere DEF HandleEvent, line
  <2>2. QED
    BY <1>3, <2>1, AccountedPut DEF Workqueue
<1>4. ASSUME NEW n \in Sides, McuThread(n) PROVE Accounted'
  BY <1>4, AccountedGetMessage, AccountedSendPiece DEF McuThread
<1>5. ASSUME NEW n \in Sides, Restart(n) PROVE Accounted'
  BY <1>5, AccountedRestart
<1>6. CASE UNCHANGED vars
  BY <1>6, AccountedElsewhere DEF vars
<1>7. QED
  BY <1>1, <1>2, <1>3, <1>4, <1>5, <1>6 DEF Next

(***************************************************************************)
(* Every copy of a payload is in one queue or in the hands of the thread:  *)
(* it is freed once, whatever the message was and whatever became of it.   *)
(***************************************************************************)
THEOREM CopiesFreed == Spec => []HeapAccounted
<1>1. Init => Accounted
  <2> SUFFICES ASSUME Init, NEW n \in Sides
               PROVE  copies[n] = Queued(n, "comm") + Queued(n, "mcu") + Sending(n)
    BY DEF Accounted
  <2>1. msgq[n]["comm"] = <<>> /\ msgq[n]["mcu"] = <<>> /\ copies[n] = 0 /\ mcu[n] = NotSending
    BY SidesTyped DEF Init, NoQueues
  <2>2. QED
    BY <2>1, CountEmpty DEF Queued, Sending
<1>2. QED
  BY <1>1, AccountedStep, HeapIsAccounted, TypeCorrect, PTL DEF Spec

-----------------------------------------------------------------------------
(***************************************************************************)
(* The order of the heat maps                                              *)
(*                                                                         *)
(* A heat map is a frame of the sensor, a message that commCtrl submits,   *)
(* the pieces on the line, a text that was received, and a message again.  *)
(***************************************************************************)
HeardNum == [m \in {e \in Events : e.kind = "MAP"} |-> m.num]
TextNum ==
  [m \in {e \in Events : e.kind = "DATA" /\ Parses(e.bytes) /\ e.bytes[1][1].kind = "MAP"} |->
     m.bytes[1][1].num]
SentNum == [m \in {e \in Events : e.kind = "MAP" /\ ~e.received} |-> m.num]
FrameNum == [m \in {e \in Events : e.kind = "FRAME"} |-> m.num]

(* A buffer that begins with a heat map; a heat map none of which is sent; *)
(* an event that a listener has not put yet.                               *)
HeadOf(b) ==
  IF b # <<>> /\ b[1][1].kind = "MAP" /\ b[1][2] = 1 THEN {b[1][1].num} ELSE {}
StartOf(s) == IF s.piece = 1 THEN SlotOf(s.msg, SentNum) ELSE {}
WaitingFor(q, w, num) == IF q \in w.to THEN SlotOf(w.msg, num) ELSE {}

Given == {0} \union {got[i] : i \in DOMAIN got}

(***************************************************************************)
(* The numbers of the heat maps at each place, from the analysis back to   *)
(* the sensor, and last the one that is taken next.                        *)
(***************************************************************************)
MapFlow ==
  <<Given,
    NumsOf(evq["nrf91"], HeardNum), NumsOf(msgq["nrf91"]["mcu"], TextNum),
    SlotOf(worker["nrf91"].msg, TextNum), NumsOf(evq["nrf91"], TextNum),
    HeadOf(buf["nrf91"]), StartOf(mcu["nrf52"]),
    NumsOf(msgq["nrf52"]["mcu"], SentNum), WaitingFor("mcu", worker["nrf52"], SentNum),
    NumsOf(evq["nrf52"], SentNum), NumsOf(msgq["nrf52"]["comm"], FrameNum),
    SlotOf(worker["nrf52"].msg, FrameNum), NumsOf(evq["nrf52"], FrameNum),
    {used["frames"] + 1}>>

GotInOrder ==
  /\ \A i \in DOMAIN got : 0 < got[i]
  /\ \A i, j \in DOMAIN got : i < j => got[i] < got[j]

QueuesInOrder ==
  /\ InOrder(evq["nrf91"], HeardNum) /\ InOrder(evq["nrf91"], TextNum)
  /\ InOrder(evq["nrf52"], SentNum) /\ InOrder(evq["nrf52"], FrameNum)
  /\ InOrder(msgq["nrf91"]["mcu"], TextNum)
  /\ InOrder(msgq["nrf52"]["mcu"], SentNum) /\ InOrder(msgq["nrf52"]["comm"], FrameNum)

(* Heat maps keep their order, in each place and from place to place.      *)
MapInv == Chain(MapFlow) /\ QueuesInOrder /\ GotInOrder

(* The places, before and after a step. *)
LEMMA MapPlaces ==
  /\ DOMAIN MapFlow = 1 .. 14 /\ MapFlow[1] = Given
  /\ MapFlow[2] = NumsOf(evq["nrf91"], HeardNum) /\ MapFlow[3] = NumsOf(msgq["nrf91"]["mcu"], TextNum)
  /\ MapFlow[4] = SlotOf(worker["nrf91"].msg, TextNum) /\ MapFlow[5] = NumsOf(evq["nrf91"], TextNum)
  /\ MapFlow[6] = HeadOf(buf["nrf91"]) /\ MapFlow[7] = StartOf(mcu["nrf52"])
  /\ MapFlow[8] = NumsOf(msgq["nrf52"]["mcu"], SentNum)
  /\ MapFlow[9] = WaitingFor("mcu", worker["nrf52"], SentNum)
  /\ MapFlow[10] = NumsOf(evq["nrf52"], SentNum) /\ MapFlow[11] = NumsOf(msgq["nrf52"]["comm"], FrameNum)
  /\ MapFlow[12] = SlotOf(worker["nrf52"].msg, FrameNum) /\ MapFlow[13] = NumsOf(evq["nrf52"], FrameNum)
  /\ MapFlow[14] = {used["frames"] + 1}
BY DEF MapFlow

LEMMA MapPlacesNext ==
  /\ DOMAIN MapFlow' = 1 .. 14 /\ MapFlow'[1] = Given'
  /\ MapFlow'[2] = NumsOf(evq'["nrf91"], HeardNum) /\ MapFlow'[3] = NumsOf(msgq'["nrf91"]["mcu"], TextNum)
  /\ MapFlow'[4] = SlotOf(worker'["nrf91"].msg, TextNum) /\ MapFlow'[5] = NumsOf(evq'["nrf91"], TextNum)
  /\ MapFlow'[6] = HeadOf(buf'["nrf91"]) /\ MapFlow'[7] = StartOf(mcu'["nrf52"])
  /\ MapFlow'[8] = NumsOf(msgq'["nrf52"]["mcu"], SentNum)
  /\ MapFlow'[9] = WaitingFor("mcu", worker'["nrf52"], SentNum)
  /\ MapFlow'[10] = NumsOf(evq'["nrf52"], SentNum) /\ MapFlow'[11] = NumsOf(msgq'["nrf52"]["comm"], FrameNum)
  /\ MapFlow'[12] = SlotOf(worker'["nrf52"].msg, FrameNum) /\ MapFlow'[13] = NumsOf(evq'["nrf52"], FrameNum)
  /\ MapFlow'[14] = {used'["frames"] + 1}
BY DEF MapFlow, HeardNum, TextNum, SentNum, FrameNum

LEMMA FourteenPlaces ==
  ASSUME NEW k \in 1 .. 14
  PROVE  k \in 1 .. 7 \/ k = 8 \/ k = 9 \/ k = 10 \/ k = 11 \/ k = 12 \/ k = 13 \/ k = 14
OBVIOUS

LEMMA SevenPlaces ==
  ASSUME NEW k \in 1 .. 7
  PROVE  k = 1 \/ k = 2 \/ k = 3 \/ k = 4 \/ k = 5 \/ k = 6 \/ k = 7
OBVIOUS

(* The numbers of events, and their types. *)
LEMMA MapNumbers ==
  /\ \A q : /\ NumsOf(q, HeardNum) \subseteq Int /\ NumsOf(q, TextNum) \subseteq Int
            /\ NumsOf(q, SentNum) \subseteq Int /\ NumsOf(q, FrameNum) \subseteq Int
  /\ \A m : /\ SlotOf(m, HeardNum) \subseteq Int /\ SlotOf(m, TextNum) \subseteq Int
            /\ SlotOf(m, SentNum) \subseteq Int /\ SlotOf(m, FrameNum) \subseteq Int
<1>1. /\ \A m \in DOMAIN HeardNum : HeardNum[m] \in Int
      /\ \A m \in DOMAIN SentNum : SentNum[m] \in Int
  <2> SUFFICES ASSUME NEW m \in Events, m.kind = "MAP" PROVE m.num \in Int
    BY DEF HeardNum, SentNum
  <2>1. m.num \in 0 .. MaxFrames
    BY EventKinds DEF Wire, WireEvents
  <2>2. QED
    BY <2>1, HeatAssumption
<1>2. \A m \in DOMAIN FrameNum : FrameNum[m] \in Int
  <2> SUFFICES ASSUME NEW m \in Events, m.kind = "FRAME" PROVE m.num \in Int
    BY DEF FrameNum
  <2>1. m.num \in 1 .. MaxFrames
    BY EventKinds
  <2>2. QED
    BY <2>1, HeatAssumption
<1>3. \A m \in DOMAIN TextNum : TextNum[m] \in Int
  <2> SUFFICES ASSUME NEW m \in Events, m.kind = "DATA", Parses(m.bytes)
               PROVE  m.bytes[1][1].num \in Int
    BY DEF TextNum
  <2>1. m.bytes[1][1] \in Messages
    BY EventKinds, ParsedTyped
  <2>2. m.bytes[1][1].num \in 0 .. MaxFrames
    BY <2>1 DEF Messages
  <2>3. QED
    BY <2>2, HeatAssumption
<1>4. QED
  BY <1>1, <1>2, <1>3 DEF NumsOf, SlotOf

(* Which events carry a number of which kind. *)
LEMMA MapSlots ==
  ASSUME NEW m \in Events
  PROVE  /\ m.kind # "MAP" => SlotOf(m, HeardNum) = {} /\ SlotOf(m, SentNum) = {}
         /\ m.kind = "MAP" => /\ SlotOf(m, HeardNum) = {m.num}
                              /\ SlotOf(m, SentNum) = IF m.received THEN {} ELSE {m.num}
         /\ m.kind # "DATA" => SlotOf(m, TextNum) = {}
         /\ m.kind = "DATA" => SlotOf(m, TextNum) =
              IF Parses(m.bytes) /\ m.bytes[1][1].kind = "MAP" THEN {m.bytes[1][1].num} ELSE {}
         /\ m.kind # "FRAME" => SlotOf(m, FrameNum) = {}
         /\ m.kind = "FRAME" => SlotOf(m, FrameNum) = {m.num}
BY DEF SlotOf, HeardNum, TextNum, SentNum, FrameNum

LEMMA NoMsgSlots ==
  /\ SlotOf(NoMsg, HeardNum) = {} /\ SlotOf(NoMsg, TextNum) = {}
  /\ SlotOf(NoMsg, SentNum) = {} /\ SlotOf(NoMsg, FrameNum) = {}
BY NoMsgAssumption DEF SlotOf, HeardNum, TextNum, SentNum, FrameNum

LEMMA EntriesTyped ==
  ASSUME NEW T, NEW g \in Seq(T)
  PROVE  \A i \in DOMAIN g : g[i] \in T
OBVIOUS

LEMMA MapTyped ==
  ASSUME TypeOK, TypeOK', NEW k \in 1 .. 14
  PROVE  MapFlow[k] \subseteq Int /\ MapFlow'[k] \subseteq Int
<1>1. ASSUME NEW g \in Seq(0 .. MaxFrames)
      PROVE  {0} \union {g[i] : i \in DOMAIN g} \subseteq Int
  <2>1. \A i \in DOMAIN g : g[i] \in 0 .. MaxFrames
    BY <1>1, EntriesTyped
  <2>2. QED
    BY <2>1, HeatAssumption
<1>2. got \in Seq(0 .. MaxFrames) /\ got' \in Seq(0 .. MaxFrames)
  BY DEF TypeOK
<1>3. Given \subseteq Int /\ Given' \subseteq Int
  BY <1>1, <1>2 DEF Given
<1>4. {used["frames"] + 1} \subseteq Int /\ {used'["frames"] + 1} \subseteq Int
  BY DEF TypeOK, Inputs
<1>5. ASSUME NEW b \in Seq(Pieces) PROVE HeadOf(b) \subseteq Int
  <2> SUFFICES ASSUME b # <<>> PROVE b[1][1].num \in Int
    BY DEF HeadOf
  <2>1. b[1] \in Pieces
    OBVIOUS
  <2>2. b[1][1] \in Messages
    BY <2>1 DEF Pieces
  <2>3. b[1][1].num \in 0 .. MaxFrames
    BY <2>2 DEF Messages
  <2>4. QED
    BY <2>3, HeatAssumption
<1>6. HeadOf(buf["nrf91"]) \subseteq Int /\ HeadOf(buf'["nrf91"]) \subseteq Int
  BY <1>5, SidesTyped DEF TypeOK
<1>7. /\ StartOf(mcu["nrf52"]) \subseteq Int /\ StartOf(mcu'["nrf52"]) \subseteq Int
      /\ WaitingFor("mcu", worker["nrf52"], SentNum) \subseteq Int
      /\ WaitingFor("mcu", worker'["nrf52"], SentNum) \subseteq Int
  BY MapNumbers DEF StartOf, WaitingFor
<1>8. CASE k \in 1 .. 7
  <2>1. CASE k = 1
    BY <1>3, <2>1, MapPlaces, MapPlacesNext
  <2>2. CASE k = 2 \/ k = 3 \/ k = 4 \/ k = 5
    BY <2>2, MapNumbers, MapPlaces, MapPlacesNext
  <2>3. CASE k = 6
    BY <1>6, <2>3, MapPlaces, MapPlacesNext
  <2>4. CASE k = 7
    BY <1>7, <2>4, MapPlaces, MapPlacesNext
  <2>5. QED
    BY <1>8, <2>1, <2>2, <2>3, <2>4, SevenPlaces
<1>9. CASE k \in 8 .. 14
  BY <1>4, <1>7, <1>9, FourteenPlaces, MapPlaces, MapPlacesNext, MapNumbers
<1>10. QED
  BY <1>8, <1>9

(* A step that moves heat maps one place on, or loses them. *)
LEMMA MapMove ==
  ASSUME TypeOK, TypeOK', Chain(MapFlow), NEW j \in 2 .. 14, NEW X \in SUBSET MapFlow[j],
         \A k \in (1 .. 14) \ {j - 1, j} : MapFlow'[k] \subseteq MapFlow[k],
         MapFlow'[j - 1] \subseteq MapFlow[j - 1] \union X,
         Before(X, MapFlow'[j]), MapFlow'[j] \subseteq MapFlow[j] \/ (j = 14 /\ X # {})
  PROVE  Chain(MapFlow')
<1>1. \A k \in 1 .. 14 : MapFlow[k] \subseteq Int /\ MapFlow'[k] \subseteq Int
  BY MapTyped
<1>2. DOMAIN MapFlow = 1 .. 14 /\ DOMAIN MapFlow' = 1 .. 14
  BY MapPlaces, MapPlacesNext
<1> DEFINE L == MapFlow
           M == MapFlow'
<1> HIDE DEF L, M
<1>3. QED
  <2>1. /\ DOMAIN L = 1 .. 14 /\ DOMAIN M = 1 .. 14 /\ 14 \in Nat /\ Chain(L) /\ X \in SUBSET L[j]
        /\ \A k \in 1 .. 14 : L[k] \subseteq Int /\ M[k] \subseteq Int
        /\ \A k \in (1 .. 14) \ {j - 1, j} : M[k] \subseteq L[k]
        /\ M[j - 1] \subseteq L[j - 1] \union X
        /\ Before(X, M[j]) /\ (M[j] \subseteq L[j] \/ (j = 14 /\ X # {}))
    BY <1>1, <1>2 DEF L, M
  <2>2. Chain(M)
    BY <2>1, ChainMove
  <2>3. QED
    BY <2>2 DEF M

(* What is further on its way has a smaller number. *)
LEMMA MapBefore ==
  ASSUME Chain(MapFlow), NEW i \in 1 .. 14, NEW k \in 1 .. 14, i < k
  PROVE  Before(MapFlow[i], MapFlow[k])
BY MapPlaces DEF Chain

(* An event is submitted. *)
LEMMA SubmitOrder ==
  ASSUME TypeOK, NEW n \in Sides, NEW e \in Events, Submit(n, e), NEW num
  PROVE  /\ \A k \in Sides : k # n => evq'[k] = evq[k]
         /\ NumsOf(evq'[n], num) = NumsOf(evq[n], num) \union SlotOf(e, num)
         /\ InOrder(evq[n], num) /\ Before(NumsOf(evq[n], num), SlotOf(e, num))
              => InOrder(evq'[n], num)
<1>1. evq[n] \in Seq(Events) /\ evq'[n] = Append(evq[n], e) /\ \A k \in Sides : k # n => evq'[k] = evq[k]
  BY DEF Submit, TypeOK
<1>2. QED
  BY <1>1, OrderAppend

(* The event manager's queue of a side after a step that submits nothing   *)
(* that carries such a number there.                                       *)
LEMMA SilentOrder ==
  ASSUME TypeOK, NEW k \in Sides, NEW num,
         \/ UNCHANGED evq
         \/ \E n \in Sides : \E e \in Events : Submit(n, e) /\ (n = k => SlotOf(e, num) = {})
  PROVE  /\ NumsOf(evq'[k], num) = NumsOf(evq[k], num)
         /\ InOrder(evq[k], num) => InOrder(evq'[k], num)
<1>1. CASE UNCHANGED evq
  BY <1>1
<1>2. ASSUME NEW n \in Sides, NEW e \in Events, Submit(n, e), n = k => SlotOf(e, num) = {}
      PROVE  /\ NumsOf(evq'[k], num) = NumsOf(evq[k], num)
             /\ InOrder(evq[k], num) => InOrder(evq'[k], num)
  <2>1. CASE n # k
    BY <1>2, <2>1, SubmitOrder
  <2>2. CASE n = k
    <3>1. /\ NumsOf(evq'[k], num) = NumsOf(evq[k], num) \union SlotOf(e, num)
          /\ InOrder(evq[k], num) /\ Before(NumsOf(evq[k], num), SlotOf(e, num))
               => InOrder(evq'[k], num)
      BY <1>2, <2>2, SubmitOrder
    <3>2. QED
      BY <1>2, <2>2, <3>1 DEF Before
  <2>3. QED
    BY <2>1, <2>2
<1>3. QED
  BY <1>1, <1>2

(* The head of a queue of a module is taken. *)
LEMMA TakeOrder ==
  ASSUME TypeOK, NEW n \in Sides, NEW q \in Modules, msgq[n][q] # <<>>,
         msgq' = [msgq EXCEPT ![n][q] = Tail(@)], NEW num
  PROVE  /\ \A k \in Sides, r \in Modules : (k # n \/ r # q) => msgq'[k][r] = msgq[k][r]
         /\ NumsOf(msgq[n][q], num) = NumsOf(msgq'[n][q], num) \union SlotOf(Head(msgq[n][q]), num)
         /\ InOrder(msgq[n][q], num) =>
              /\ InOrder(msgq'[n][q], num)
              /\ Before(SlotOf(Head(msgq[n][q]), num), NumsOf(msgq'[n][q], num))
<1>1. msgq[n][q] \in Seq(Events) /\ msgq'[n][q] = Tail(msgq[n][q])
  BY DEF TypeOK
<1>2. \A k \in Sides, r \in Modules : (k # n \/ r # q) => msgq'[k][r] = msgq[k][r]
  BY DEF TypeOK
<1>3. QED
  BY <1>1, <1>2, OrderTail

(* A listener puts its message. *)
LEMMA PutOrder ==
  ASSUME TypeOK, NEW n \in Sides, NEW q \in Modules, Put(n, q), NEW num
  PROVE  /\ \A k \in Sides, r \in Modules : (k # n \/ r # q) => msgq'[k][r] = msgq[k][r]
         /\ NumsOf(msgq'[n][q], num) = NumsOf(msgq[n][q], num) \union SlotOf(worker[n].msg, num)
         /\ InOrder(msgq[n][q], num) /\ Before(NumsOf(msgq[n][q], num), SlotOf(worker[n].msg, num))
              => InOrder(msgq'[n][q], num)
<1>1. /\ msgq[n][q] \in Seq(Events) /\ worker[n].msg \in Events
      /\ msgq' = [msgq EXCEPT ![n][q] = Append(msgq[n][q], worker[n].msg)]
  BY PutTyped DEF Put
<1>2. /\ msgq'[n][q] = Append(msgq[n][q], worker[n].msg)
      /\ \A k \in Sides, r \in Modules : (k # n \/ r # q) => msgq'[k][r] = msgq[k][r]
  BY <1>1 DEF TypeOK
<1>3. QED
  BY <1>1, <1>2, OrderAppend

(* The workqueue takes an event. *)
LEMMA HandleOrder ==
  ASSUME TypeOK, NEW n \in Sides, HandleEvent(n), NEW num
  PROVE  /\ \A k \in Sides : k # n => evq'[k] = evq[k] /\ worker'[k] = worker[k]
         /\ Head(evq[n]) \in Events
         /\ worker'[n] = [msg |-> Head(evq[n]), to |-> Listeners(n, Head(evq[n]))]
         /\ NumsOf(evq[n], num) = NumsOf(evq'[n], num) \union SlotOf(Head(evq[n]), num)
         /\ InOrder(evq[n], num) =>
              /\ InOrder(evq'[n], num)
              /\ Before(SlotOf(Head(evq[n]), num), NumsOf(evq'[n], num))
<1>1. evq[n] \in Seq(Events) /\ evq[n] # <<>> /\ evq'[n] = Tail(evq[n])
  BY DEF TypeOK, HandleEvent
<1>2. /\ \A k \in Sides : k # n => evq'[k] = evq[k] /\ worker'[k] = worker[k]
      /\ worker'[n] = [msg |-> Head(evq[n]), to |-> Listeners(n, Head(evq[n]))]
  BY DEF TypeOK, HandleEvent
<1>3. Head(evq[n]) \in Events
  BY <1>1
<1>4. QED
  BY <1>1, <1>2, <1>3, OrderTail

(* The places that no step of what they are in changes. *)
LEMMA MapStill ==
  /\ UNCHANGED got => MapFlow'[1] = MapFlow[1]
  /\ UNCHANGED evq => /\ MapFlow'[2] = MapFlow[2] /\ MapFlow'[5] = MapFlow[5]
                      /\ MapFlow'[10] = MapFlow[10] /\ MapFlow'[13] = MapFlow[13]
  /\ UNCHANGED msgq => /\ MapFlow'[3] = MapFlow[3] /\ MapFlow'[8] = MapFlow[8]
                       /\ MapFlow'[11] = MapFlow[11]
  /\ UNCHANGED worker => /\ MapFlow'[4] = MapFlow[4] /\ MapFlow'[9] = MapFlow[9]
                         /\ MapFlow'[12] = MapFlow[12]
  /\ UNCHANGED buf => MapFlow'[6] = MapFlow[6]
  /\ UNCHANGED mcu => MapFlow'[7] = MapFlow[7]
  /\ UNCHANGED used => MapFlow'[14] = MapFlow[14]
BY MapPlaces, MapPlacesNext DEF Given

(* The four kinds of numbers in the queues of the event manager. *)
EvqInOrder ==
  /\ InOrder(evq["nrf91"], HeardNum) /\ InOrder(evq["nrf91"], TextNum)
  /\ InOrder(evq["nrf52"], SentNum) /\ InOrder(evq["nrf52"], FrameNum)

MsgqInOrder ==
  /\ InOrder(msgq["nrf91"]["mcu"], TextNum)
  /\ InOrder(msgq["nrf52"]["mcu"], SentNum) /\ InOrder(msgq["nrf52"]["comm"], FrameNum)

LEMMA OrderParts ==
  /\ QueuesInOrder <=> EvqInOrder /\ MsgqInOrder
  /\ QueuesInOrder' <=> EvqInOrder' /\ MsgqInOrder'
  /\ UNCHANGED evq /\ EvqInOrder => EvqInOrder'
  /\ UNCHANGED msgq /\ MsgqInOrder => MsgqInOrder'
  /\ UNCHANGED got /\ GotInOrder => GotInOrder'
  /\ EvqInOrder' <=> /\ InOrder(evq'["nrf91"], HeardNum) /\ InOrder(evq'["nrf91"], TextNum)
                     /\ InOrder(evq'["nrf52"], SentNum) /\ InOrder(evq'["nrf52"], FrameNum)
  /\ MsgqInOrder' <=> /\ InOrder(msgq'["nrf91"]["mcu"], TextNum)
                      /\ InOrder(msgq'["nrf52"]["mcu"], SentNum)
                      /\ InOrder(msgq'["nrf52"]["comm"], FrameNum)
<1>1. /\ QueuesInOrder <=> EvqInOrder /\ MsgqInOrder
      /\ QueuesInOrder' <=> EvqInOrder' /\ MsgqInOrder'
  BY DEF QueuesInOrder, EvqInOrder, MsgqInOrder
<1>2. /\ EvqInOrder' <=> /\ InOrder(evq'["nrf91"], HeardNum) /\ InOrder(evq'["nrf91"], TextNum)
                         /\ InOrder(evq'["nrf52"], SentNum) /\ InOrder(evq'["nrf52"], FrameNum)
      /\ MsgqInOrder' <=> /\ InOrder(msgq'["nrf91"]["mcu"], TextNum)
                          /\ InOrder(msgq'["nrf52"]["mcu"], SentNum)
                          /\ InOrder(msgq'["nrf52"]["comm"], FrameNum)
  BY DEF EvqInOrder, MsgqInOrder, InOrder, HeardNum, TextNum, SentNum, FrameNum
<1>3. UNCHANGED evq /\ EvqInOrder => EvqInOrder'
  BY <1>2 DEF EvqInOrder
<1>4. UNCHANGED msgq /\ MsgqInOrder => MsgqInOrder'
  BY <1>2 DEF MsgqInOrder
<1>5. UNCHANGED got /\ GotInOrder => GotInOrder'
  BY DEF GotInOrder
<1>6. QED
  BY <1>1, <1>2, <1>3, <1>4, <1>5

(* An event that is submitted changes the places it has a number for. *)
LEMMA SubmitPlaces ==
  ASSUME TypeOK, NEW n \in Sides, NEW e \in Events, Submit(n, e), EvqInOrder
  PROVE  /\ MapFlow'[2] = MapFlow[2] \/ (n = "nrf91" /\ e.kind = "MAP")
         /\ MapFlow'[5] = MapFlow[5] \/ (n = "nrf91" /\ e.kind = "DATA")
         /\ MapFlow'[10] = MapFlow[10] \/ (n = "nrf52" /\ e.kind = "MAP")
         /\ MapFlow'[13] = MapFlow[13] \/ (n = "nrf52" /\ e.kind = "FRAME")
         /\ InOrder(evq'["nrf91"], HeardNum) \/ (n = "nrf91" /\ e.kind = "MAP")
         /\ InOrder(evq'["nrf91"], TextNum) \/ (n = "nrf91" /\ e.kind = "DATA")
         /\ InOrder(evq'["nrf52"], SentNum) \/ (n = "nrf52" /\ e.kind = "MAP")
         /\ InOrder(evq'["nrf52"], FrameNum) \/ (n = "nrf52" /\ e.kind = "FRAME")
<1>0. ASSUME NEW k \in Sides, NEW num, n = k => SlotOf(e, num) = {}
      PROVE  /\ NumsOf(evq'[k], num) = NumsOf(evq[k], num)
             /\ InOrder(evq[k], num) => InOrder(evq'[k], num)
  BY <1>0, SilentOrder
<1>1. ASSUME ~ (n = "nrf91" /\ e.kind = "MAP")
      PROVE  MapFlow'[2] = MapFlow[2] /\ InOrder(evq'["nrf91"], HeardNum)
  <2>1. n = "nrf91" => SlotOf(e, HeardNum) = {}
    BY <1>1, MapSlots
  <2>2. QED
    BY <1>0, <2>1, MapPlaces, MapPlacesNext, SidesTyped DEF EvqInOrder
<1>2. ASSUME ~ (n = "nrf91" /\ e.kind = "DATA")
      PROVE  MapFlow'[5] = MapFlow[5] /\ InOrder(evq'["nrf91"], TextNum)
  <2>1. n = "nrf91" => SlotOf(e, TextNum) = {}
    BY <1>2, MapSlots
  <2>2. QED
    BY <1>0, <2>1, MapPlaces, MapPlacesNext, SidesTyped DEF EvqInOrder
<1>3. ASSUME ~ (n = "nrf52" /\ e.kind = "MAP")
      PROVE  MapFlow'[10] = MapFlow[10] /\ InOrder(evq'["nrf52"], SentNum)
  <2>1. n = "nrf52" => SlotOf(e, SentNum) = {}
    BY <1>3, MapSlots
  <2>2. QED
    BY <1>0, <2>1, MapPlaces, MapPlacesNext, SidesTyped DEF EvqInOrder
<1>4. ASSUME ~ (n = "nrf52" /\ e.kind = "FRAME")
      PROVE  MapFlow'[13] = MapFlow[13] /\ InOrder(evq'["nrf52"], FrameNum)
  <2>1. n = "nrf52" => SlotOf(e, FrameNum) = {}
    BY <1>4, MapSlots
  <2>2. QED
    BY <1>0, <2>1, MapPlaces, MapPlacesNext, SidesTyped DEF EvqInOrder
<1>5. QED
  BY <1>1, <1>2, <1>3, <1>4

(* Each of the fourteen places, for one that is named. *)
LEMMA EachPlace ==
  ASSUME MapFlow'[1] \subseteq MapFlow[1], MapFlow'[2] \subseteq MapFlow[2],
         MapFlow'[3] \subseteq MapFlow[3], MapFlow'[4] \subseteq MapFlow[4],
         MapFlow'[5] \subseteq MapFlow[5], MapFlow'[6] \subseteq MapFlow[6],
         MapFlow'[7] \subseteq MapFlow[7], MapFlow'[8] \subseteq MapFlow[8],
         MapFlow'[9] \subseteq MapFlow[9], MapFlow'[10] \subseteq MapFlow[10],
         MapFlow'[11] \subseteq MapFlow[11], MapFlow'[12] \subseteq MapFlow[12],
         MapFlow'[13] \subseteq MapFlow[13], MapFlow'[14] \subseteq MapFlow[14],
         MapInv, QueuesInOrder', GotInOrder'
  PROVE  MapInv'
<1>1. \A k \in 1 .. 14 : MapFlow'[k] \subseteq MapFlow[k]
  <2> SUFFICES ASSUME NEW k \in 1 .. 14 PROVE MapFlow'[k] \subseteq MapFlow[k]
    OBVIOUS
  <2>1. CASE k \in 1 .. 7
    BY <2>1, SevenPlaces
  <2>2. QED
    BY <2>1, FourteenPlaces
<1>2. Chain(MapFlow')
  <2>1. DOMAIN MapFlow = 1 .. 14 /\ DOMAIN MapFlow' = 1 .. 14
    BY MapPlaces, MapPlacesNext
  <2>2. Chain(MapFlow)
    BY DEF MapInv
  <2> DEFINE L == MapFlow
             M == MapFlow'
  <2>3. /\ DOMAIN M = DOMAIN L /\ Chain(L)
        /\ \A k \in DOMAIN L : M[k] \subseteq L[k]
    BY <1>1, <2>1, <2>2
  <2> HIDE DEF L, M
  <2>4. Chain(M)
    BY <2>3, ChainShrink
  <2>5. QED
    BY <2>4 DEF M
<1>3. QED
  BY <1>2 DEF MapInv, Chain

(* A step that submits no heat map and takes nothing. *)
LEMMA MapQuiet ==
  ASSUME TypeOK, MapInv, UNCHANGED <<worker, msgq, buf, mcu, got>>,
         used'["frames"] = used["frames"],
         \/ UNCHANGED evq
         \/ \E n \in Sides : \E e \in Events :
              Submit(n, e) /\ e.kind \notin {"MAP", "DATA", "FRAME"}
  PROVE  MapInv'
<1>1. EvqInOrder /\ MsgqInOrder /\ GotInOrder
  BY OrderParts DEF MapInv
<1>2. /\ MapFlow'[2] = MapFlow[2] /\ MapFlow'[5] = MapFlow[5]
      /\ MapFlow'[10] = MapFlow[10] /\ MapFlow'[13] = MapFlow[13]
      /\ EvqInOrder'
  <2>1. CASE UNCHANGED evq
    BY <1>1, <2>1, MapStill, OrderParts
  <2>2. ASSUME NEW n \in Sides, NEW e \in Events, Submit(n, e),
               e.kind \notin {"MAP", "DATA", "FRAME"}
        PROVE  /\ MapFlow'[2] = MapFlow[2] /\ MapFlow'[5] = MapFlow[5]
               /\ MapFlow'[10] = MapFlow[10] /\ MapFlow'[13] = MapFlow[13]
               /\ EvqInOrder'
    BY <1>1, <2>2, SubmitPlaces, OrderParts
  <2>3. QED
    BY <2>1, <2>2
<1>3. MapFlow'[14] = MapFlow[14]
  BY MapPlaces, MapPlacesNext
<1>4. QueuesInOrder' /\ GotInOrder'
  BY <1>1, <1>2, OrderParts
<1>5. QED
  BY <1>2, <1>3, <1>4, MapStill, EachPlace

(* A heat map is taken: it is the last in the queue. *)
LEMMA MapSense ==
  ASSUME TypeOK, TypeOK', MapInv, Sense
  PROVE  MapInv'
<1> DEFINE f == used["frames"] + 1
<1>1. UNCHANGED <<worker, msgq, buf, mcu, got>>
  BY DEF Sense, line, seen
<1>2. CASE Use("troubles") /\ Submit("nrf52", Trouble)
  <2>1. used'["frames"] = used["frames"]
    BY <1>2 DEF Use, TypeOK, Inputs
  <2>2. Trouble \in Events /\ Trouble.kind = "TROUBLE" /\ "nrf52" \in Sides
    BY EventsTyped, SidesTyped DEF Trouble
  <2>3. QED
    BY <1>1, <1>2, <2>1, <2>2, MapQuiet
<1>3. CASE Use("frames") /\ Submit("nrf52", Frame(f))
  <2>1. used'["frames"] = f /\ f \in Nat /\ 0 < f /\ f <= MaxFrames
    <3>1. "frames" \in Inputs
      BY DEF Inputs
    <3>2. /\ used["frames"] \in Nat /\ used'["frames"] \in Nat
          /\ used'["frames"] = used["frames"] + 1 /\ used'["frames"] <= MaxFrames
      <4>1. RestOK
        BY TypeParts
      <4>2. used' \in [Inputs -> Nat] /\ used \in [Inputs -> Nat]
        BY <1>3, <3>1, <4>1, UseTyped DEF RestOK
      <4>3. used'["frames"] = used["frames"] + 1 /\ used'["frames"] <= MaxFrames
        BY <1>3, <3>1, <4>1, UseTyped
      <4>4. QED
        BY <3>1, <4>2, <4>3
    <3>3. QED
      BY <3>2
  <2>2. Frame(f) \in Events /\ Frame(f).kind = "FRAME" /\ Frame(f).num = f /\ "nrf52" \in Sides
    <3>1. f \in 1 .. MaxFrames
      BY <2>1, HeatAssumption
    <3>2. QED
      BY <3>1, EventsTyped, SidesTyped DEF Frame
  <2> HIDE DEF f
  <2>3. EvqInOrder /\ MsgqInOrder /\ GotInOrder /\ Chain(MapFlow)
    BY OrderParts DEF MapInv
  <2>4. SlotOf(Frame(f), FrameNum) = {f}
    BY <2>2, MapSlots
  <2>5. /\ NumsOf(evq'["nrf52"], FrameNum)
             = NumsOf(evq["nrf52"], FrameNum) \union SlotOf(Frame(f), FrameNum)
        /\ InOrder(evq["nrf52"], FrameNum)
             /\ Before(NumsOf(evq["nrf52"], FrameNum), SlotOf(Frame(f), FrameNum))
             => InOrder(evq'["nrf52"], FrameNum)
    BY <1>3, <2>2, SubmitOrder
  <2>6. MapFlow[14] = {f} /\ MapFlow'[14] = {f + 1}
    BY <2>1, MapPlaces, MapPlacesNext DEF f
  <2>7. Before(NumsOf(evq["nrf52"], FrameNum), {f})
    <3>1. Before(MapFlow[13], MapFlow[14])
      BY <2>3, MapBefore
    <3>2. QED
      BY <2>6, <3>1, MapPlaces
  <2>8. /\ InOrder(evq'["nrf52"], FrameNum)
        /\ MapFlow'[13] = MapFlow[13] \union {f}
    BY <2>3, <2>4, <2>5, <2>7, MapPlaces, MapPlacesNext DEF EvqInOrder
  <2>9. /\ MapFlow'[2] = MapFlow[2] /\ MapFlow'[5] = MapFlow[5] /\ MapFlow'[10] = MapFlow[10]
        /\ EvqInOrder'
    BY <1>3, <2>2, <2>3, <2>8, SubmitPlaces, OrderParts
  <2>10. \A k \in (1 .. 14) \ {13, 14} : MapFlow'[k] \subseteq MapFlow[k]
    <3> SUFFICES ASSUME NEW k \in 1 .. 14, k # 13, k # 14
                 PROVE  MapFlow'[k] \subseteq MapFlow[k]
      OBVIOUS
    <3>1. CASE k \in 1 .. 7
      BY <1>1, <2>9, <3>1, SevenPlaces, MapStill
    <3>2. QED
      BY <1>1, <2>9, <3>1, FourteenPlaces, MapStill
  <2>11. Before({f}, {f + 1})
    BY <2>1 DEF Before
  <2>12. Chain(MapFlow')
    <3>1. /\ {f} \in SUBSET MapFlow[14] /\ {f} # {} /\ 14 \in 2 .. 14
          /\ MapFlow'[14 - 1] \subseteq MapFlow[14 - 1] \union {f}
          /\ \A k \in (1 .. 14) \ {14 - 1, 14} : MapFlow'[k] \subseteq MapFlow[k]
          /\ Before({f}, MapFlow'[14])
      BY <2>6, <2>8, <2>10, <2>11
    <3>2. QED
      BY <2>3, <3>1, MapMove
  <2>13. QED
    BY <1>1, <2>3, <2>9, <2>12, OrderParts DEF MapInv
<1>4. QED
  BY <1>2, <1>3 DEF Sense

LEMMA MapPress ==
  ASSUME TypeOK, MapInv, Press
  PROVE  MapInv'
<1>1. UNCHANGED <<worker, msgq, buf, mcu, got>>
  BY DEF Press, line, seen
<1>2. used'["frames"] = used["frames"]
  BY DEF Press, Use, TypeOK, Inputs
<1>3. PICK received \in BOOLEAN : Submit("nrf91", Mcu("BUTTON", 0, received))
  BY DEF Press
<1>4. Mcu("BUTTON", 0, received) \in Events /\ Mcu("BUTTON", 0, received).kind = "BUTTON"
  <2>1. 0 \in 0 .. MaxFrames /\ "BUTTON" \in Wire
    BY HeatAssumption DEF Wire
  <2>2. QED
    BY <2>1, EventsTyped DEF Mcu
<1>5. "BUTTON" \notin {"MAP", "DATA", "FRAME"} /\ "nrf91" \in Sides
  BY SidesTyped
<1>6. QED
  BY <1>1, <1>2, <1>3, <1>4, <1>5, MapQuiet

(* The invariant after a step that moves heat maps. *)
LEMMA MapMoved ==
  ASSUME TypeOK, TypeOK', MapInv, QueuesInOrder', GotInOrder',
         NEW j \in 2 .. 14, NEW i \in 1 .. 13, i = j - 1, NEW X \in SUBSET MapFlow[j],
         \A k \in 1 .. 14 : k # i /\ k # j => MapFlow'[k] \subseteq MapFlow[k],
         MapFlow'[i] \subseteq MapFlow[i] \union X,
         MapFlow'[j] \subseteq MapFlow[j], Before(X, MapFlow'[j])
  PROVE  MapInv'
<1>1. Chain(MapFlow)
  BY DEF MapInv
<1>2. Chain(MapFlow')
  <2>1. \A k \in (1 .. 14) \ {j - 1, j} : MapFlow'[k] \subseteq MapFlow[k]
    OBVIOUS
  <2>2. QED
    BY <1>1, <2>1, MapMove
<1>3. QED
  BY <1>2 DEF MapInv, Chain

(* The workqueue of the nRF52840: a frame goes to commCtrl, a heat map that *)
(* commCtrl submitted to the mcu_exchange module.                          *)
LEMMA MapHandle52 ==
  ASSUME TypeOK, TypeOK', MapInv, HandleEvent("nrf52")
  PROVE  MapInv'
<1> DEFINE m == Head(evq["nrf52"])
<1>1. EvqInOrder /\ MsgqInOrder /\ GotInOrder /\ Chain(MapFlow)
  BY OrderParts DEF MapInv
<1>2. UNCHANGED <<msgq, buf, mcu, used, got>>
  BY DEF HandleEvent, line, Analyse
<1>3. /\ "nrf52" \in Sides /\ "nrf91" \in Sides /\ "nrf91" # "nrf52"
      /\ m \in Events /\ evq'["nrf91"] = evq["nrf91"] /\ worker'["nrf91"] = worker["nrf91"]
      /\ worker'["nrf52"] = [msg |-> m, to |-> Listeners("nrf52", m)]
  BY HandleOrder, SidesTyped
<1>4. ASSUME NEW num
      PROVE  /\ NumsOf(evq["nrf52"], num) = NumsOf(evq'["nrf52"], num) \union SlotOf(m, num)
             /\ InOrder(evq["nrf52"], num) =>
                  /\ InOrder(evq'["nrf52"], num)
                  /\ Before(SlotOf(m, num), NumsOf(evq'["nrf52"], num))
  BY HandleOrder, SidesTyped
<1> HIDE DEF m
<1>5. /\ EvqInOrder' /\ QueuesInOrder' /\ GotInOrder'
  BY <1>1, <1>2, <1>3, <1>4, OrderParts DEF EvqInOrder
<1>6. /\ MapFlow[10] = MapFlow'[10] \union SlotOf(m, SentNum)
      /\ MapFlow[13] = MapFlow'[13] \union SlotOf(m, FrameNum)
      /\ Before(SlotOf(m, SentNum), MapFlow'[10]) /\ Before(SlotOf(m, FrameNum), MapFlow'[13])
  BY <1>1, <1>4, MapPlaces, MapPlacesNext DEF EvqInOrder
<1>7. /\ MapFlow'[1] = MapFlow[1] /\ MapFlow'[2] = MapFlow[2] /\ MapFlow'[3] = MapFlow[3]
      /\ MapFlow'[4] = MapFlow[4] /\ MapFlow'[5] = MapFlow[5] /\ MapFlow'[6] = MapFlow[6]
      /\ MapFlow'[7] = MapFlow[7] /\ MapFlow'[8] = MapFlow[8] /\ MapFlow'[11] = MapFlow[11]
      /\ MapFlow'[14] = MapFlow[14]
  BY <1>2, <1>3, MapStill, MapPlaces, MapPlacesNext
<1>8. MapFlow'[9] \subseteq SlotOf(m, SentNum) /\ MapFlow'[12] = SlotOf(m, FrameNum)
  BY <1>3, MapPlacesNext DEF WaitingFor
<1>9. CASE m.kind = "FRAME"
  <2>1. SlotOf(m, SentNum) = {}
    BY <1>3, <1>9, MapSlots
  <2>2. ASSUME NEW k \in 1 .. 14, k # 12, k # 13 PROVE MapFlow'[k] \subseteq MapFlow[k]
    <3>1. CASE k \in 1 .. 7
      BY <1>7, <3>1, SevenPlaces
    <3>2. QED
      BY <1>6, <1>7, <1>8, <2>1, <2>2, <3>1, FourteenPlaces
  <2>3. /\ 13 \in 2 .. 14 /\ 12 \in 1 .. 13 /\ 12 = 13 - 1
        /\ SlotOf(m, FrameNum) \in SUBSET MapFlow[13]
        /\ MapFlow'[12] \subseteq MapFlow[12] \union SlotOf(m, FrameNum)
        /\ MapFlow'[13] \subseteq MapFlow[13]
    BY <1>6, <1>8
  <2>4. QED
    BY <1>5, <1>6, <2>2, <2>3, MapMoved
<1>10. CASE m.kind # "FRAME"
  <2>1. SlotOf(m, FrameNum) = {}
    BY <1>3, <1>10, MapSlots
  <2>2. ASSUME NEW k \in 1 .. 14, k # 9, k # 10 PROVE MapFlow'[k] \subseteq MapFlow[k]
    <3>1. CASE k \in 1 .. 7
      BY <1>7, <3>1, SevenPlaces
    <3>2. QED
      BY <1>6, <1>7, <1>8, <2>1, <2>2, <3>1, FourteenPlaces
  <2>3. /\ 10 \in 2 .. 14 /\ 9 \in 1 .. 13 /\ 9 = 10 - 1
        /\ SlotOf(m, SentNum) \in SUBSET MapFlow[10]
        /\ MapFlow'[9] \subseteq MapFlow[9] \union SlotOf(m, SentNum)
        /\ MapFlow'[10] \subseteq MapFlow[10]
    BY <1>6, <1>8
  <2>4. QED
    BY <1>5, <1>6, <2>2, <2>3, MapMoved
<1>11. QED
  BY <1>9, <1>10

(* The workqueue of the nRF9160 gives a heat map to the analysis: it is    *)
(* later than all before it; a text goes on to the mcu_exchange module.    *)
LEMMA MapHandle91 ==
  ASSUME TypeOK, TypeOK', MapInv, HandleEvent("nrf91")
  PROVE  MapInv'
<1> DEFINE m == Head(evq["nrf91"])
<1>1. EvqInOrder /\ MsgqInOrder /\ GotInOrder /\ Chain(MapFlow)
  BY OrderParts DEF MapInv
<1>2. /\ UNCHANGED <<msgq, buf, mcu, used>>
      /\ got' = IF m.kind = "MAP" THEN Append(got, m.num) ELSE got
  BY DEF HandleEvent, line, Analyse
<1>3. /\ "nrf52" \in Sides /\ "nrf91" \in Sides /\ "nrf91" # "nrf52"
      /\ m \in Events /\ evq'["nrf52"] = evq["nrf52"] /\ worker'["nrf52"] = worker["nrf52"]
      /\ worker'["nrf91"] = [msg |-> m, to |-> Listeners("nrf91", m)]
  BY HandleOrder, SidesTyped
<1>4. ASSUME NEW num
      PROVE  /\ NumsOf(evq["nrf91"], num) = NumsOf(evq'["nrf91"], num) \union SlotOf(m, num)
             /\ InOrder(evq["nrf91"], num) =>
                  /\ InOrder(evq'["nrf91"], num)
                  /\ Before(SlotOf(m, num), NumsOf(evq'["nrf91"], num))
  BY HandleOrder, SidesTyped
<1> HIDE DEF m
<1>5. /\ EvqInOrder' /\ QueuesInOrder'
  BY <1>1, <1>2, <1>3, <1>4, OrderParts DEF EvqInOrder
<1>6. /\ MapFlow[2] = MapFlow'[2] \union SlotOf(m, HeardNum)
      /\ MapFlow[5] = MapFlow'[5] \union SlotOf(m, TextNum)
      /\ Before(SlotOf(m, HeardNum), MapFlow'[2]) /\ Before(SlotOf(m, TextNum), MapFlow'[5])
  BY <1>1, <1>4, MapPlaces, MapPlacesNext DEF EvqInOrder
<1>7. /\ MapFlow'[3] = MapFlow[3] /\ MapFlow'[6] = MapFlow[6] /\ MapFlow'[7] = MapFlow[7]
      /\ MapFlow'[8] = MapFlow[8] /\ MapFlow'[9] = MapFlow[9] /\ MapFlow'[10] = MapFlow[10]
      /\ MapFlow'[11] = MapFlow[11] /\ MapFlow'[12] = MapFlow[12] /\ MapFlow'[13] = MapFlow[13]
      /\ MapFlow'[14] = MapFlow[14]
  BY <1>2, <1>3, MapStill, MapPlaces, MapPlacesNext
<1>8. MapFlow'[4] = SlotOf(m, TextNum)
  BY <1>3, MapPlacesNext
<1>9. CASE m.kind = "MAP"
  <2>1. SlotOf(m, TextNum) = {} /\ SlotOf(m, HeardNum) = {m.num}
    BY <1>3, <1>9, MapSlots
  <2>2. /\ got \in Seq(0 .. MaxFrames) /\ got' = Append(got, m.num)
        /\ m.num \in 0 .. MaxFrames /\ MaxFrames \in Nat
    BY <1>2, <1>3, <1>9, EventKinds, HeatAssumption DEF TypeOK, Wire, WireEvents
  <2>3. /\ DOMAIN got' = DOMAIN got \union {Len(got) + 1} /\ got'[Len(got) + 1] = m.num
        /\ Len(got) \in Nat /\ DOMAIN got = 1 .. Len(got)
        /\ \A i \in DOMAIN got : got'[i] = got[i] /\ got[i] \in 0 .. MaxFrames
    BY <2>2
  <2>4. MapFlow'[1] = MapFlow[1] \union {m.num}
    <3>1. Given' = Given \union {m.num}
      BY <2>3 DEF Given
    <3>2. QED
      BY <3>1, MapPlaces, MapPlacesNext
  <2>5. Before(Given, {m.num})
    <3>1. m.num \in MapFlow[2]
      BY <1>6, <2>1
    <3>2. Before(MapFlow[1], MapFlow[2])
      BY <1>1, MapBefore
    <3>3. QED
      BY <3>1, <3>2, MapPlaces DEF Before
  <2>6. 0 < m.num /\ \A i \in DOMAIN got : got[i] < m.num
    BY <2>5 DEF Before, Given
  <2>7. GotInOrder'
    <3>1. \A i \in DOMAIN got' : 0 < got'[i]
      BY <1>1, <2>3, <2>6 DEF GotInOrder
    <3>2. ASSUME NEW i \in DOMAIN got', NEW k \in DOMAIN got', i < k
          PROVE  got'[i] < got'[k]
      <4>1. i \in DOMAIN got
        BY <2>3, <3>2
      <4>2. CASE k \in DOMAIN got
        BY <1>1, <2>3, <3>2, <4>1, <4>2 DEF GotInOrder
      <4>3. CASE k = Len(got) + 1
        BY <2>3, <2>6, <4>1, <4>3
      <4>4. QED
        BY <2>3, <4>2, <4>3
    <3>3. QED
      BY <3>1, <3>2 DEF GotInOrder
  <2>8. ASSUME NEW k \in 1 .. 14, k # 1, k # 2 PROVE MapFlow'[k] \subseteq MapFlow[k]
    <3>1. CASE k \in 1 .. 7
      BY <1>6, <1>7, <1>8, <2>1, <2>8, <3>1, SevenPlaces
    <3>2. QED
      BY <1>7, <3>1, FourteenPlaces
  <2>9. /\ 2 \in 2 .. 14 /\ 1 \in 1 .. 13 /\ 1 = 2 - 1
        /\ SlotOf(m, HeardNum) \in SUBSET MapFlow[2]
        /\ MapFlow'[1] \subseteq MapFlow[1] \union SlotOf(m, HeardNum)
        /\ MapFlow'[2] \subseteq MapFlow[2]
    BY <1>6, <2>1, <2>4
  <2>10. QED
    BY <1>5, <1>6, <2>7, <2>8, <2>9, MapMoved
<1>10. CASE m.kind # "MAP"
  <2>1. SlotOf(m, HeardNum) = {} /\ UNCHANGED got
    BY <1>2, <1>3, <1>10, MapSlots
  <2>2. GotInOrder' /\ MapFlow'[1] = MapFlow[1]
    BY <1>1, <2>1, OrderParts, MapStill
  <2>3. ASSUME NEW k \in 1 .. 14, k # 4, k # 5 PROVE MapFlow'[k] \subseteq MapFlow[k]
    <3>1. CASE k \in 1 .. 7
      BY <1>6, <1>7, <2>1, <2>2, <2>3, <3>1, SevenPlaces
    <3>2. QED
      BY <1>7, <3>1, FourteenPlaces
  <2>4. /\ 5 \in 2 .. 14 /\ 4 \in 1 .. 13 /\ 4 = 5 - 1
        /\ SlotOf(m, TextNum) \in SUBSET MapFlow[5]
        /\ MapFlow'[4] \subseteq MapFlow[4] \union SlotOf(m, TextNum)
        /\ MapFlow'[5] \subseteq MapFlow[5]
    BY <1>6, <1>8
  <2>5. QED
    BY <1>5, <1>6, <2>2, <2>3, <2>4, MapMoved
<1>11. QED
  BY <1>9, <1>10

(* What the workqueue holds after a listener has put its message. *)
LEMMA PutWorker ==
  ASSUME TypeOK, NEW n \in Sides, NEW q \in Modules, Put(n, q)
  PROVE  /\ UNCHANGED <<evq, buf, mcu, used, got>>
         /\ \A k \in Sides : k # n => worker'[k] = worker[k]
         /\ worker[n].msg \in Events /\ q \in worker[n].to
         /\ worker[n].to \subseteq Listeners(n, worker[n].msg)
         /\ \/ worker'[n] = IdleWorker /\ worker[n].to = {q}
            \/ worker'[n] = [msg |-> worker[n].msg, to |-> worker[n].to \ {q}]
               /\ worker[n].to # {q}
<1>1. worker[n].msg \in Events /\ q \in worker[n].to
  BY PutTyped DEF Put
<1>2. worker[n].to \subseteq Listeners(n, worker[n].msg)
  BY <1>1, EventKinds DEF TypeOK
<1>3. /\ \A k \in Sides : k # n => worker'[k] = worker[k]
      /\ \/ worker'[n] = IdleWorker /\ worker[n].to = {q}
         \/ worker'[n] = [msg |-> worker[n].msg, to |-> worker[n].to \ {q}]
            /\ worker[n].to # {q}
  BY DEF Put, TypeOK
<1>4. UNCHANGED <<evq, buf, mcu, used, got>>
  BY DEF Put, line, seen
<1>5. QED
  BY <1>1, <1>2, <1>3, <1>4

(* The event handler of commCtrl on the nRF52840. *)
LEMMA MapPutComm ==
  ASSUME TypeOK, TypeOK', MapInv, Put("nrf52", "comm")
  PROVE  MapInv'
<1> DEFINE w == worker["nrf52"]
           X == SlotOf(w.msg, FrameNum)
<1>1. EvqInOrder /\ MsgqInOrder /\ GotInOrder /\ Chain(MapFlow)
  BY OrderParts DEF MapInv
<1>2. /\ "nrf52" \in Sides /\ "nrf91" \in Sides /\ "nrf91" # "nrf52"
      /\ "comm" \in Modules /\ "mcu" \in Modules /\ "comm" # "mcu"
  BY SidesTyped
<1>3. /\ UNCHANGED <<evq, buf, mcu, used, got>>
      /\ worker'["nrf91"] = worker["nrf91"]
      /\ w.msg \in Events /\ w.to \subseteq Listeners("nrf52", w.msg)
      /\ \/ worker'["nrf52"] = IdleWorker /\ w.to = {"comm"}
         \/ worker'["nrf52"] = [msg |-> w.msg, to |-> w.to \ {"comm"}] /\ w.to # {"comm"}
      /\ "comm" \in w.to
  BY <1>2, PutWorker
<1>4. /\ msgq'["nrf91"]["mcu"] = msgq["nrf91"]["mcu"] /\ msgq'["nrf52"]["mcu"] = msgq["nrf52"]["mcu"]
      /\ NumsOf(msgq'["nrf52"]["comm"], FrameNum) = NumsOf(msgq["nrf52"]["comm"], FrameNum) \union X
      /\ InOrder(msgq["nrf52"]["comm"], FrameNum)
           /\ Before(NumsOf(msgq["nrf52"]["comm"], FrameNum), X)
           => InOrder(msgq'["nrf52"]["comm"], FrameNum)
  BY <1>2, PutOrder
<1>5. MapFlow[12] = X /\ MapFlow'[11] = MapFlow[11] \union X /\ Before(MapFlow[11], X)
  BY <1>1, <1>4, MapPlaces, MapPlacesNext, MapBefore
<1>6. MsgqInOrder'
  BY <1>1, <1>4, <1>5, MapPlaces, OrderParts DEF MsgqInOrder
<1>7. QueuesInOrder' /\ GotInOrder'
  BY <1>1, <1>3, <1>6, OrderParts
<1>8. MapFlow'[12] = {}
  <2>1. CASE worker'["nrf52"] = IdleWorker
    BY <2>1, MapPlacesNext, NoMsgSlots DEF IdleWorker
  <2>2. CASE worker'["nrf52"] = [msg |-> w.msg, to |-> w.to \ {"comm"}] /\ w.to # {"comm"}
    <3>1. w.msg.kind # "FRAME"
      BY <1>3, <2>2 DEF Listeners
    <3>2. SlotOf(w.msg, FrameNum) = {}
      BY <1>3, <3>1, MapSlots
    <3>3. worker'["nrf52"].msg = w.msg
      BY <2>2
    <3>4. QED
      BY <3>2, <3>3, MapPlacesNext
  <2>3. QED
    BY <1>3, <2>1, <2>2
<1>9. MapFlow'[9] \subseteq MapFlow[9]
  <2>1. CASE worker'["nrf52"] = IdleWorker
    BY <2>1, MapPlacesNext, NoMsgSlots DEF IdleWorker, WaitingFor
  <2>2. CASE worker'["nrf52"] = [msg |-> w.msg, to |-> w.to \ {"comm"}]
    BY <2>2, MapPlaces, MapPlacesNext DEF WaitingFor
  <2>3. QED
    BY <1>3, <2>1, <2>2
<1>10. /\ MapFlow'[1] = MapFlow[1] /\ MapFlow'[2] = MapFlow[2] /\ MapFlow'[3] = MapFlow[3]
       /\ MapFlow'[4] = MapFlow[4] /\ MapFlow'[5] = MapFlow[5] /\ MapFlow'[6] = MapFlow[6]
       /\ MapFlow'[7] = MapFlow[7] /\ MapFlow'[8] = MapFlow[8] /\ MapFlow'[10] = MapFlow[10]
       /\ MapFlow'[13] = MapFlow[13] /\ MapFlow'[14] = MapFlow[14]
  BY <1>3, <1>4, MapStill, MapPlaces, MapPlacesNext
<1> HIDE DEF X
<1>11. ASSUME NEW k \in 1 .. 14, k # 11, k # 12 PROVE MapFlow'[k] \subseteq MapFlow[k]
  <2>1. CASE k \in 1 .. 7
    BY <1>10, <2>1, SevenPlaces
  <2>2. QED
    BY <1>9, <1>10, <1>11, <2>1, FourteenPlaces
<1>12. /\ 12 \in 2 .. 14 /\ 11 \in 1 .. 13 /\ 11 = 12 - 1
       /\ X \in SUBSET MapFlow[12] /\ MapFlow'[11] \subseteq MapFlow[11] \union X
       /\ MapFlow'[12] \subseteq MapFlow[12] /\ Before(X, MapFlow'[12])
  BY <1>5, <1>8 DEF Before
<1>13. QED
  BY <1>7, <1>11, <1>12, MapMoved

(* The event handler of mcu_exchange on the nRF52840. *)
LEMMA MapPutMcu ==
  ASSUME TypeOK, TypeOK', MapInv, Put("nrf52", "mcu")
  PROVE  MapInv'
<1> DEFINE w == worker["nrf52"]
           X == SlotOf(w.msg, SentNum)
<1>1. EvqInOrder /\ MsgqInOrder /\ GotInOrder /\ Chain(MapFlow)
  BY OrderParts DEF MapInv
<1>2. /\ "nrf52" \in Sides /\ "nrf91" \in Sides /\ "nrf91" # "nrf52"
      /\ "comm" \in Modules /\ "mcu" \in Modules /\ "comm" # "mcu"
  BY SidesTyped
<1>3. /\ UNCHANGED <<evq, buf, mcu, used, got>>
      /\ worker'["nrf91"] = worker["nrf91"]
      /\ w.msg \in Events
      /\ \/ worker'["nrf52"] = IdleWorker
         \/ worker'["nrf52"] = [msg |-> w.msg, to |-> w.to \ {"mcu"}]
      /\ "mcu" \in w.to
  BY <1>2, PutWorker
<1>4. /\ msgq'["nrf91"]["mcu"] = msgq["nrf91"]["mcu"] /\ msgq'["nrf52"]["comm"] = msgq["nrf52"]["comm"]
      /\ NumsOf(msgq'["nrf52"]["mcu"], SentNum) = NumsOf(msgq["nrf52"]["mcu"], SentNum) \union X
      /\ InOrder(msgq["nrf52"]["mcu"], SentNum)
           /\ Before(NumsOf(msgq["nrf52"]["mcu"], SentNum), X)
           => InOrder(msgq'["nrf52"]["mcu"], SentNum)
  BY <1>2, PutOrder
<1>5. MapFlow[9] = X /\ MapFlow'[8] = MapFlow[8] \union X /\ Before(MapFlow[8], X)
  BY <1>1, <1>3, <1>4, MapPlaces, MapPlacesNext, MapBefore DEF WaitingFor
<1>6. MsgqInOrder'
  BY <1>1, <1>4, <1>5, MapPlaces, OrderParts DEF MsgqInOrder
<1>7. QueuesInOrder' /\ GotInOrder'
  BY <1>1, <1>3, <1>6, OrderParts
<1>8. MapFlow'[9] = {} /\ MapFlow'[12] \subseteq MapFlow[12]
  <2>1. CASE worker'["nrf52"] = IdleWorker
    BY <2>1, MapPlacesNext, NoMsgSlots DEF IdleWorker, WaitingFor
  <2>2. CASE worker'["nrf52"] = [msg |-> w.msg, to |-> w.to \ {"mcu"}]
    BY <2>2, MapPlaces, MapPlacesNext DEF WaitingFor
  <2>3. QED
    BY <1>3, <2>1, <2>2
<1>10. /\ MapFlow'[1] = MapFlow[1] /\ MapFlow'[2] = MapFlow[2] /\ MapFlow'[3] = MapFlow[3]
       /\ MapFlow'[4] = MapFlow[4] /\ MapFlow'[5] = MapFlow[5] /\ MapFlow'[6] = MapFlow[6]
       /\ MapFlow'[7] = MapFlow[7] /\ MapFlow'[10] = MapFlow[10] /\ MapFlow'[11] = MapFlow[11]
       /\ MapFlow'[13] = MapFlow[13] /\ MapFlow'[14] = MapFlow[14]
  BY <1>3, <1>4, MapStill, MapPlaces, MapPlacesNext
<1> HIDE DEF X
<1>11. ASSUME NEW k \in 1 .. 14, k # 8, k # 9 PROVE MapFlow'[k] \subseteq MapFlow[k]
  <2>1. CASE k \in 1 .. 7
    BY <1>10, <2>1, SevenPlaces
  <2>2. QED
    BY <1>8, <1>10, <1>11, <2>1, FourteenPlaces
<1>12. /\ 9 \in 2 .. 14 /\ 8 \in 1 .. 13 /\ 8 = 9 - 1
       /\ X \in SUBSET MapFlow[9] /\ MapFlow'[8] \subseteq MapFlow[8] \union X
       /\ MapFlow'[9] \subseteq MapFlow[9] /\ Before(X, MapFlow'[9])
  BY <1>5, <1>8 DEF Before
<1>13. QED
  BY <1>7, <1>11, <1>12, MapMoved

(* The event handlers of the nRF9160: only mcu_exchange listens. *)
LEMMA MapPut91 ==
  ASSUME TypeOK, TypeOK', MapInv, NEW q \in Modules, Put("nrf91", q)
  PROVE  MapInv'
<1> DEFINE w == worker["nrf91"]
           X == SlotOf(w.msg, TextNum)
<1>1. EvqInOrder /\ MsgqInOrder /\ GotInOrder /\ Chain(MapFlow)
  BY OrderParts DEF MapInv
<1>2. /\ "nrf52" \in Sides /\ "nrf91" \in Sides /\ "nrf91" # "nrf52"
      /\ "comm" \in Modules /\ "mcu" \in Modules /\ "comm" # "mcu"
  BY SidesTyped
<1>3. /\ UNCHANGED <<evq, buf, mcu, used, got>>
      /\ worker'["nrf52"] = worker["nrf52"]
      /\ w.msg \in Events /\ w.to \subseteq Listeners("nrf91", w.msg) /\ q \in w.to
      /\ \/ worker'["nrf91"] = IdleWorker
         \/ w.to # {q}
  BY <1>2, PutWorker
<1>4. q = "mcu" /\ worker'["nrf91"] = IdleWorker
  BY <1>3 DEF Listeners
<1>5. /\ msgq'["nrf52"]["mcu"] = msgq["nrf52"]["mcu"] /\ msgq'["nrf52"]["comm"] = msgq["nrf52"]["comm"]
      /\ NumsOf(msgq'["nrf91"]["mcu"], TextNum) = NumsOf(msgq["nrf91"]["mcu"], TextNum) \union X
      /\ InOrder(msgq["nrf91"]["mcu"], TextNum)
           /\ Before(NumsOf(msgq["nrf91"]["mcu"], TextNum), X)
           => InOrder(msgq'["nrf91"]["mcu"], TextNum)
  BY <1>2, <1>4, PutOrder
<1>6. MapFlow[4] = X /\ MapFlow'[3] = MapFlow[3] \union X /\ Before(MapFlow[3], X)
  BY <1>1, <1>5, MapPlaces, MapPlacesNext, MapBefore
<1>7. MsgqInOrder'
  BY <1>1, <1>5, <1>6, MapPlaces, OrderParts DEF MsgqInOrder
<1>8. QueuesInOrder' /\ GotInOrder'
  BY <1>1, <1>3, <1>7, OrderParts
<1>9. MapFlow'[4] = {}
  BY <1>4, MapPlacesNext, NoMsgSlots DEF IdleWorker
<1>10. /\ MapFlow'[1] = MapFlow[1] /\ MapFlow'[2] = MapFlow[2] /\ MapFlow'[5] = MapFlow[5]
       /\ MapFlow'[6] = MapFlow[6] /\ MapFlow'[7] = MapFlow[7] /\ MapFlow'[8] = MapFlow[8]
       /\ MapFlow'[9] = MapFlow[9] /\ MapFlow'[10] = MapFlow[10] /\ MapFlow'[11] = MapFlow[11]
       /\ MapFlow'[12] = MapFlow[12] /\ MapFlow'[13] = MapFlow[13] /\ MapFlow'[14] = MapFlow[14]
  BY <1>3, <1>5, MapStill, MapPlaces, MapPlacesNext
<1> HIDE DEF X
<1>11. ASSUME NEW k \in 1 .. 14, k # 3, k # 4 PROVE MapFlow'[k] \subseteq MapFlow[k]
  <2>1. CASE k \in 1 .. 7
    BY <1>10, <1>11, <2>1, SevenPlaces
  <2>2. QED
    BY <1>10, <2>1, FourteenPlaces
<1>12. /\ 4 \in 2 .. 14 /\ 3 \in 1 .. 13 /\ 3 = 4 - 1
       /\ X \in SUBSET MapFlow[4] /\ MapFlow'[3] \subseteq MapFlow[3] \union X
       /\ MapFlow'[4] \subseteq MapFlow[4] /\ Before(X, MapFlow'[4])
  BY <1>6, <1>9 DEF Before
<1>13. QED
  BY <1>8, <1>11, <1>12, MapMoved

(* commCtrl makes the heat map of a frame a message, or says another thing. *)
LEMMA RoutedMap ==
  ASSUME NEW m \in Events, Route(m)
  PROVE  \/ UNCHANGED evq
         \/ \E e \in Events : Submit("nrf52", e) /\ e.kind \notin {"MAP", "DATA", "FRAME"}
         \/ m.kind = "FRAME" /\ Submit("nrf52", Mcu("MAP", m.num, FALSE))
BY EventsTyped DEF Route, Toggle, Error, Mcu

(* The thread of commCtrl takes a message. *)
LEMMA MapComm ==
  ASSUME TypeOK, TypeOK', MapInv, Comm
  PROVE  MapInv'
<1> DEFINE m == Head(msgq["nrf52"]["comm"])
           X == SlotOf(m, FrameNum)
<1>1. EvqInOrder /\ MsgqInOrder /\ GotInOrder /\ Chain(MapFlow)
  BY OrderParts DEF MapInv
<1>2. /\ "nrf52" \in Sides /\ "nrf91" \in Sides /\ "nrf91" # "nrf52"
      /\ "comm" \in Modules /\ "mcu" \in Modules /\ "comm" # "mcu"
  BY SidesTyped
<1>3. /\ UNCHANGED <<worker, buf, mcu, used, got>>
      /\ msgq["nrf52"]["comm"] # <<>> /\ Route(m)
      /\ msgq' = [msgq EXCEPT !["nrf52"]["comm"] = Tail(@)]
  BY DEF Comm, line, seen
<1>4. m \in Events
  BY <1>2, <1>3, TakenTyped
<1>5. /\ msgq'["nrf91"]["mcu"] = msgq["nrf91"]["mcu"] /\ msgq'["nrf52"]["mcu"] = msgq["nrf52"]["mcu"]
      /\ NumsOf(msgq["nrf52"]["comm"], FrameNum) = NumsOf(msgq'["nrf52"]["comm"], FrameNum) \union X
      /\ InOrder(msgq["nrf52"]["comm"], FrameNum) =>
           /\ InOrder(msgq'["nrf52"]["comm"], FrameNum)
           /\ Before(X, NumsOf(msgq'["nrf52"]["comm"], FrameNum))
  <2>1. /\ \A k \in Sides, r \in Modules : (k # "nrf52" \/ r # "comm") => msgq'[k][r] = msgq[k][r]
        /\ NumsOf(msgq["nrf52"]["comm"], FrameNum) =
             NumsOf(msgq'["nrf52"]["comm"], FrameNum) \union SlotOf(m, FrameNum)
        /\ InOrder(msgq["nrf52"]["comm"], FrameNum) =>
             /\ InOrder(msgq'["nrf52"]["comm"], FrameNum)
             /\ Before(SlotOf(m, FrameNum), NumsOf(msgq'["nrf52"]["comm"], FrameNum))
    <3>1. "nrf52" \in Sides /\ "comm" \in Modules /\ msgq["nrf52"]["comm"] # <<>>
          /\ msgq' = [msgq EXCEPT !["nrf52"]["comm"] = Tail(@)]
      BY <1>2, <1>3
    <3>2. QED
      BY <3>1, TakeOrder
  <2>2. QED
    BY <1>2, <2>1
<1>6. /\ MapFlow[11] = MapFlow'[11] \union X /\ Before(X, MapFlow'[11])
      /\ MsgqInOrder'
  BY <1>1, <1>5, MapPlaces, MapPlacesNext, OrderParts DEF MsgqInOrder
<1>7. /\ MapFlow'[1] = MapFlow[1] /\ MapFlow'[3] = MapFlow[3] /\ MapFlow'[4] = MapFlow[4]
      /\ MapFlow'[6] = MapFlow[6] /\ MapFlow'[7] = MapFlow[7] /\ MapFlow'[8] = MapFlow[8]
      /\ MapFlow'[9] = MapFlow[9] /\ MapFlow'[12] = MapFlow[12] /\ MapFlow'[14] = MapFlow[14]
      /\ GotInOrder'
  BY <1>1, <1>3, <1>5, MapStill, MapPlaces, MapPlacesNext, OrderParts
<1> HIDE DEF m
<1>8. /\ MapFlow'[2] = MapFlow[2] /\ MapFlow'[5] = MapFlow[5] /\ MapFlow'[13] = MapFlow[13]
      /\ MapFlow'[10] \subseteq MapFlow[10] \union X /\ EvqInOrder'
  <2> DEFINE Goal == /\ MapFlow'[2] = MapFlow[2] /\ MapFlow'[5] = MapFlow[5]
                     /\ MapFlow'[13] = MapFlow[13]
                     /\ MapFlow'[10] \subseteq MapFlow[10] \union X /\ EvqInOrder'
  <2>1. CASE UNCHANGED evq
    BY <1>1, <2>1, MapStill, OrderParts
  <2>2. ASSUME NEW e \in Events, Submit("nrf52", e), e.kind \notin {"MAP", "DATA", "FRAME"}
        PROVE  Goal
    BY <1>1, <1>2, <2>2, SubmitPlaces, OrderParts
  <2>3. ASSUME m.kind = "FRAME", Submit("nrf52", Mcu("MAP", m.num, FALSE))
        PROVE  Goal
    <3> DEFINE e == Mcu("MAP", m.num, FALSE)
    <3>1. m.num \in 0 .. MaxFrames /\ "MAP" \in Wire
      BY <1>4, <2>3, EventKinds, HeatAssumption DEF Wire
    <3>2. e \in Events /\ e.kind = "MAP" /\ e.num = m.num /\ ~e.received
      BY <3>1, EventsTyped DEF Mcu
    <3> HIDE DEF e
    <3>3. SlotOf(e, SentNum) = {m.num} /\ X = {m.num}
      BY <1>4, <2>3, <3>2, MapSlots
    <3>4. /\ MapFlow'[2] = MapFlow[2] /\ MapFlow'[5] = MapFlow[5] /\ MapFlow'[13] = MapFlow[13]
          /\ InOrder(evq'["nrf91"], HeardNum) /\ InOrder(evq'["nrf91"], TextNum)
          /\ InOrder(evq'["nrf52"], FrameNum)
      <4>1. Submit("nrf52", e)
        BY <2>3 DEF e
      <4>2. QED
        BY <1>1, <1>2, <3>2, <4>1, SubmitPlaces
    <3>5. /\ NumsOf(evq'["nrf52"], SentNum) = NumsOf(evq["nrf52"], SentNum) \union {m.num}
          /\ InOrder(evq["nrf52"], SentNum) /\ Before(NumsOf(evq["nrf52"], SentNum), {m.num})
               => InOrder(evq'["nrf52"], SentNum)
      <4>1. Submit("nrf52", e)
        BY <2>3 DEF e
      <4>2. QED
        BY <1>2, <3>2, <3>3, <4>1, SubmitOrder
    <3>6. Before(MapFlow[10], {m.num})
      <4>1. {m.num} \subseteq MapFlow[11] /\ Before(MapFlow[10], MapFlow[11])
        BY <1>1, <1>6, <3>3, MapBefore
      <4>2. QED
        BY <4>1 DEF Before
    <3>7. InOrder(evq'["nrf52"], SentNum) /\ MapFlow'[10] = MapFlow[10] \union X
      BY <1>1, <3>3, <3>5, <3>6, MapPlaces, MapPlacesNext DEF EvqInOrder
    <3>8. QED
      BY <3>4, <3>7, OrderParts
  <2>4. QED
    BY <1>3, <1>4, <2>1, <2>2, <2>3, RoutedMap
<1> HIDE DEF X
<1>9. QueuesInOrder'
  BY <1>6, <1>8, OrderParts
<1>10. ASSUME NEW k \in 1 .. 14, k # 10, k # 11 PROVE MapFlow'[k] \subseteq MapFlow[k]
  <2>1. CASE k \in 1 .. 7
    BY <1>7, <1>8, <2>1, SevenPlaces
  <2>2. QED
    BY <1>7, <1>8, <1>10, <2>1, FourteenPlaces
<1>11. /\ 11 \in 2 .. 14 /\ 10 \in 1 .. 13 /\ 10 = 11 - 1
       /\ X \in SUBSET MapFlow[11] /\ MapFlow'[10] \subseteq MapFlow[10] \union X
       /\ MapFlow'[11] \subseteq MapFlow[11] /\ Before(X, MapFlow'[11])
  BY <1>6, <1>8
<1>12. QED
  BY <1>7, <1>9, <1>10, <1>11, MapMoved

(* What mcu_exchange.c submits: a heat map only of a text that is one. *)
LEMMA HandledKind ==
  ASSUME NEW n \in Sides, NEW m \in Events,
         InitLine(n, m) \/ StartSend(n, m) \/ HandleData(n, m) \/ EncodeFails(n, m) \/ Ignore(n, m)
  PROVE  \/ UNCHANGED evq
         \/ \E e \in Events : /\ Submit(n, e) /\ e.kind # "DATA" /\ e.kind # "FRAME"
                              /\ e.kind = "MAP" =>
                                   /\ e.received /\ m.kind = "DATA"
                                   /\ SlotOf(m, TextNum) = {e.num}
<1>1. CASE InitLine(n, m)
  BY <1>1, EventsTyped DEF InitLine, Up, Error, Mcu
<1>2. CASE StartSend(n, m) \/ EncodeFails(n, m) \/ Ignore(n, m)
  BY <1>2 DEF StartSend, EncodeFails, Ignore
<1>3. CASE HandleData(n, m)
  <2>1. CASE Parses(m.bytes) /\ Submit(n, Received(m.bytes[1][1]))
    <3> DEFINE p == m.bytes[1][1]
    <3>1. p \in Messages /\ m.kind = "DATA"
      BY <1>3, <2>1, ParsedTyped, EventKinds DEF HandleData
    <3>2. /\ Received(p) \in Events /\ Received(p).kind = p.kind /\ p.kind \in Wire
          /\ Received(p).num = p.num /\ Received(p).received
      BY <3>1, MessageTyped DEF Received, Mcu, Messages
    <3>3. p.kind = "MAP" => SlotOf(m, TextNum) = {p.num}
      BY <2>1, <3>1, MapSlots
    <3> HIDE DEF p
    <3>4. Received(p).kind # "DATA" /\ Received(p).kind # "FRAME"
      BY <3>2 DEF Wire
    <3>5. Submit(n, Received(p))
      BY <2>1 DEF p
    <3>6. QED
      BY <3>1, <3>2, <3>3, <3>4, <3>5
  <2>2. CASE Submit(n, [Error EXCEPT !.received = TRUE])
    BY <2>2, EventsTyped DEF Error, Mcu
  <2>3. CASE UNCHANGED evq
    BY <2>3
  <2>4. QED
    BY <1>3, <2>1, <2>2, <2>3 DEF HandleData
<1>4. QED
  BY <1>1, <1>2, <1>3

(* The mcu_exchange module of the nRF52840 begins a message, or not. *)
LEMMA MapGet52 ==
  ASSUME TypeOK, TypeOK', MapInv, GetMessage("nrf52")
  PROVE  MapInv'
<1> DEFINE m == Head(msgq["nrf52"]["mcu"])
           X == SlotOf(m, SentNum)
<1>1. EvqInOrder /\ MsgqInOrder /\ GotInOrder /\ Chain(MapFlow)
  BY OrderParts DEF MapInv
<1>2. /\ "nrf52" \in Sides /\ "nrf91" \in Sides /\ "nrf91" # "nrf52"
      /\ "comm" \in Modules /\ "mcu" \in Modules /\ "comm" # "mcu"
  BY SidesTyped
<1>3. /\ UNCHANGED <<worker, buf, used, got>>
      /\ msgq["nrf52"]["mcu"] # <<>> /\ mcu["nrf52"] = NotSending
      /\ InitLine("nrf52", m) \/ StartSend("nrf52", m) \/ HandleData("nrf52", m) \/ EncodeFails("nrf52", m) \/ Ignore("nrf52", m)
      /\ msgq' = [msgq EXCEPT !["nrf52"]["mcu"] = Tail(@)]
  BY DEF GetMessage, seen
<1>4. m \in Events
  BY <1>2, <1>3, TakenTyped
<1>5. /\ msgq'["nrf91"]["mcu"] = msgq["nrf91"]["mcu"] /\ msgq'["nrf52"]["comm"] = msgq["nrf52"]["comm"]
      /\ NumsOf(msgq["nrf52"]["mcu"], SentNum) = NumsOf(msgq'["nrf52"]["mcu"], SentNum) \union X
      /\ InOrder(msgq["nrf52"]["mcu"], SentNum) =>
           /\ InOrder(msgq'["nrf52"]["mcu"], SentNum)
           /\ Before(X, NumsOf(msgq'["nrf52"]["mcu"], SentNum))
  <2>1. /\ \A k \in Sides, r \in Modules : (k # "nrf52" \/ r # "mcu") => msgq'[k][r] = msgq[k][r]
        /\ NumsOf(msgq["nrf52"]["mcu"], SentNum) =
             NumsOf(msgq'["nrf52"]["mcu"], SentNum) \union SlotOf(m, SentNum)
        /\ InOrder(msgq["nrf52"]["mcu"], SentNum) =>
             /\ InOrder(msgq'["nrf52"]["mcu"], SentNum)
             /\ Before(SlotOf(m, SentNum), NumsOf(msgq'["nrf52"]["mcu"], SentNum))
    <3>1. "nrf52" \in Sides /\ "mcu" \in Modules /\ msgq["nrf52"]["mcu"] # <<>>
          /\ msgq' = [msgq EXCEPT !["nrf52"]["mcu"] = Tail(@)]
      BY <1>2, <1>3
    <3>2. QED
      BY <3>1, TakeOrder
  <2>2. QED
    BY <1>2, <2>1
<1>6. /\ MapFlow[8] = MapFlow'[8] \union X /\ Before(X, MapFlow'[8])
      /\ MsgqInOrder'
  BY <1>1, <1>5, MapPlaces, MapPlacesNext, OrderParts DEF MsgqInOrder
<1>7. /\ MapFlow'[1] = MapFlow[1] /\ MapFlow'[3] = MapFlow[3] /\ MapFlow'[4] = MapFlow[4]
      /\ MapFlow'[6] = MapFlow[6] /\ MapFlow'[9] = MapFlow[9] /\ MapFlow'[11] = MapFlow[11]
      /\ MapFlow'[12] = MapFlow[12] /\ MapFlow'[14] = MapFlow[14] /\ GotInOrder'
  BY <1>1, <1>3, <1>5, MapStill, MapPlaces, MapPlacesNext, OrderParts
<1> HIDE DEF m
<1>8. \/ UNCHANGED evq
      \/ \E e \in Events : Submit("nrf52", e) /\ e.kind # "DATA" /\ e.kind # "FRAME"
                           /\ (e.kind = "MAP" => e.received)
  BY <1>2, <1>3, <1>4, HandledKind
<1>9. /\ MapFlow'[2] = MapFlow[2] /\ MapFlow'[5] = MapFlow[5] /\ MapFlow'[10] = MapFlow[10]
      /\ MapFlow'[13] = MapFlow[13] /\ EvqInOrder'
  <2> DEFINE Goal == /\ MapFlow'[2] = MapFlow[2] /\ MapFlow'[5] = MapFlow[5]
                     /\ MapFlow'[10] = MapFlow[10] /\ MapFlow'[13] = MapFlow[13] /\ EvqInOrder'
  <2>1. CASE UNCHANGED evq
    BY <1>1, <2>1, MapStill, OrderParts
  <2>2. ASSUME NEW e \in Events, Submit("nrf52", e), e.kind # "DATA", e.kind # "FRAME",
               e.kind = "MAP" => e.received
        PROVE  Goal
    <3>1. SlotOf(e, SentNum) = {}
      BY <2>2, MapSlots
    <3>2. NumsOf(evq'["nrf52"], SentNum) = NumsOf(evq["nrf52"], SentNum)
          /\ InOrder(evq'["nrf52"], SentNum)
      BY <1>1, <1>2, <2>2, <3>1, SilentOrder DEF EvqInOrder
    <3>3. /\ MapFlow'[2] = MapFlow[2] /\ MapFlow'[5] = MapFlow[5] /\ MapFlow'[13] = MapFlow[13]
          /\ InOrder(evq'["nrf91"], HeardNum) /\ InOrder(evq'["nrf91"], TextNum)
          /\ InOrder(evq'["nrf52"], FrameNum)
      BY <1>1, <1>2, <2>2, SubmitPlaces
    <3>4. QED
      BY <3>2, <3>3, MapPlaces, MapPlacesNext, OrderParts
  <2>3. QED
    BY <1>8, <2>1, <2>2
<1>10. MapFlow'[7] \subseteq X
  <2>1. CASE UNCHANGED mcu
    BY <1>3, <2>1, MapPlacesNext DEF StartOf, NotSending
  <2>2. CASE StartSend("nrf52", m)
    <3>1. mcu'["nrf52"] = [msg |-> m, piece |-> 1]
      BY <1>2, <2>2 DEF StartSend, TypeOK
    <3>2. QED
      BY <3>1, MapPlacesNext DEF StartOf
  <2>3. QED
    BY <1>3, <2>1, <2>2 DEF InitLine, HandleData, EncodeFails, Ignore
<1> HIDE DEF X
<1>11. QueuesInOrder'
  BY <1>6, <1>9, OrderParts
<1>12. ASSUME NEW k \in 1 .. 14, k # 7, k # 8 PROVE MapFlow'[k] \subseteq MapFlow[k]
  <2>1. CASE k \in 1 .. 7
    BY <1>7, <1>9, <1>12, <2>1, SevenPlaces
  <2>2. QED
    BY <1>7, <1>9, <1>12, <2>1, FourteenPlaces
<1>13. /\ 8 \in 2 .. 14 /\ 7 \in 1 .. 13 /\ 7 = 8 - 1
       /\ X \in SUBSET MapFlow[8] /\ MapFlow'[7] \subseteq MapFlow[7] \union X
       /\ MapFlow'[8] \subseteq MapFlow[8] /\ Before(X, MapFlow'[8])
  BY <1>6, <1>10
<1>14. QED
  BY <1>7, <1>11, <1>12, <1>13, MapMoved

(* The mcu_exchange module of the nRF9160 reads a text. *)
LEMMA MapGet91 ==
  ASSUME TypeOK, TypeOK', MapInv, GetMessage("nrf91")
  PROVE  MapInv'
<1> DEFINE m == Head(msgq["nrf91"]["mcu"])
           X == SlotOf(m, TextNum)
<1>1. EvqInOrder /\ MsgqInOrder /\ GotInOrder /\ Chain(MapFlow)
  BY OrderParts DEF MapInv
<1>2. /\ "nrf52" \in Sides /\ "nrf91" \in Sides /\ "nrf91" # "nrf52"
      /\ "comm" \in Modules /\ "mcu" \in Modules /\ "comm" # "mcu"
  BY SidesTyped
<1>3. /\ UNCHANGED <<worker, buf, used, got>>
      /\ msgq["nrf91"]["mcu"] # <<>>
      /\ InitLine("nrf91", m) \/ StartSend("nrf91", m) \/ HandleData("nrf91", m) \/ EncodeFails("nrf91", m) \/ Ignore("nrf91", m)
      /\ msgq' = [msgq EXCEPT !["nrf91"]["mcu"] = Tail(@)]
  BY DEF GetMessage, seen
<1>4. m \in Events /\ mcu'["nrf52"] = mcu["nrf52"]
  <2>1. m \in Events
    BY <1>2, <1>3, TakenTyped
  <2>2. UNCHANGED mcu \/ mcu' = [mcu EXCEPT !["nrf91"] = [msg |-> m, piece |-> 1]]
    BY <1>3 DEF InitLine, StartSend, HandleData, EncodeFails, Ignore
  <2> HIDE DEF m
  <2>3. QED
    BY <1>2, <2>1, <2>2 DEF TypeOK
<1>5. /\ msgq'["nrf52"]["mcu"] = msgq["nrf52"]["mcu"] /\ msgq'["nrf52"]["comm"] = msgq["nrf52"]["comm"]
      /\ NumsOf(msgq["nrf91"]["mcu"], TextNum) = NumsOf(msgq'["nrf91"]["mcu"], TextNum) \union X
      /\ InOrder(msgq["nrf91"]["mcu"], TextNum) =>
           /\ InOrder(msgq'["nrf91"]["mcu"], TextNum)
           /\ Before(X, NumsOf(msgq'["nrf91"]["mcu"], TextNum))
  <2>1. /\ \A k \in Sides, r \in Modules : (k # "nrf91" \/ r # "mcu") => msgq'[k][r] = msgq[k][r]
        /\ NumsOf(msgq["nrf91"]["mcu"], TextNum) =
             NumsOf(msgq'["nrf91"]["mcu"], TextNum) \union SlotOf(m, TextNum)
        /\ InOrder(msgq["nrf91"]["mcu"], TextNum) =>
             /\ InOrder(msgq'["nrf91"]["mcu"], TextNum)
             /\ Before(SlotOf(m, TextNum), NumsOf(msgq'["nrf91"]["mcu"], TextNum))
    <3>1. "nrf91" \in Sides /\ "mcu" \in Modules /\ msgq["nrf91"]["mcu"] # <<>>
          /\ msgq' = [msgq EXCEPT !["nrf91"]["mcu"] = Tail(@)]
      BY <1>2, <1>3
    <3>2. QED
      BY <3>1, TakeOrder
  <2>2. QED
    BY <1>2, <2>1
<1>6. /\ MapFlow[3] = MapFlow'[3] \union X /\ Before(X, MapFlow'[3])
      /\ MsgqInOrder'
  BY <1>1, <1>5, MapPlaces, MapPlacesNext, OrderParts DEF MsgqInOrder
<1>7. /\ MapFlow'[1] = MapFlow[1] /\ MapFlow'[4] = MapFlow[4] /\ MapFlow'[6] = MapFlow[6]
      /\ MapFlow'[7] = MapFlow[7] /\ MapFlow'[8] = MapFlow[8] /\ MapFlow'[9] = MapFlow[9]
      /\ MapFlow'[11] = MapFlow[11] /\ MapFlow'[12] = MapFlow[12] /\ MapFlow'[14] = MapFlow[14]
      /\ GotInOrder'
  BY <1>1, <1>3, <1>4, <1>5, MapStill, MapPlaces, MapPlacesNext, OrderParts
<1> HIDE DEF m
<1>8. \/ UNCHANGED evq
      \/ \E e \in Events : Submit("nrf91", e) /\ e.kind # "DATA" /\ e.kind # "FRAME"
                           /\ (e.kind = "MAP" => X = {e.num})
  BY <1>2, <1>3, <1>4, HandledKind
<1>9. /\ MapFlow'[2] \subseteq MapFlow[2] \union X /\ MapFlow'[5] = MapFlow[5]
      /\ MapFlow'[10] = MapFlow[10] /\ MapFlow'[13] = MapFlow[13] /\ EvqInOrder'
  <2> DEFINE Goal == /\ MapFlow'[2] \subseteq MapFlow[2] \union X /\ MapFlow'[5] = MapFlow[5]
                     /\ MapFlow'[10] = MapFlow[10] /\ MapFlow'[13] = MapFlow[13] /\ EvqInOrder'
  <2>1. CASE UNCHANGED evq
    BY <1>1, <2>1, MapStill, OrderParts
  <2>2. ASSUME NEW e \in Events, Submit("nrf91", e), e.kind # "DATA", e.kind # "FRAME",
               e.kind = "MAP" => X = {e.num}
        PROVE  Goal
    <3>1. /\ MapFlow'[5] = MapFlow[5] /\ MapFlow'[10] = MapFlow[10] /\ MapFlow'[13] = MapFlow[13]
          /\ InOrder(evq'["nrf91"], TextNum) /\ InOrder(evq'["nrf52"], SentNum)
          /\ InOrder(evq'["nrf52"], FrameNum)
      BY <1>1, <1>2, <2>2, SubmitPlaces
    <3>2. CASE e.kind # "MAP"
      BY <1>1, <1>2, <2>2, <3>1, <3>2, SubmitPlaces, OrderParts
    <3>3. CASE e.kind = "MAP"
      <4>1. SlotOf(e, HeardNum) = X
        BY <2>2, <3>3, MapSlots
      <4> HIDE DEF X
      <4>2. /\ NumsOf(evq'["nrf91"], HeardNum) = NumsOf(evq["nrf91"], HeardNum) \union X
            /\ InOrder(evq["nrf91"], HeardNum) /\ Before(NumsOf(evq["nrf91"], HeardNum), X)
                 => InOrder(evq'["nrf91"], HeardNum)
        BY <1>2, <2>2, <4>1, SubmitOrder
      <4>3. Before(MapFlow[2], X)
        <5>1. X \subseteq MapFlow[3]
          BY <1>6
        <5>2. Before(MapFlow[2], MapFlow[3])
          BY <1>1, MapBefore
        <5>3. QED
          BY <5>1, <5>2 DEF Before
      <4>4. InOrder(evq'["nrf91"], HeardNum) /\ MapFlow'[2] = MapFlow[2] \union X
        BY <1>1, <4>2, <4>3, MapPlaces, MapPlacesNext DEF EvqInOrder
      <4>5. QED
        BY <3>1, <4>4, OrderParts
    <3>4. QED
      BY <3>2, <3>3
  <2>3. QED
    BY <1>8, <2>1, <2>2
<1> HIDE DEF X
<1>10. QueuesInOrder'
  BY <1>6, <1>9, OrderParts
<1>11. ASSUME NEW k \in 1 .. 14, k # 2, k # 3 PROVE MapFlow'[k] \subseteq MapFlow[k]
  <2>1. CASE k \in 1 .. 7
    BY <1>7, <1>9, <1>11, <2>1, SevenPlaces
  <2>2. QED
    BY <1>7, <1>9, <1>11, <2>1, FourteenPlaces
<1>12. /\ 3 \in 2 .. 14 /\ 2 \in 1 .. 13 /\ 2 = 3 - 1
       /\ X \in SUBSET MapFlow[3] /\ MapFlow'[2] \subseteq MapFlow[2] \union X
       /\ MapFlow'[3] \subseteq MapFlow[3] /\ Before(X, MapFlow'[3])
  BY <1>6, <1>9
<1>13. QED
  BY <1>7, <1>10, <1>11, <1>12, MapMoved

(* What a piece does to the buffer of the other side. *)
LEMMA SentPiece ==
  ASSUME TypeOK, NEW n \in Sides, SendPiece(n)
  PROVE  /\ UNCHANGED <<worker, msgq, got, toggled, used>>
         /\ \A j \in Sides : j # n => mcu'[j] = mcu[j]
         /\ \A j \in Sides : j # Peer(n) => buf'[j] = buf[j]
         /\ mcu'[n].piece # 1
         /\ \/ UNCHANGED <<evq, buf>>
            \/ UNCHANGED evq /\ buf'[Peer(n)] = <<>>
            \/ /\ UNCHANGED evq /\ mcu[n] # NotSending
               /\ buf'[Peer(n)] = Append(buf[Peer(n)], <<Message(mcu[n].msg), mcu[n].piece>>)
            \/ /\ buf[Peer(n)] # <<>> /\ Submit(Peer(n), Data(buf[Peer(n)]))
               /\ buf'[Peer(n)] = <<>>
<1> DEFINE m == mcu[n].msg
           i == mcu[n].piece
           k == Peer(n)
<1>1. k \in Sides /\ mcu[n] # NotSending
  BY SidesTyped DEF SendPiece
<1>2. UNCHANGED <<worker, msgq, got, toggled, used>>
  BY DEF SendPiece, seen
<1>3. /\ \A j \in Sides : j # n => mcu'[j] = mcu[j]
      /\ mcu'[n].piece # 1
  <2>1. i \in Nat /\ 1 <= i
    BY <1>1, PieceTyped
  <2>2. mcu \in [Sides -> [msg : Events \union {NoMsg}, piece : 0 .. BufLen]]
    BY DEF TypeOK
  <2>3. CASE mcu' = [mcu EXCEPT ![n].piece = i + 1]
    <3>1. mcu'[n].piece = i + 1
      BY <2>2, <2>3
    <3>2. QED
      BY <2>1, <2>2, <2>3, <3>1
  <2>4. CASE mcu' = [mcu EXCEPT ![n] = NotSending]
    BY <2>2, <2>4 DEF NotSending
  <2>5. QED
    BY <2>3, <2>4 DEF SendPiece
<1>4. CASE ~ listening[k]
  BY <1>2, <1>3, <1>4 DEF SendPiece
<1>5. CASE listening[k] /\ i <= Size[m.kind]
  <2>1. /\ buf' = [buf EXCEPT ![k] = Filled(buf[k], <<Message(m), i>>, BufLen)]
        /\ UNCHANGED evq
    BY <1>1, <1>5, PieceTyped DEF SendPiece, Receive
  <2>2. buf \in [Sides -> Seq(Pieces)]
    BY DEF TypeOK
  <2>3. /\ \A j \in Sides : j # k => buf'[j] = buf[j]
        /\ buf'[k] = <<>> \/ buf'[k] = Append(buf[k], <<Message(m), i>>)
    BY <1>1, <2>1, <2>2 DEF Filled
  <2>4. QED
    BY <1>1, <1>2, <1>3, <2>1, <2>3
<1>6. CASE listening[k] /\ ~ (i <= Size[m.kind])
  <2>1. Process(k) /\ buf' = [buf EXCEPT ![k] = <<>>]
    BY <1>1, <1>6, PieceTyped DEF SendPiece, Receive
  <2>2. buf'[k] = <<>> /\ \A j \in Sides : j # k => buf'[j] = buf[j]
    BY <1>1, <2>1 DEF TypeOK
  <2>3. QED
    BY <1>2, <1>3, <2>1, <2>2 DEF Process
<1>7. QED
  BY <1>4, <1>5, <1>6

(* A text is the one of the message the buffer begins with. *)
LEMMA TextHead ==
  ASSUME NEW b \in Seq(Pieces)
  PROVE  /\ Data(b) \in Events /\ Data(b).kind = "DATA"
         /\ SlotOf(Data(b), TextNum) \subseteq HeadOf(b)
<1>1. Data(b) \in Events /\ Data(b).kind = "DATA" /\ Data(b).bytes = b
  BY EventsTyped DEF Data
<1>2. ASSUME Parses(b), b[1][1].kind = "MAP" PROVE {b[1][1].num} = HeadOf(b)
  <2>1. b[1][1] \in Messages /\ b # <<>>
    BY <1>2, ParsedTyped DEF Parses
  <2>2. 1 \in 1 .. Size[b[1][1].kind]
    BY <2>1, SizeTyped DEF Messages
  <2>3. b[1] = <<b[1][1], 1>>
    BY <1>2, <2>2 DEF Parses
  <2>4. b[1][2] = 1
    BY <2>3
  <2>5. QED
    BY <1>2, <2>1, <2>4 DEF HeadOf
<1>3. QED
  BY <1>1, <1>2, MapSlots

(* A buffer begins with a heat map that it began with, or whose first      *)
(* piece comes in.                                                         *)
LEMMA BufferHead ==
  ASSUME NEW b \in Seq(Pieces), NEW m, NEW i
  PROVE  HeadOf(Append(b, <<Message(m), i>>))
           \subseteq HeadOf(b) \union (IF i = 1 /\ m.kind = "MAP" THEN {m.num} ELSE {})
<1> DEFINE p == <<Message(m), i>>
<1>1. CASE b = <<>>
  <2>1. Append(b, p) # <<>> /\ Append(b, p)[1] = p
    BY <1>1
  <2>2. p[1].kind = m.kind /\ p[1].num = m.num /\ p[2] = i
    BY DEF Message
  <2> HIDE DEF p
  <2>3. QED
    BY <2>1, <2>2 DEF HeadOf, p
<1>2. CASE b # <<>>
  <2>1. Append(b, p)[1] = b[1]
    BY <1>2
  <2> HIDE DEF p
  <2>2. QED
    BY <1>2, <2>1 DEF HeadOf, p
<1>3. QED
  BY <1>1, <1>2

(* The nRF52840 sends a piece: the first of a heat map begins what the     *)
(* other side has in its buffer, the zero byte makes it a text.            *)
LEMMA MapPiece52 ==
  ASSUME TypeOK, TypeOK', MapInv, SendPiece("nrf52")
  PROVE  MapInv'
<1> DEFINE b == buf["nrf91"]
           s == mcu["nrf52"]
<1>1. EvqInOrder /\ MsgqInOrder /\ GotInOrder /\ Chain(MapFlow)
  BY OrderParts DEF MapInv
<1>2. "nrf52" \in Sides /\ "nrf91" \in Sides /\ "nrf91" # "nrf52" /\ Peer("nrf52") = "nrf91"
  BY SidesTyped DEF Peer
<1>3. /\ UNCHANGED <<worker, msgq, got, used>> /\ mcu'["nrf52"].piece # 1
      /\ \/ UNCHANGED <<evq, buf>>
         \/ UNCHANGED evq /\ buf'["nrf91"] = <<>>
         \/ /\ UNCHANGED evq /\ s # NotSending
            /\ buf'["nrf91"] = Append(b, <<Message(s.msg), s.piece>>)
         \/ b # <<>> /\ Submit("nrf91", Data(b)) /\ buf'["nrf91"] = <<>>
  BY <1>2, SentPiece
<1>4. b \in Seq(Pieces)
  BY <1>2 DEF TypeOK
<1>5. /\ MapFlow'[1] = MapFlow[1] /\ MapFlow'[3] = MapFlow[3] /\ MapFlow'[4] = MapFlow[4]
      /\ MapFlow'[8] = MapFlow[8] /\ MapFlow'[9] = MapFlow[9] /\ MapFlow'[11] = MapFlow[11]
      /\ MapFlow'[12] = MapFlow[12] /\ MapFlow'[14] = MapFlow[14]
      /\ MsgqInOrder' /\ GotInOrder'
  BY <1>1, <1>3, MapStill, OrderParts
<1>6. MapFlow'[7] = {}
  BY <1>3, MapPlacesNext DEF StartOf
<1>7. MapFlow[6] = HeadOf(b) /\ MapFlow[7] = StartOf(s)
  BY MapPlaces
<1>8. CASE UNCHANGED evq
  <2>1. /\ MapFlow'[2] = MapFlow[2] /\ MapFlow'[5] = MapFlow[5] /\ MapFlow'[10] = MapFlow[10]
        /\ MapFlow'[13] = MapFlow[13] /\ EvqInOrder'
    BY <1>1, <1>8, MapStill, OrderParts
  <2>2. MapFlow'[6] \subseteq MapFlow[6] \union MapFlow[7]
    <3>1. CASE UNCHANGED buf
      BY <3>1, MapStill
    <3>2. CASE buf'["nrf91"] = <<>>
      BY <3>2, MapPlacesNext DEF HeadOf
    <3>3. CASE s # NotSending /\ buf'["nrf91"] = Append(b, <<Message(s.msg), s.piece>>)
      <4>1. s.msg \in Events /\ ~s.msg.received
        BY <1>2, <3>3, PieceTyped
      <4>2. (IF s.piece = 1 /\ s.msg.kind = "MAP" THEN {s.msg.num} ELSE {}) \subseteq StartOf(s)
        BY <4>1, MapSlots DEF StartOf
      <4>3. MapFlow'[6] \subseteq
              HeadOf(b) \union (IF s.piece = 1 /\ s.msg.kind = "MAP" THEN {s.msg.num} ELSE {})
        BY <1>4, <3>3, BufferHead, MapPlacesNext
      <4>4. QED
        BY <1>7, <4>2, <4>3
    <3>4. CASE Submit("nrf91", Data(b)) /\ buf'["nrf91"] = <<>>
      BY <3>4, MapPlacesNext DEF HeadOf
    <3>5. QED
      BY <1>3, <3>1, <3>2, <3>3, <3>4
  <2>3. ASSUME NEW k \in 1 .. 14, k # 6, k # 7 PROVE MapFlow'[k] \subseteq MapFlow[k]
    <3>1. CASE k \in 1 .. 7
      BY <1>5, <2>1, <2>3, <3>1, SevenPlaces
    <3>2. QED
      BY <1>5, <2>1, <3>1, FourteenPlaces
  <2>4. /\ 7 \in 2 .. 14 /\ 6 \in 1 .. 13 /\ 6 = 7 - 1
        /\ MapFlow[7] \in SUBSET MapFlow[7]
        /\ MapFlow'[7] \subseteq MapFlow[7] /\ Before(MapFlow[7], MapFlow'[7])
    BY <1>6 DEF Before
  <2>5. QueuesInOrder'
    BY <1>5, <2>1, OrderParts
  <2>6. QED
    BY <1>5, <2>2, <2>3, <2>4, <2>5, MapMoved
<1>9. CASE Submit("nrf91", Data(b)) /\ buf'["nrf91"] = <<>>
  <2> DEFINE X == SlotOf(Data(b), TextNum)
  <2>1. /\ Data(b) \in Events /\ Data(b).kind = "DATA"
        /\ X \subseteq MapFlow[6]
    BY <1>4, <1>7, TextHead
  <2>2. MapFlow'[6] = {}
    BY <1>9, MapPlacesNext DEF HeadOf
  <2>3. /\ MapFlow'[2] = MapFlow[2] /\ MapFlow'[10] = MapFlow[10] /\ MapFlow'[13] = MapFlow[13]
        /\ InOrder(evq'["nrf91"], HeardNum) /\ InOrder(evq'["nrf52"], SentNum)
        /\ InOrder(evq'["nrf52"], FrameNum)
    BY <1>1, <1>2, <1>9, <2>1, SubmitPlaces
  <2>4. /\ NumsOf(evq'["nrf91"], TextNum) = NumsOf(evq["nrf91"], TextNum) \union X
        /\ InOrder(evq["nrf91"], TextNum) /\ Before(NumsOf(evq["nrf91"], TextNum), X)
             => InOrder(evq'["nrf91"], TextNum)
    BY <1>2, <1>9, <2>1, SubmitOrder
  <2> HIDE DEF X
  <2>5. Before(MapFlow[5], X)
    <3>1. Before(MapFlow[5], MapFlow[6])
      BY <1>1, MapBefore
    <3>2. QED
      BY <2>1, <3>1 DEF Before
  <2>6. InOrder(evq'["nrf91"], TextNum) /\ MapFlow'[5] = MapFlow[5] \union X
    BY <1>1, <2>4, <2>5, MapPlaces, MapPlacesNext DEF EvqInOrder
  <2>7. QueuesInOrder'
    BY <1>5, <2>3, <2>6, OrderParts
  <2>8. ASSUME NEW k \in 1 .. 14, k # 5, k # 6 PROVE MapFlow'[k] \subseteq MapFlow[k]
    <3>1. CASE k \in 1 .. 7
      BY <1>5, <1>6, <2>3, <2>8, <3>1, SevenPlaces
    <3>2. QED
      BY <1>5, <2>3, <3>1, FourteenPlaces
  <2>9. /\ 6 \in 2 .. 14 /\ 5 \in 1 .. 13 /\ 5 = 6 - 1
        /\ X \in SUBSET MapFlow[6] /\ MapFlow'[5] \subseteq MapFlow[5] \union X
        /\ MapFlow'[6] \subseteq MapFlow[6] /\ Before(X, MapFlow'[6])
    BY <2>1, <2>2, <2>6 DEF Before
  <2>10. QED
    BY <1>5, <2>7, <2>8, <2>9, MapMoved
<1>10. QED
  BY <1>3, <1>8, <1>9

(* The nRF9160 sends a piece: no heat map of the path moves. *)
LEMMA MapPiece91 ==
  ASSUME TypeOK, MapInv, SendPiece("nrf91")
  PROVE  MapInv'
<1> DEFINE b == buf["nrf52"]
<1>1. EvqInOrder /\ MsgqInOrder /\ GotInOrder
  BY OrderParts DEF MapInv
<1>2. "nrf52" \in Sides /\ "nrf91" \in Sides /\ "nrf91" # "nrf52" /\ Peer("nrf91") = "nrf52"
  BY SidesTyped DEF Peer
<1>3. /\ UNCHANGED <<worker, msgq, got, used>> /\ mcu'["nrf52"] = mcu["nrf52"]
      /\ buf'["nrf91"] = buf["nrf91"]
      /\ UNCHANGED evq \/ Submit("nrf52", Data(b))
  BY <1>2, SentPiece
<1>4. b \in Seq(Pieces)
  BY <1>2 DEF TypeOK
<1>5. /\ MapFlow'[1] = MapFlow[1] /\ MapFlow'[3] = MapFlow[3] /\ MapFlow'[4] = MapFlow[4]
      /\ MapFlow'[6] = MapFlow[6] /\ MapFlow'[7] = MapFlow[7] /\ MapFlow'[8] = MapFlow[8]
      /\ MapFlow'[9] = MapFlow[9] /\ MapFlow'[11] = MapFlow[11] /\ MapFlow'[12] = MapFlow[12]
      /\ MapFlow'[14] = MapFlow[14] /\ MsgqInOrder' /\ GotInOrder'
  BY <1>1, <1>3, MapStill, MapPlaces, MapPlacesNext, OrderParts
<1>6. /\ MapFlow'[2] = MapFlow[2] /\ MapFlow'[5] = MapFlow[5] /\ MapFlow'[10] = MapFlow[10]
      /\ MapFlow'[13] = MapFlow[13] /\ EvqInOrder'
  <2>1. CASE UNCHANGED evq
    BY <1>1, <2>1, MapStill, OrderParts
  <2>2. CASE Submit("nrf52", Data(b))
    <3>1. Data(b) \in Events /\ Data(b).kind = "DATA"
      BY <1>4, TextHead
    <3>2. QED
      BY <1>1, <1>2, <2>2, <3>1, SubmitPlaces, OrderParts
  <2>3. QED
    BY <1>3, <2>1, <2>2
<1>7. QueuesInOrder'
  BY <1>5, <1>6, OrderParts
<1>8. QED
  BY <1>5, <1>6, <1>7, EachPlace

(* A restart loses what is on one side. *)
LEMMA MapRestart ==
  ASSUME TypeOK, MapInv, NEW n \in Sides, Restart(n)
  PROVE  MapInv'
<1>1. EvqInOrder /\ MsgqInOrder /\ GotInOrder
  BY OrderParts DEF MapInv
<1>2. "nrf52" \in Sides /\ "nrf91" \in Sides /\ "nrf91" # "nrf52"
  BY SidesTyped
<1>3. UNCHANGED got /\ used'["frames"] = used["frames"]
  BY DEF Restart, seen, Use, TypeOK, Inputs
<1>4. ASSUME NEW k \in Sides
      PROVE  /\ \/ evq'[k] = <<Ready>> /\ worker'[k] = IdleWorker /\ msgq'[k] = NoQueues
                   /\ mcu'[k] = NotSending /\ buf'[k] = <<>>
                \/ evq'[k] = evq[k] /\ worker'[k] = worker[k] /\ msgq'[k] = msgq[k]
                   /\ mcu'[k] = mcu[k] /\ buf'[k] = buf[k]
  BY DEF Restart, TypeOK
<1>5. ASSUME NEW num \in {HeardNum, TextNum, SentNum, FrameNum}
      PROVE  NumsOf(<<Ready>>, num) = {} /\ InOrder(<<Ready>>, num)
  <2>1. SlotOf(Ready, num) = {} /\ Ready \in Events
    BY EventsTyped, MapSlots DEF Ready
  <2>2. Ready \notin DOMAIN num
    BY <2>1 DEF SlotOf
  <2>3. \A i \in DOMAIN <<Ready>> : <<Ready>>[i] = Ready
    OBVIOUS
  <2>4. QED
    BY <2>2, <2>3 DEF NumsOf, InOrder
<1>6. /\ MapFlow'[2] \subseteq MapFlow[2] /\ MapFlow'[5] \subseteq MapFlow[5]
      /\ MapFlow'[10] \subseteq MapFlow[10] /\ MapFlow'[13] \subseteq MapFlow[13]
      /\ EvqInOrder'
  <2>1. ASSUME NEW k \in Sides, NEW num \in {HeardNum, TextNum, SentNum, FrameNum}
        PROVE  /\ NumsOf(evq'[k], num) \subseteq NumsOf(evq[k], num)
               /\ InOrder(evq[k], num) => InOrder(evq'[k], num)
    <3>1. CASE evq'[k] = <<Ready>>
      BY <1>5, <3>1
    <3>2. CASE evq'[k] = evq[k]
      BY <3>2
    <3>3. QED
      BY <1>4, <3>1, <3>2
  <2>2. /\ MapFlow'[2] \subseteq MapFlow[2] /\ MapFlow'[5] \subseteq MapFlow[5]
        /\ MapFlow'[10] \subseteq MapFlow[10] /\ MapFlow'[13] \subseteq MapFlow[13]
    BY <1>2, <2>1, MapPlaces, MapPlacesNext
  <2>3. EvqInOrder'
    BY <1>1, <1>2, <2>1, OrderParts DEF EvqInOrder
  <2>4. QED
    BY <2>2, <2>3
<1>7. /\ MapFlow'[3] \subseteq MapFlow[3] /\ MapFlow'[8] \subseteq MapFlow[8]
      /\ MapFlow'[11] \subseteq MapFlow[11] /\ MsgqInOrder'
  <2>1. NoQueues["comm"] = <<>> /\ NoQueues["mcu"] = <<>>
    BY SidesTyped DEF NoQueues
  <2>2. \A k \in Sides : \/ msgq'[k]["comm"] = <<>> /\ msgq'[k]["mcu"] = <<>>
                         \/ msgq'[k] = msgq[k]
    BY <1>4, <2>1
  <2>3. QED
    BY <1>1, <1>2, <2>2, OrderEmpty, MapPlaces, MapPlacesNext, OrderParts DEF MsgqInOrder
<1>8. /\ MapFlow'[4] \subseteq MapFlow[4] /\ MapFlow'[9] \subseteq MapFlow[9]
      /\ MapFlow'[12] \subseteq MapFlow[12]
  BY <1>2, <1>4, NoMsgSlots, MapPlaces, MapPlacesNext DEF IdleWorker, WaitingFor
<1>9. MapFlow'[6] \subseteq MapFlow[6] /\ MapFlow'[7] \subseteq MapFlow[7]
  BY <1>2, <1>4, MapPlaces, MapPlacesNext DEF HeadOf, StartOf, NotSending
<1>10. /\ MapFlow'[1] \subseteq MapFlow[1] /\ MapFlow'[14] \subseteq MapFlow[14] /\ GotInOrder'
       /\ QueuesInOrder'
  BY <1>1, <1>3, <1>6, <1>7, MapStill, MapPlaces, MapPlacesNext, OrderParts
<1>11. QED
  BY <1>6, <1>7, <1>8, <1>9, <1>10, EachPlace

LEMMA MapStep == TypeOK /\ TypeOK' /\ MapInv /\ [Next]_vars => MapInv'
<1> SUFFICES ASSUME TypeOK, TypeOK', MapInv, [Next]_vars PROVE MapInv'
  OBVIOUS
<1>1. CASE UNCHANGED vars
  BY <1>1, MapQuiet DEF vars
<1>2. ASSUME NEW n \in Sides, HandleEvent(n) PROVE MapInv'
  BY <1>2, MapHandle52, MapHandle91 DEF Sides
<1>3. ASSUME NEW n \in Sides, NEW q \in Modules, Put(n, q) PROVE MapInv'
  BY <1>3, MapPutComm, MapPutMcu, MapPut91 DEF Sides, Modules
<1>4. ASSUME NEW n \in Sides, GetMessage(n) \/ SendPiece(n) PROVE MapInv'
  BY <1>4, MapGet52, MapGet91, MapPiece52, MapPiece91 DEF Sides
<1>5. ASSUME NEW n \in Sides, Restart(n) PROVE MapInv'
  BY <1>5, MapRestart
<1>6. QED
  BY <1>1, <1>2, <1>3, <1>4, <1>5, MapSense, MapPress, MapComm DEF Next, Workqueue, McuThread

LEMMA MapInit == Init => MapInv
<1> SUFFICES ASSUME Init PROVE MapInv
  OBVIOUS
<1>1. /\ \A k \in Sides : evq[k] = <<Ready>> /\ worker[k] = IdleWorker /\ msgq[k] = NoQueues
                          /\ mcu[k] = NotSending /\ buf[k] = <<>>
      /\ got = <<>> /\ used["frames"] = 0
      /\ "nrf52" \in Sides /\ "nrf91" \in Sides
  BY SidesTyped DEF Init, Inputs
<1>2. NoQueues["comm"] = <<>> /\ NoQueues["mcu"] = <<>>
  BY SidesTyped DEF NoQueues
<1>3. ASSUME NEW num \in {HeardNum, TextNum, SentNum, FrameNum}
      PROVE  NumsOf(<<Ready>>, num) = {} /\ InOrder(<<Ready>>, num)
  <2>1. SlotOf(Ready, num) = {} /\ Ready \in Events
    BY EventsTyped, MapSlots DEF Ready
  <2>2. Ready \notin DOMAIN num
    BY <2>1 DEF SlotOf
  <2>3. \A i \in DOMAIN <<Ready>> : <<Ready>>[i] = Ready
    OBVIOUS
  <2>4. QED
    BY <2>2, <2>3 DEF NumsOf, InOrder
<1>4. QueuesInOrder
  BY <1>1, <1>2, <1>3, OrderEmpty DEF QueuesInOrder
<1>5. /\ MapFlow[2] = {} /\ MapFlow[5] = {} /\ MapFlow[10] = {} /\ MapFlow[13] = {}
      /\ MapFlow[3] = {} /\ MapFlow[8] = {} /\ MapFlow[11] = {}
  BY <1>1, <1>2, <1>3, OrderEmpty, MapPlaces
<1>6. /\ MapFlow[4] = {} /\ MapFlow[9] = {} /\ MapFlow[12] = {}
      /\ MapFlow[6] = {} /\ MapFlow[7] = {}
  BY <1>1, NoMsgSlots, MapPlaces DEF IdleWorker, WaitingFor, HeadOf, StartOf, NotSending
<1>7. MapFlow[1] = {0} /\ MapFlow[14] = {1}
  BY <1>1, MapPlaces DEF Given
<1>8. Chain(MapFlow)
  <2> SUFFICES ASSUME NEW i \in 1 .. 14, NEW k \in 1 .. 14, i < k,
                      NEW x \in MapFlow[i], NEW y \in MapFlow[k]
               PROVE  x < y
    BY MapPlaces DEF Chain, Before
  <2>1. i = 1
    <3>1. CASE i \in 1 .. 7
      BY <1>5, <1>6, <3>1, SevenPlaces
    <3>2. QED
      BY <1>5, <1>6, <3>1, FourteenPlaces
  <2>2. k = 14
    <3>1. CASE k \in 1 .. 7
      BY <1>5, <1>6, <2>1, <3>1, SevenPlaces
    <3>2. QED
      BY <1>5, <1>6, <3>1, FourteenPlaces
  <2>3. QED
    BY <1>7, <2>1, <2>2
<1>9. GotInOrder
  BY <1>1 DEF GotInOrder
<1>10. QED
  BY <1>4, <1>8, <1>9 DEF MapInv

(***************************************************************************)
(* The analysis is given heat maps the sensor took, each at most once and  *)
(* in their order: for every number of heat maps, of restarts, and of      *)
(* pieces that are cut off, glued together or thrown away on the line.     *)
(***************************************************************************)
THEOREM MapsKeepTheirOrder == Spec => []MapsOnceInOrder
<1>1. TypeOK /\ MapInv => MapsOnceInOrder
  <2> SUFFICES ASSUME TypeOK, MapInv PROVE MapsOnceInOrder
    OBVIOUS
  <2>1. GotInOrder /\ Before(Given, {used["frames"] + 1})
    <3>1. Chain(MapFlow) /\ GotInOrder
      BY DEF MapInv
    <3>2. Before(MapFlow[1], MapFlow[14])
      BY <3>1, MapBefore
    <3>3. QED
      BY <3>1, <3>2, MapPlaces
  <2>2. ASSUME NEW i \in DOMAIN got PROVE got[i] \in 1 .. used["frames"]
    <3>1. got[i] \in 0 .. MaxFrames
      BY EntriesTyped DEF TypeOK
    <3>2. 0 < got[i] /\ got[i] < used["frames"] + 1
      BY <2>1 DEF GotInOrder, Before, Given
    <3>3. used["frames"] \in Nat /\ MaxFrames \in Nat
      BY HeatAssumption DEF TypeOK, Inputs
    <3>4. QED
      BY <3>1, <3>2, <3>3
  <2>3. QED
    BY <2>1, <2>2 DEF MapsOnceInOrder, GotInOrder
<1>2. Spec => []MapInv
  BY MapInit, MapStep, TypeCorrect, PTL DEF Spec
<1>3. QED
  BY <1>1, <1>2, TypeCorrect, PTL

-----------------------------------------------------------------------------
(***************************************************************************)
(* The presses of the button                                               *)
(*                                                                         *)
(* A press is an event that is sent, pieces on the line, a text that was   *)
(* received, an event again, and a toggle.                                 *)
(***************************************************************************)
Buttons == {m \in Events : m.kind = "BUTTON"}
SentButtons == {m \in Events : m.kind = "BUTTON" /\ ~m.received}
ButtonTexts ==
  {m \in Events : m.kind = "DATA" /\ Parses(m.bytes) /\ m.bytes[1][1].kind = "BUTTON"}
ToToggle == {Toggle} \union Buttons \union ButtonTexts
Pressed == {Toggle} \union SentButtons

(* One when a listener has not put such an event yet; when a buffer begins *)
(* with the button; when none of a message that is sent has gone.          *)
OneFor(q, w, S) == IF q \in w.to /\ w.msg \in S THEN 1 ELSE 0
OneHead(b) == IF b # <<>> /\ b[1][1].kind = "BUTTON" /\ b[1][2] = 1 THEN 1 ELSE 0
OneStart(s) == IF s.piece = 1 /\ s.msg \in SentButtons THEN 1 ELSE 0

(* How many presses there are at each place, the toggles first. *)
PressFlow ==
  <<toggled,
    CountIn(evq["nrf52"], ToToggle), OneFor("comm", worker["nrf52"], Buttons),
    OneFor("mcu", worker["nrf52"], ButtonTexts), CountIn(msgq["nrf52"]["comm"], Buttons),
    CountIn(msgq["nrf52"]["mcu"], ButtonTexts), OneHead(buf["nrf52"]), OneStart(mcu["nrf91"]),
    CountIn(msgq["nrf91"]["mcu"], SentButtons), OneFor("mcu", worker["nrf91"], SentButtons),
    CountIn(evq["nrf91"], Pressed)>>

(* No press is at two places, and none comes from nowhere. *)
PressInv ==
  PressFlow[1] + PressFlow[2] + PressFlow[3] + PressFlow[4] + PressFlow[5] + PressFlow[6]
    + PressFlow[7] + PressFlow[8] + PressFlow[9] + PressFlow[10] + PressFlow[11]
    <= used["presses"]

(* The places, before and after a step. *)
LEMMA PressPlaces ==
  /\ PressFlow[1] = toggled /\ PressFlow[2] = CountIn(evq["nrf52"], ToToggle)
  /\ PressFlow[3] = OneFor("comm", worker["nrf52"], Buttons)
  /\ PressFlow[4] = OneFor("mcu", worker["nrf52"], ButtonTexts)
  /\ PressFlow[5] = CountIn(msgq["nrf52"]["comm"], Buttons)
  /\ PressFlow[6] = CountIn(msgq["nrf52"]["mcu"], ButtonTexts)
  /\ PressFlow[7] = OneHead(buf["nrf52"]) /\ PressFlow[8] = OneStart(mcu["nrf91"])
  /\ PressFlow[9] = CountIn(msgq["nrf91"]["mcu"], SentButtons)
  /\ PressFlow[10] = OneFor("mcu", worker["nrf91"], SentButtons)
  /\ PressFlow[11] = CountIn(evq["nrf91"], Pressed)
BY DEF PressFlow

LEMMA PressPlacesNext ==
  /\ PressFlow'[1] = toggled' /\ PressFlow'[2] = CountIn(evq'["nrf52"], ToToggle)
  /\ PressFlow'[3] = OneFor("comm", worker'["nrf52"], Buttons)
  /\ PressFlow'[4] = OneFor("mcu", worker'["nrf52"], ButtonTexts)
  /\ PressFlow'[5] = CountIn(msgq'["nrf52"]["comm"], Buttons)
  /\ PressFlow'[6] = CountIn(msgq'["nrf52"]["mcu"], ButtonTexts)
  /\ PressFlow'[7] = OneHead(buf'["nrf52"]) /\ PressFlow'[8] = OneStart(mcu'["nrf91"])
  /\ PressFlow'[9] = CountIn(msgq'["nrf91"]["mcu"], SentButtons)
  /\ PressFlow'[10] = OneFor("mcu", worker'["nrf91"], SentButtons)
  /\ PressFlow'[11] = CountIn(evq'["nrf91"], Pressed)
BY DEF PressFlow, Buttons, SentButtons, ButtonTexts, ToToggle, Pressed

(* The places that no step of what they are in changes. *)
LEMMA PressStill ==
  /\ UNCHANGED toggled => PressFlow'[1] = PressFlow[1]
  /\ UNCHANGED evq => PressFlow'[2] = PressFlow[2] /\ PressFlow'[11] = PressFlow[11]
  /\ UNCHANGED worker => /\ PressFlow'[3] = PressFlow[3] /\ PressFlow'[4] = PressFlow[4]
                         /\ PressFlow'[10] = PressFlow[10]
  /\ UNCHANGED msgq => /\ PressFlow'[5] = PressFlow[5] /\ PressFlow'[6] = PressFlow[6]
                       /\ PressFlow'[9] = PressFlow[9]
  /\ UNCHANGED buf => PressFlow'[7] = PressFlow[7]
  /\ UNCHANGED mcu => PressFlow'[8] = PressFlow[8]
BY PressPlaces, PressPlacesNext

LEMMA PressTyped ==
  ASSUME TypeOK
  PROVE  /\ PressFlow[1] \in Nat /\ PressFlow[2] \in Nat /\ PressFlow[3] \in Nat
         /\ PressFlow[4] \in Nat /\ PressFlow[5] \in Nat /\ PressFlow[6] \in Nat
         /\ PressFlow[7] \in Nat /\ PressFlow[8] \in Nat /\ PressFlow[9] \in Nat
         /\ PressFlow[10] \in Nat /\ PressFlow[11] \in Nat /\ used["presses"] \in Nat
<1>1. /\ evq["nrf52"] \in Seq(Events) /\ evq["nrf91"] \in Seq(Events)
      /\ msgq["nrf52"]["comm"] \in Seq(Events) /\ msgq["nrf52"]["mcu"] \in Seq(Events)
      /\ msgq["nrf91"]["mcu"] \in Seq(Events)
  BY SidesTyped DEF TypeOK
<1>2. toggled \in Nat /\ used["presses"] \in Nat
  BY DEF TypeOK, Inputs
<1>3. /\ CountIn(evq["nrf52"], ToToggle) \in Nat /\ CountIn(evq["nrf91"], Pressed) \in Nat
      /\ CountIn(msgq["nrf52"]["comm"], Buttons) \in Nat
      /\ CountIn(msgq["nrf52"]["mcu"], ButtonTexts) \in Nat
      /\ CountIn(msgq["nrf91"]["mcu"], SentButtons) \in Nat
  BY <1>1, PositionsFinite
<1>4. /\ \A q, w, S : OneFor(q, w, S) \in Nat
      /\ \A b : OneHead(b) \in Nat
      /\ \A s : OneStart(s) \in Nat
  BY DEF OneFor, OneHead, OneStart
<1>5. QED
  BY <1>2, <1>3, <1>4, PressPlaces

LEMMA PressTypedNext ==
  ASSUME TypeOK'
  PROVE  /\ PressFlow'[1] \in Nat /\ PressFlow'[2] \in Nat /\ PressFlow'[3] \in Nat
         /\ PressFlow'[4] \in Nat /\ PressFlow'[5] \in Nat /\ PressFlow'[6] \in Nat
         /\ PressFlow'[7] \in Nat /\ PressFlow'[8] \in Nat /\ PressFlow'[9] \in Nat
         /\ PressFlow'[10] \in Nat /\ PressFlow'[11] \in Nat /\ used'["presses"] \in Nat
<1>1. /\ evq'["nrf52"] \in Seq(Events) /\ evq'["nrf91"] \in Seq(Events)
      /\ msgq'["nrf52"]["comm"] \in Seq(Events) /\ msgq'["nrf52"]["mcu"] \in Seq(Events)
      /\ msgq'["nrf91"]["mcu"] \in Seq(Events)
  BY SidesTyped DEF TypeOK
<1>2. toggled' \in Nat /\ used'["presses"] \in Nat
  BY DEF TypeOK, Inputs
<1>3. /\ CountIn(evq'["nrf52"], ToToggle) \in Nat /\ CountIn(evq'["nrf91"], Pressed) \in Nat
      /\ CountIn(msgq'["nrf52"]["comm"], Buttons) \in Nat
      /\ CountIn(msgq'["nrf52"]["mcu"], ButtonTexts) \in Nat
      /\ CountIn(msgq'["nrf91"]["mcu"], SentButtons) \in Nat
  BY <1>1, PositionsFinite
<1>4. /\ \A q, w, S : OneFor(q, w, S) \in Nat
      /\ \A b : OneHead(b) \in Nat
      /\ \A s : OneStart(s) \in Nat
  BY DEF OneFor, OneHead, OneStart
<1>5. QED
  BY <1>2, <1>3, <1>4, PressPlacesNext

(* Which events are a press on its way. *)
LEMMA PressEvents ==
  ASSUME NEW m \in Events
  PROVE  /\ m \in Buttons <=> m.kind = "BUTTON"
         /\ m \in SentButtons <=> m.kind = "BUTTON" /\ ~m.received
         /\ m \in ButtonTexts <=>
              m.kind = "DATA" /\ Parses(m.bytes) /\ m.bytes[1][1].kind = "BUTTON"
         /\ m \in ToToggle <=> m = Toggle \/ m \in Buttons \/ m \in ButtonTexts
         /\ m \in Pressed <=> m = Toggle \/ m \in SentButtons
         /\ m = Toggle => m.kind = "TOGGLE"
BY DEF Buttons, SentButtons, ButtonTexts, ToToggle, Pressed, Toggle

LEMMA NoMsgNoPress ==
  NoMsg \notin Buttons /\ NoMsg \notin SentButtons /\ NoMsg \notin ButtonTexts
BY NoMsgAssumption DEF Buttons, SentButtons, ButtonTexts

(* The counts of a queue that an event is put in, and is taken from. *)
LEMMA SubmitCount ==
  ASSUME TypeOK, NEW n \in Sides, NEW e \in Events, Submit(n, e), NEW S
  PROVE  /\ \A k \in Sides : k # n => evq'[k] = evq[k]
         /\ CountIn(evq'[n], S) = CountIn(evq[n], S) + (IF e \in S THEN 1 ELSE 0)
<1>1. evq[n] \in Seq(Events) /\ evq'[n] = Append(evq[n], e) /\ \A k \in Sides : k # n => evq'[k] = evq[k]
  BY DEF Submit, TypeOK
<1>2. QED
  BY <1>1, CountAppend

LEMMA TakeCount ==
  ASSUME TypeOK, NEW n \in Sides, NEW q \in Modules, msgq[n][q] # <<>>,
         msgq' = [msgq EXCEPT ![n][q] = Tail(@)], NEW S
  PROVE  /\ \A k \in Sides, r \in Modules : (k # n \/ r # q) => msgq'[k][r] = msgq[k][r]
         /\ CountIn(msgq[n][q], S) =
              CountIn(msgq'[n][q], S) + (IF Head(msgq[n][q]) \in S THEN 1 ELSE 0)
<1>1. msgq[n][q] \in Seq(Events) /\ msgq'[n][q] = Tail(msgq[n][q])
  BY DEF TypeOK
<1>2. \A k \in Sides, r \in Modules : (k # n \/ r # q) => msgq'[k][r] = msgq[k][r]
  BY DEF TypeOK
<1>3. QED
  BY <1>1, <1>2, CountTail

LEMMA PutCount ==
  ASSUME TypeOK, NEW n \in Sides, NEW q \in Modules, Put(n, q), NEW S
  PROVE  /\ \A k \in Sides, r \in Modules : (k # n \/ r # q) => msgq'[k][r] = msgq[k][r]
         /\ CountIn(msgq'[n][q], S) =
              CountIn(msgq[n][q], S) + (IF worker[n].msg \in S THEN 1 ELSE 0)
<1>1. /\ msgq[n][q] \in Seq(Events) /\ worker[n].msg \in Events
      /\ msgq' = [msgq EXCEPT ![n][q] = Append(msgq[n][q], worker[n].msg)]
  BY PutTyped DEF Put
<1>2. /\ msgq'[n][q] = Append(msgq[n][q], worker[n].msg)
      /\ \A k \in Sides, r \in Modules : (k # n \/ r # q) => msgq'[k][r] = msgq[k][r]
  BY <1>1 DEF TypeOK
<1>3. QED
  BY <1>1, <1>2, CountAppend

LEMMA HandleCount ==
  ASSUME TypeOK, NEW n \in Sides, HandleEvent(n), NEW S
  PROVE  /\ \A k \in Sides : k # n => evq'[k] = evq[k] /\ worker'[k] = worker[k]
         /\ Head(evq[n]) \in Events /\ worker[n] = IdleWorker
         /\ worker'[n] = [msg |-> Head(evq[n]), to |-> Listeners(n, Head(evq[n]))]
         /\ toggled' = toggled + (IF Head(evq[n]) = Toggle THEN 1 ELSE 0)
         /\ CountIn(evq[n], S) = CountIn(evq'[n], S) + (IF Head(evq[n]) \in S THEN 1 ELSE 0)
<1>1. evq[n] \in Seq(Events) /\ evq[n] # <<>> /\ evq'[n] = Tail(evq[n])
  BY DEF TypeOK, HandleEvent
<1>2. /\ \A k \in Sides : k # n => evq'[k] = evq[k] /\ worker'[k] = worker[k]
      /\ worker'[n] = [msg |-> Head(evq[n]), to |-> Listeners(n, Head(evq[n]))]
      /\ worker[n] = IdleWorker
      /\ toggled' = toggled + (IF Head(evq[n]) = Toggle THEN 1 ELSE 0)
  BY DEF TypeOK, HandleEvent
<1>3. Head(evq[n]) \in Events
  BY <1>1
<1>4. QED
  BY <1>1, <1>2, <1>3, CountTail

(* An event that is submitted adds a press when it is one on that side. *)
LEMMA PressSubmit ==
  ASSUME TypeOK, NEW e \in Events
  PROVE  /\ Submit("nrf52", e) =>
              /\ PressFlow'[2] = PressFlow[2] + (IF e \in ToToggle THEN 1 ELSE 0)
              /\ PressFlow'[11] = PressFlow[11]
         /\ Submit("nrf91", e) =>
              /\ PressFlow'[11] = PressFlow[11] + (IF e \in Pressed THEN 1 ELSE 0)
              /\ PressFlow'[2] = PressFlow[2]
BY SubmitCount, SidesTyped, PressPlaces, PressPlacesNext

LEMMA PressInputs ==
  ASSUME TypeOK, TypeOK', PressInv, Sense \/ Press
  PROVE  PressInv'
<1>1. UNCHANGED <<worker, msgq, buf, mcu, toggled>>
  BY DEF Sense, Press, line, seen
<1>2. /\ PressFlow'[1] = PressFlow[1] /\ PressFlow'[3] = PressFlow[3] /\ PressFlow'[4] = PressFlow[4]
      /\ PressFlow'[5] = PressFlow[5] /\ PressFlow'[6] = PressFlow[6] /\ PressFlow'[7] = PressFlow[7]
      /\ PressFlow'[8] = PressFlow[8] /\ PressFlow'[9] = PressFlow[9] /\ PressFlow'[10] = PressFlow[10]
  BY <1>1, PressStill
<1>3. CASE Sense
  <2>1. used'["presses"] = used["presses"]
    BY <1>3 DEF Sense, Use, TypeOK, Inputs
  <2>2. PICK e \in Events : Submit("nrf52", e) /\ e.kind \in {"FRAME", "TROUBLE"}
    <3>1. CASE Submit("nrf52", Trouble)
      BY <3>1, EventsTyped DEF Trouble
    <3>2. CASE Use("frames") /\ Submit("nrf52", Frame(used["frames"] + 1))
      <4>1. used["frames"] + 1 \in 1 .. MaxFrames
        <5>1. RestOK /\ "frames" \in Inputs
          BY TypeParts DEF Inputs
        <5>2. /\ used'["frames"] = used["frames"] + 1 /\ used'["frames"] <= MaxFrames
          BY <3>2, <5>1, UseTyped
        <5>3. used["frames"] \in Nat /\ MaxFrames \in Nat
          BY <5>1, HeatAssumption DEF RestOK
        <5>4. QED
          BY <5>2, <5>3
      <4>2. QED
        BY <3>2, <4>1, EventsTyped DEF Frame
    <3>3. QED
      BY <1>3, <3>1, <3>2 DEF Sense
  <2>3. e \notin ToToggle
    BY <2>2, PressEvents
  <2>4. PressFlow'[2] = PressFlow[2] /\ PressFlow'[11] = PressFlow[11]
    BY <2>2, <2>3, PressSubmit, PressTyped
  <2>5. QED
    BY <1>2, <2>1, <2>4, PressTyped DEF PressInv
<1>4. CASE Press
  <2>1. used'["presses"] = used["presses"] + 1
    BY <1>4 DEF Press, Use, TypeOK, Inputs
  <2>2. PICK e \in Events : Submit("nrf91", e)
    <3>1. PICK received \in BOOLEAN : Submit("nrf91", Mcu("BUTTON", 0, received))
      BY <1>4 DEF Press
    <3>2. 0 \in 0 .. MaxFrames /\ "BUTTON" \in Wire
      BY HeatAssumption DEF Wire
    <3>3. QED
      BY <3>1, <3>2, EventsTyped
  <2>3. /\ PressFlow'[2] = PressFlow[2]
        /\ PressFlow'[11] = PressFlow[11] \/ PressFlow'[11] = PressFlow[11] + 1
    BY <2>2, PressSubmit, PressTyped
  <2>4. QED
    BY <1>2, <2>1, <2>3, PressTyped DEF PressInv
<1>5. QED
  BY <1>3, <1>4

(* The workqueues take an event: a toggle is done, a press goes on. *)
LEMMA PressHandle ==
  ASSUME TypeOK, PressInv, NEW n \in Sides, HandleEvent(n)
  PROVE  PressInv'
<1> DEFINE m == Head(evq[n])
<1>1. /\ UNCHANGED <<msgq, buf, mcu, used>>
  BY DEF HandleEvent, line
<1>2. ASSUME NEW S
      PROVE  /\ \A k \in Sides : k # n => evq'[k] = evq[k] /\ worker'[k] = worker[k]
             /\ m \in Events /\ worker[n] = IdleWorker
             /\ worker'[n] = [msg |-> m, to |-> Listeners(n, m)]
             /\ toggled' = toggled + (IF m = Toggle THEN 1 ELSE 0)
             /\ CountIn(evq[n], S) = CountIn(evq'[n], S) + (IF m \in S THEN 1 ELSE 0)
  BY HandleCount
<1> HIDE DEF m
<1>3. /\ PressFlow'[5] = PressFlow[5] /\ PressFlow'[6] = PressFlow[6] /\ PressFlow'[7] = PressFlow[7]
      /\ PressFlow'[8] = PressFlow[8] /\ PressFlow'[9] = PressFlow[9]
  BY <1>1, PressStill
<1>4. m \in Events
  BY <1>2
<1>5. CASE n = "nrf52"
  <2>1. PressFlow'[10] = PressFlow[10] /\ PressFlow'[11] = PressFlow[11]
    BY <1>2, <1>5, SidesTyped, PressPlaces, PressPlacesNext
  <2>2. PressFlow[3] = 0 /\ PressFlow[4] = 0
    BY <1>2, <1>5, PressPlaces DEF IdleWorker, OneFor
  <2>3. PressFlow'[1] = PressFlow[1] + (IF m = Toggle THEN 1 ELSE 0)
    BY <1>2, PressPlaces, PressPlacesNext
  <2>4. PressFlow[2] = PressFlow'[2] + (IF m \in ToToggle THEN 1 ELSE 0)
    BY <1>2, <1>5, PressPlaces, PressPlacesNext
  <2>5. /\ PressFlow'[3] = IF m \in Buttons /\ "comm" \in Listeners(n, m) THEN 1 ELSE 0
        /\ PressFlow'[4] = IF m \in ButtonTexts /\ "mcu" \in Listeners(n, m) THEN 1 ELSE 0
    BY <1>2, <1>5, PressPlacesNext DEF OneFor
  <2>6. /\ m \in Buttons \/ m \in ButtonTexts \/ m = Toggle <=> m \in ToToggle
        /\ ~ (m \in Buttons /\ m \in ButtonTexts) /\ ~ (m \in Buttons /\ m = Toggle)
        /\ ~ (m \in ButtonTexts /\ m = Toggle)
    BY <1>4, PressEvents
  <2>7. PressFlow'[1] + PressFlow'[2] + PressFlow'[3] + PressFlow'[4]
          <= PressFlow[1] + PressFlow[2] + PressFlow[3] + PressFlow[4]
        /\ PressFlow'[2] \in Nat
    <3>1. PressFlow'[2] \in Nat
      <4>1. evq'["nrf52"] \in Seq(Events)
        BY <1>5 DEF HandleEvent, TypeOK
      <4>2. QED
        BY <4>1, PositionsFinite, PressPlacesNext
    <3>2. QED
      BY <2>2, <2>3, <2>4, <2>5, <2>6, <3>1, PressTyped
  <2>8. /\ PressFlow'[1] \in Nat /\ PressFlow'[3] \in Nat /\ PressFlow'[4] \in Nat
    BY <2>3, <2>5, PressTyped
  <2>9. QED
    BY <1>1, <1>3, <2>1, <2>7, <2>8, PressTyped DEF PressInv
<1>6. CASE n = "nrf91"
  <2>1. PressFlow'[2] = PressFlow[2] /\ PressFlow'[3] = PressFlow[3] /\ PressFlow'[4] = PressFlow[4]
    BY <1>2, <1>6, SidesTyped, PressPlaces, PressPlacesNext
  <2>2. PressFlow[10] = 0
    BY <1>2, <1>6, PressPlaces DEF IdleWorker, OneFor
  <2>3. PressFlow'[1] = PressFlow[1] + (IF m = Toggle THEN 1 ELSE 0)
    BY <1>2, PressPlaces, PressPlacesNext
  <2>4. PressFlow[11] = PressFlow'[11] + (IF m \in Pressed THEN 1 ELSE 0)
    BY <1>2, <1>6, PressPlaces, PressPlacesNext
  <2>5. PressFlow'[10] = IF m \in SentButtons /\ "mcu" \in Listeners(n, m) THEN 1 ELSE 0
    BY <1>2, <1>6, PressPlacesNext DEF OneFor
  <2>6. /\ m \in Pressed <=> m = Toggle \/ m \in SentButtons
        /\ ~ (m \in SentButtons /\ m = Toggle)
    BY <1>4, PressEvents
  <2>7. PressFlow'[11] \in Nat
    <3>1. evq'["nrf91"] \in Seq(Events)
      BY <1>6 DEF HandleEvent, TypeOK
    <3>2. QED
      BY <3>1, PositionsFinite, PressPlacesNext
  <2>8. PressFlow'[1] + PressFlow'[10] + PressFlow'[11]
          <= PressFlow[1] + PressFlow[10] + PressFlow[11]
    BY <2>2, <2>3, <2>4, <2>5, <2>6, <2>7, PressTyped
  <2>9. PressFlow'[1] \in Nat /\ PressFlow'[10] \in Nat
    BY <2>3, <2>5, PressTyped
  <2>10. QED
    BY <1>1, <1>3, <2>1, <2>7, <2>8, <2>9, PressTyped DEF PressInv
<1>7. QED
  BY <1>5, <1>6 DEF Sides

(* A press that is put in a queue waits no longer for its listener. *)
LEMMA PressPut ==
  ASSUME TypeOK, PressInv, NEW n \in Sides, NEW q \in Modules, Put(n, q)
  PROVE  PressInv'
<1> DEFINE w == worker[n]
<1>1. /\ UNCHANGED <<evq, buf, mcu, used>>
      /\ \A k \in Sides : k # n => worker'[k] = worker[k]
      /\ w.msg \in Events /\ q \in w.to /\ w.to \subseteq Listeners(n, w.msg)
      /\ \/ worker'[n] = IdleWorker
         \/ worker'[n] = [msg |-> w.msg, to |-> w.to \ {q}]
  BY PutWorker
<1>2. ASSUME NEW S
      PROVE  /\ \A k \in Sides, r \in Modules : (k # n \/ r # q) => msgq'[k][r] = msgq[k][r]
             /\ CountIn(msgq'[n][q], S) = CountIn(msgq[n][q], S) + (IF w.msg \in S THEN 1 ELSE 0)
  BY PutCount
<1>3. UNCHANGED toggled
  BY DEF Put, seen
<1>4. /\ PressFlow'[1] = PressFlow[1] /\ PressFlow'[2] = PressFlow[2] /\ PressFlow'[7] = PressFlow[7]
      /\ PressFlow'[8] = PressFlow[8] /\ PressFlow'[11] = PressFlow[11]
  BY <1>1, <1>3, PressStill
<1>5. ASSUME NEW r \in Modules, NEW S
      PROVE  /\ OneFor(q, w, S) = IF w.msg \in S THEN 1 ELSE 0
             /\ OneFor(q, worker'[n], S) = 0
             /\ OneFor(r, worker'[n], S) <= OneFor(r, w, S)
             /\ OneFor(r, worker'[n], S) \in Nat
  <2>1. CASE worker'[n] = IdleWorker
    BY <1>1, <2>1 DEF IdleWorker, OneFor
  <2>2. CASE worker'[n] = [msg |-> w.msg, to |-> w.to \ {q}]
    BY <1>1, <2>2 DEF OneFor
  <2>3. QED
    BY <1>1, <2>1, <2>2
<1>6. "nrf52" \in Sides /\ "nrf91" \in Sides /\ "comm" \in Modules /\ "mcu" \in Modules
  BY SidesTyped
<1> HIDE DEF w
<1>7. CASE n = "nrf52" /\ q = "comm"
  <2>1. /\ PressFlow'[6] = PressFlow[6] /\ PressFlow'[9] = PressFlow[9]
        /\ PressFlow'[10] = PressFlow[10]
    BY <1>1, <1>2, <1>6, <1>7, PressPlaces, PressPlacesNext
  <2>2. PressFlow'[5] = PressFlow[5] + (IF w.msg \in Buttons THEN 1 ELSE 0)
    BY <1>2, <1>7, PressPlaces, PressPlacesNext
  <2>3. /\ PressFlow[3] = (IF w.msg \in Buttons THEN 1 ELSE 0) /\ PressFlow'[3] = 0
        /\ PressFlow'[4] <= PressFlow[4] /\ PressFlow'[4] \in Nat
    BY <1>5, <1>6, <1>7, PressPlaces, PressPlacesNext DEF w
  <2>4. QED
    BY <1>1, <1>4, <2>1, <2>2, <2>3, PressTyped DEF PressInv
<1>8. CASE n = "nrf52" /\ q = "mcu"
  <2>1. /\ PressFlow'[5] = PressFlow[5] /\ PressFlow'[9] = PressFlow[9]
        /\ PressFlow'[10] = PressFlow[10]
    BY <1>1, <1>2, <1>6, <1>8, PressPlaces, PressPlacesNext
  <2>2. PressFlow'[6] = PressFlow[6] + (IF w.msg \in ButtonTexts THEN 1 ELSE 0)
    BY <1>2, <1>8, PressPlaces, PressPlacesNext
  <2>3. /\ PressFlow[4] = (IF w.msg \in ButtonTexts THEN 1 ELSE 0) /\ PressFlow'[4] = 0
        /\ PressFlow'[3] <= PressFlow[3] /\ PressFlow'[3] \in Nat
    BY <1>5, <1>6, <1>8, PressPlaces, PressPlacesNext DEF w
  <2>4. QED
    BY <1>1, <1>4, <2>1, <2>2, <2>3, PressTyped DEF PressInv
<1>9. CASE n = "nrf91"
  <2>1. q = "mcu"
    BY <1>1, <1>9 DEF Listeners
  <2>2. /\ PressFlow'[5] = PressFlow[5] /\ PressFlow'[6] = PressFlow[6]
        /\ PressFlow'[3] = PressFlow[3] /\ PressFlow'[4] = PressFlow[4]
    BY <1>1, <1>2, <1>6, <1>9, PressPlaces, PressPlacesNext
  <2>3. PressFlow'[9] = PressFlow[9] + (IF w.msg \in SentButtons THEN 1 ELSE 0)
    BY <1>2, <1>9, <2>1, PressPlaces, PressPlacesNext
  <2>4. PressFlow[10] = (IF w.msg \in SentButtons THEN 1 ELSE 0) /\ PressFlow'[10] = 0
    BY <1>5, <1>6, <1>9, <2>1, PressPlaces, PressPlacesNext DEF w
  <2>5. QED
    BY <1>1, <1>4, <2>2, <2>3, <2>4, PressTyped DEF PressInv
<1>10. QED
  BY <1>7, <1>8, <1>9 DEF Sides, Modules

(* commCtrl submits a toggle for a button, and for nothing else. *)
LEMMA PressComm ==
  ASSUME TypeOK, TypeOK', PressInv, Comm
  PROVE  PressInv'
<1> DEFINE m == Head(msgq["nrf52"]["comm"])
<1>1. /\ UNCHANGED <<worker, buf, mcu, used, toggled>>
      /\ msgq["nrf52"]["comm"] # <<>> /\ Route(m)
      /\ msgq' = [msgq EXCEPT !["nrf52"]["comm"] = Tail(@)]
      /\ "nrf52" \in Sides /\ "nrf91" \in Sides /\ "comm" \in Modules /\ "mcu" \in Modules
  BY SidesTyped DEF Comm, line, seen
<1>2. m \in Events
  BY <1>1, TakenTyped
<1>3. /\ msgq'["nrf91"]["mcu"] = msgq["nrf91"]["mcu"] /\ msgq'["nrf52"]["mcu"] = msgq["nrf52"]["mcu"]
      /\ CountIn(msgq["nrf52"]["comm"], Buttons) =
           CountIn(msgq'["nrf52"]["comm"], Buttons) + (IF m \in Buttons THEN 1 ELSE 0)
  <2>1. /\ \A k \in Sides, r \in Modules : (k # "nrf52" \/ r # "comm") => msgq'[k][r] = msgq[k][r]
        /\ CountIn(msgq["nrf52"]["comm"], Buttons) =
             CountIn(msgq'["nrf52"]["comm"], Buttons) + (IF m \in Buttons THEN 1 ELSE 0)
    BY <1>1, TakeCount
  <2>2. QED
    BY <1>1, <2>1
<1> HIDE DEF m
<1>4. /\ PressFlow'[1] = PressFlow[1] /\ PressFlow'[3] = PressFlow[3] /\ PressFlow'[4] = PressFlow[4]
      /\ PressFlow'[6] = PressFlow[6] /\ PressFlow'[7] = PressFlow[7] /\ PressFlow'[8] = PressFlow[8]
      /\ PressFlow'[9] = PressFlow[9] /\ PressFlow'[10] = PressFlow[10]
      /\ PressFlow[5] = PressFlow'[5] + (IF m \in Buttons THEN 1 ELSE 0)
  BY <1>1, <1>3, PressStill, PressPlaces, PressPlacesNext
<1>5. /\ PressFlow'[2] <= PressFlow[2] + (IF m \in Buttons THEN 1 ELSE 0)
      /\ PressFlow'[11] = PressFlow[11]
  <2>1. CASE UNCHANGED evq
    BY <2>1, PressStill, PressTyped
  <2>2. CASE m.kind = "BUTTON" /\ Submit("nrf52", Toggle)
    <3>1. Toggle \in Events /\ m \in Buttons
      BY <1>2, <2>2, EventsTyped, PressEvents
    <3>2. /\ PressFlow'[2] = PressFlow[2] + (IF Toggle \in ToToggle THEN 1 ELSE 0)
          /\ PressFlow'[11] = PressFlow[11]
      BY <2>2, <3>1, PressSubmit
    <3>3. QED
      BY <3>1, <3>2, PressTyped
  <2>3. CASE \E e \in Events : Submit("nrf52", e) /\ e.kind \in {"MAP", "ERROR"}
    <3>1. PICK e \in Events : Submit("nrf52", e) /\ e.kind \in {"MAP", "ERROR"}
      BY <2>3
    <3>2. e \notin ToToggle
      BY <3>1, PressEvents
    <3>3. QED
      BY <3>1, <3>2, PressSubmit, PressTyped
  <2>4. \/ UNCHANGED evq
        \/ m.kind = "BUTTON" /\ Submit("nrf52", Toggle)
        \/ \E e \in Events : Submit("nrf52", e) /\ e.kind \in {"MAP", "ERROR"}
    <3>1. m.kind = "FRAME" => Mcu("MAP", m.num, FALSE) \in Events
      <4>1. m.kind = "FRAME" => m.num \in 0 .. MaxFrames /\ "MAP" \in Wire
        BY <1>2, EventKinds, HeatAssumption DEF Wire
      <4>2. QED
        BY <4>1, EventsTyped
    <3>2. QED
      BY <1>1, <3>1, EventsTyped DEF Route, Error, Mcu
  <2>5. QED
    BY <2>1, <2>2, <2>3, <2>4
<1>6. PressFlow'[2] + PressFlow'[5] <= PressFlow[2] + PressFlow[5]
  BY <1>4, <1>5, PressTyped, PressTypedNext
<1>7. used' = used
  BY <1>1
<1>8. QED
  BY <1>4, <1>5, <1>6, <1>7, PressTyped, PressTypedNext DEF PressInv

(* mcu_exchange.c submits a button only of a text that is one. *)
LEMMA HandledPress ==
  ASSUME NEW n \in Sides, NEW m \in Events,
         InitLine(n, m) \/ StartSend(n, m) \/ HandleData(n, m) \/ EncodeFails(n, m) \/ Ignore(n, m)
  PROVE  \/ UNCHANGED evq
         \/ \E e \in Events : /\ Submit(n, e) /\ e.kind # "DATA" /\ e.kind # "TOGGLE"
                              /\ e.kind = "BUTTON" => e.received /\ m \in ButtonTexts
<1>1. CASE InitLine(n, m)
  BY <1>1, EventsTyped DEF InitLine, Up, Error, Mcu
<1>2. CASE StartSend(n, m) \/ EncodeFails(n, m) \/ Ignore(n, m)
  BY <1>2 DEF StartSend, EncodeFails, Ignore
<1>3. CASE HandleData(n, m)
  <2>1. CASE Parses(m.bytes) /\ Submit(n, Received(m.bytes[1][1]))
    <3> DEFINE p == m.bytes[1][1]
    <3>1. p \in Messages /\ m.kind = "DATA"
      BY <1>3, <2>1, ParsedTyped, EventKinds DEF HandleData
    <3>2. /\ Received(p) \in Events /\ Received(p).kind = p.kind /\ p.kind \in Wire
          /\ Received(p).received
      BY <3>1, MessageTyped DEF Received, Mcu, Messages
    <3>3. p.kind = "BUTTON" => m \in ButtonTexts
      BY <2>1, <3>1, PressEvents
    <3> HIDE DEF p
    <3>4. Received(p).kind # "DATA" /\ Received(p).kind # "TOGGLE"
      BY <3>2 DEF Wire
    <3>5. Submit(n, Received(p))
      BY <2>1 DEF p
    <3>6. QED
      BY <3>1, <3>2, <3>3, <3>4, <3>5
  <2>2. CASE Submit(n, [Error EXCEPT !.received = TRUE])
    BY <2>2, EventsTyped DEF Error, Mcu
  <2>3. CASE UNCHANGED evq
    BY <2>3
  <2>4. QED
    BY <1>3, <2>1, <2>2, <2>3 DEF HandleData
<1>4. QED
  BY <1>1, <1>2, <1>3

(* The mcu_exchange module takes a message: a text of a button is a button *)
(* again, a button that was not received begins to be sent.                *)
LEMMA PressGet52 ==
  ASSUME TypeOK, TypeOK', PressInv, GetMessage("nrf52")
  PROVE  PressInv'
<1> DEFINE m == Head(msgq["nrf52"]["mcu"])
<1>1. /\ UNCHANGED <<worker, buf, used, toggled>>
      /\ msgq["nrf52"]["mcu"] # <<>>
      /\ InitLine("nrf52", m) \/ StartSend("nrf52", m) \/ HandleData("nrf52", m) \/ EncodeFails("nrf52", m) \/ Ignore("nrf52", m)
      /\ msgq' = [msgq EXCEPT !["nrf52"]["mcu"] = Tail(@)]
      /\ "nrf52" \in Sides /\ "nrf91" \in Sides /\ "comm" \in Modules /\ "mcu" \in Modules
  BY SidesTyped DEF GetMessage, seen
<1>2. m \in Events /\ mcu'["nrf91"] = mcu["nrf91"]
  <2>1. m \in Events
    BY <1>1, TakenTyped
  <2>2. UNCHANGED mcu \/ mcu' = [mcu EXCEPT !["nrf52"] = [msg |-> m, piece |-> 1]]
    BY <1>1 DEF InitLine, StartSend, HandleData, EncodeFails, Ignore
  <2> HIDE DEF m
  <2>3. QED
    BY <1>1, <2>1, <2>2 DEF TypeOK
<1>3. /\ msgq'["nrf91"]["mcu"] = msgq["nrf91"]["mcu"] /\ msgq'["nrf52"]["comm"] = msgq["nrf52"]["comm"]
      /\ CountIn(msgq["nrf52"]["mcu"], ButtonTexts) =
           CountIn(msgq'["nrf52"]["mcu"], ButtonTexts) + (IF m \in ButtonTexts THEN 1 ELSE 0)
  <2>1. /\ \A k \in Sides, r \in Modules : (k # "nrf52" \/ r # "mcu") => msgq'[k][r] = msgq[k][r]
        /\ CountIn(msgq["nrf52"]["mcu"], ButtonTexts) =
             CountIn(msgq'["nrf52"]["mcu"], ButtonTexts) + (IF m \in ButtonTexts THEN 1 ELSE 0)
    <3>1. /\ "nrf52" \in Sides /\ "mcu" \in Modules /\ msgq["nrf52"]["mcu"] # <<>>
          /\ msgq' = [msgq EXCEPT !["nrf52"]["mcu"] = Tail(@)]
      BY <1>1
    <3>2. QED
      BY <3>1, TakeCount
  <2>2. QED
    BY <1>1, <2>1
<1> HIDE DEF m
<1>4. /\ PressFlow'[1] = PressFlow[1] /\ PressFlow'[3] = PressFlow[3] /\ PressFlow'[4] = PressFlow[4]
      /\ PressFlow'[5] = PressFlow[5] /\ PressFlow'[7] = PressFlow[7] /\ PressFlow'[8] = PressFlow[8]
      /\ PressFlow'[9] = PressFlow[9] /\ PressFlow'[10] = PressFlow[10]
      /\ PressFlow[6] = PressFlow'[6] + (IF m \in ButtonTexts THEN 1 ELSE 0)
  BY <1>1, <1>2, <1>3, PressStill, PressPlaces, PressPlacesNext
<1>5. /\ PressFlow'[2] <= PressFlow[2] + (IF m \in ButtonTexts THEN 1 ELSE 0)
      /\ PressFlow'[11] = PressFlow[11]
  <2>1. CASE UNCHANGED evq
    BY <2>1, PressStill, PressTyped
  <2>2. ASSUME NEW e \in Events, Submit("nrf52", e), e.kind # "DATA", e.kind # "TOGGLE",
               e.kind = "BUTTON" => m \in ButtonTexts
        PROVE  /\ PressFlow'[2] <= PressFlow[2] + (IF m \in ButtonTexts THEN 1 ELSE 0)
               /\ PressFlow'[11] = PressFlow[11]
    <3>1. e \in ToToggle => m \in ButtonTexts
      BY <2>2, PressEvents
    <3>2. /\ PressFlow'[2] = PressFlow[2] + (IF e \in ToToggle THEN 1 ELSE 0)
          /\ PressFlow'[11] = PressFlow[11]
      BY <2>2, PressSubmit
    <3>3. QED
      BY <3>1, <3>2, PressTyped
  <2>3. QED
    BY <1>1, <1>2, <2>1, <2>2, HandledPress
<1>6. PressFlow'[2] + PressFlow'[6] <= PressFlow[2] + PressFlow[6]
  BY <1>4, <1>5, PressTyped, PressTypedNext
<1>7. used' = used
  BY <1>1
<1>8. QED
  BY <1>4, <1>5, <1>6, <1>7, PressTyped, PressTypedNext DEF PressInv

LEMMA PressGet91 ==
  ASSUME TypeOK, TypeOK', PressInv, GetMessage("nrf91")
  PROVE  PressInv'
<1> DEFINE m == Head(msgq["nrf91"]["mcu"])
<1>1. /\ UNCHANGED <<worker, buf, used, toggled>>
      /\ msgq["nrf91"]["mcu"] # <<>> /\ mcu["nrf91"] = NotSending
      /\ InitLine("nrf91", m) \/ StartSend("nrf91", m) \/ HandleData("nrf91", m) \/ EncodeFails("nrf91", m) \/ Ignore("nrf91", m)
      /\ msgq' = [msgq EXCEPT !["nrf91"]["mcu"] = Tail(@)]
      /\ "nrf52" \in Sides /\ "nrf91" \in Sides /\ "comm" \in Modules /\ "mcu" \in Modules
  BY SidesTyped DEF GetMessage, seen
<1>2. m \in Events
  BY <1>1, TakenTyped
<1>3. /\ msgq'["nrf52"]["mcu"] = msgq["nrf52"]["mcu"] /\ msgq'["nrf52"]["comm"] = msgq["nrf52"]["comm"]
      /\ CountIn(msgq["nrf91"]["mcu"], SentButtons) =
           CountIn(msgq'["nrf91"]["mcu"], SentButtons) + (IF m \in SentButtons THEN 1 ELSE 0)
  <2>1. /\ \A k \in Sides, r \in Modules : (k # "nrf91" \/ r # "mcu") => msgq'[k][r] = msgq[k][r]
        /\ CountIn(msgq["nrf91"]["mcu"], SentButtons) =
             CountIn(msgq'["nrf91"]["mcu"], SentButtons) + (IF m \in SentButtons THEN 1 ELSE 0)
    <3>1. /\ "nrf91" \in Sides /\ "mcu" \in Modules /\ msgq["nrf91"]["mcu"] # <<>>
          /\ msgq' = [msgq EXCEPT !["nrf91"]["mcu"] = Tail(@)]
      BY <1>1
    <3>2. QED
      BY <3>1, TakeCount
  <2>2. QED
    BY <1>1, <2>1
<1> HIDE DEF m
<1>4. /\ PressFlow'[1] = PressFlow[1] /\ PressFlow'[3] = PressFlow[3] /\ PressFlow'[4] = PressFlow[4]
      /\ PressFlow'[5] = PressFlow[5] /\ PressFlow'[6] = PressFlow[6] /\ PressFlow'[7] = PressFlow[7]
      /\ PressFlow'[10] = PressFlow[10]
      /\ PressFlow[9] = PressFlow'[9] + (IF m \in SentButtons THEN 1 ELSE 0)
  BY <1>1, <1>3, PressStill, PressPlaces, PressPlacesNext
<1>5. /\ PressFlow'[2] = PressFlow[2] /\ PressFlow'[11] = PressFlow[11]
  <2>1. CASE UNCHANGED evq
    BY <2>1, PressStill
  <2>2. ASSUME NEW e \in Events, Submit("nrf91", e), e.kind # "DATA", e.kind # "TOGGLE",
               e.kind = "BUTTON" => e.received
        PROVE  PressFlow'[2] = PressFlow[2] /\ PressFlow'[11] = PressFlow[11]
    <3>1. e \notin Pressed
      BY <2>2, PressEvents
    <3>2. QED
      BY <2>2, <3>1, PressSubmit, PressTyped
  <2>3. QED
    BY <1>1, <1>2, <2>1, <2>2, HandledPress
<1>6. /\ PressFlow[8] = 0
      /\ PressFlow'[8] <= IF m \in SentButtons THEN 1 ELSE 0
  <2>1. PressFlow[8] = 0
    BY <1>1, PressPlaces DEF OneStart, NotSending
  <2>2. CASE UNCHANGED mcu
    BY <2>1, <2>2, PressStill
  <2>3. CASE StartSend("nrf91", m)
    <3>1. mcu'["nrf91"] = [msg |-> m, piece |-> 1]
      BY <1>1, <2>3 DEF StartSend, TypeOK
    <3>2. QED
      BY <2>1, <3>1, PressPlacesNext DEF OneStart
  <2>4. QED
    BY <1>1, <2>2, <2>3 DEF InitLine, HandleData, EncodeFails, Ignore
<1>7. PressFlow'[8] + PressFlow'[9] <= PressFlow[8] + PressFlow[9]
  BY <1>4, <1>6, PressTyped, PressTypedNext
<1>8. used' = used
  BY <1>1
<1>9. QED
  BY <1>4, <1>5, <1>7, <1>8, PressTyped, PressTypedNext DEF PressInv

(* A text is the button the buffer begins with; a buffer begins with the   *)
(* button when it did, or when its first piece comes in.                   *)
LEMMA PressTexts ==
  ASSUME NEW b \in Seq(Pieces)
  PROVE  /\ Data(b) \in Events /\ Data(b).kind = "DATA"
         /\ Data(b) \in ToToggle => OneHead(b) = 1
         /\ \A m \in Events, i \in Nat :
              ~m.received => OneHead(Append(b, <<Message(m), i>>))
                               <= OneHead(b) + OneStart([msg |-> m, piece |-> i])
<1>1. Data(b) \in Events /\ Data(b).kind = "DATA" /\ Data(b).bytes = b
  BY EventsTyped DEF Data
<1>2. ASSUME Data(b) \in ToToggle PROVE OneHead(b) = 1
  <2>1. Parses(b) /\ b[1][1].kind = "BUTTON"
    BY <1>1, <1>2, PressEvents
  <2>2. b[1][1] \in Messages /\ b # <<>>
    BY <2>1, ParsedTyped DEF Parses
  <2>3. 1 \in 1 .. Size[b[1][1].kind]
    BY <2>2, SizeTyped DEF Messages
  <2>4. b[1] = <<b[1][1], 1>>
    BY <2>1, <2>3 DEF Parses
  <2>5. b[1][2] = 1
    BY <2>4
  <2>6. QED
    BY <2>1, <2>2, <2>5 DEF OneHead
<1>3. ASSUME NEW m \in Events, NEW i \in Nat, ~m.received
      PROVE  OneHead(Append(b, <<Message(m), i>>))
               <= OneHead(b) + OneStart([msg |-> m, piece |-> i])
  <2> DEFINE p == <<Message(m), i>>
  <2>1. CASE b = <<>>
    <3>1. Append(b, p) # <<>> /\ Append(b, p)[1] = p
      BY <2>1
    <3>2. p[1].kind = m.kind /\ p[2] = i
      BY DEF Message
    <3>3. m.kind = "BUTTON" => m \in SentButtons
      BY <1>3, PressEvents
    <3> HIDE DEF p
    <3>4. QED
      BY <3>1, <3>2, <3>3 DEF OneHead, OneStart, p
  <2>2. CASE b # <<>>
    <3>1. Append(b, p)[1] = b[1]
      BY <2>2
    <3> HIDE DEF p
    <3>2. QED
      BY <2>2, <3>1 DEF OneHead, OneStart, p
  <2>3. QED
    BY <2>1, <2>2
<1>4. QED
  BY <1>1, <1>2, <1>3

(* The nRF9160 sends a piece: a press of which the first piece is sent is  *)
(* in the buffer, not behind it any more; the zero byte makes it a text.   *)
LEMMA PressPiece91 ==
  ASSUME TypeOK, TypeOK', PressInv, SendPiece("nrf91")
  PROVE  PressInv'
<1> DEFINE b == buf["nrf52"]
           s == mcu["nrf91"]
<1>1. "nrf52" \in Sides /\ "nrf91" \in Sides /\ "nrf91" # "nrf52" /\ Peer("nrf91") = "nrf52"
  BY SidesTyped DEF Peer
<1>2. /\ UNCHANGED <<worker, msgq, toggled, used>> /\ mcu'["nrf91"].piece # 1
      /\ \/ UNCHANGED <<evq, buf>>
         \/ UNCHANGED evq /\ buf'["nrf52"] = <<>>
         \/ /\ UNCHANGED evq /\ s # NotSending
            /\ buf'["nrf52"] = Append(b, <<Message(s.msg), s.piece>>)
         \/ Submit("nrf52", Data(b)) /\ buf'["nrf52"] = <<>>
  BY <1>1, SentPiece
<1>3. b \in Seq(Pieces)
  BY <1>1 DEF TypeOK
<1>4. /\ PressFlow'[1] = PressFlow[1] /\ PressFlow'[3] = PressFlow[3] /\ PressFlow'[4] = PressFlow[4]
      /\ PressFlow'[5] = PressFlow[5] /\ PressFlow'[6] = PressFlow[6] /\ PressFlow'[9] = PressFlow[9]
      /\ PressFlow'[10] = PressFlow[10]
  BY <1>2, PressStill
<1>5. PressFlow'[8] = 0 /\ PressFlow[7] = OneHead(b) /\ PressFlow[8] = OneStart(s)
  BY <1>2, PressPlaces, PressPlacesNext DEF OneStart
<1>6. /\ PressFlow'[11] = PressFlow[11]
      /\ PressFlow'[2] + PressFlow'[7] <= PressFlow[2] + PressFlow[7] + PressFlow[8]
  <2>1. CASE UNCHANGED evq
    <3>1. PressFlow'[2] = PressFlow[2] /\ PressFlow'[11] = PressFlow[11]
      BY <2>1, PressStill
    <3>2. PressFlow'[7] <= PressFlow[7] + PressFlow[8]
      <4>1. CASE UNCHANGED buf
        BY <4>1, PressStill, PressTyped
      <4>2. CASE buf'["nrf52"] = <<>>
        BY <4>2, PressPlacesNext, PressTyped DEF OneHead
      <4>3. CASE s # NotSending /\ buf'["nrf52"] = Append(b, <<Message(s.msg), s.piece>>)
        <5>1. /\ s.msg \in Events /\ ~s.msg.received /\ s.piece \in Nat
          BY <1>1, <4>3, PieceTyped
        <5>2. OneStart([msg |-> s.msg, piece |-> s.piece]) = OneStart(s)
          BY DEF OneStart
        <5>3. OneHead(Append(b, <<Message(s.msg), s.piece>>))
                <= OneHead(b) + OneStart([msg |-> s.msg, piece |-> s.piece])
          BY <1>3, <5>1, PressTexts
        <5>4. PressFlow'[7] = OneHead(Append(b, <<Message(s.msg), s.piece>>))
          BY <4>3, PressPlacesNext
        <5>5. QED
          BY <1>5, <5>2, <5>3, <5>4
      <4>4. QED
        BY <1>2, <4>1, <4>2, <4>3
    <3>3. QED
      BY <3>1, <3>2, PressTyped, PressTypedNext
  <2>2. CASE Submit("nrf52", Data(b)) /\ buf'["nrf52"] = <<>>
    <3>1. Data(b) \in Events /\ (Data(b) \in ToToggle => OneHead(b) = 1)
      BY <1>3, PressTexts
    <3>2. /\ PressFlow'[2] = PressFlow[2] + (IF Data(b) \in ToToggle THEN 1 ELSE 0)
          /\ PressFlow'[11] = PressFlow[11]
      BY <2>2, <3>1, PressSubmit
    <3>3. PressFlow'[7] = 0
      BY <2>2, PressPlacesNext DEF OneHead
    <3>4. QED
      BY <1>5, <3>1, <3>2, <3>3, PressTyped
  <2>3. QED
    BY <1>2, <2>1, <2>2
<1>7. PressFlow'[2] + PressFlow'[7] + PressFlow'[8] <= PressFlow[2] + PressFlow[7] + PressFlow[8]
  BY <1>5, <1>6, PressTyped, PressTypedNext
<1>8. used' = used /\ PressFlow'[11] = PressFlow[11]
  BY <1>2, <1>6
<1>9. used'["presses"] = used["presses"]
  BY <1>8
<1> DEFINE rest == PressFlow[1] + PressFlow[3] + PressFlow[4] + PressFlow[5] + PressFlow[6]
                     + PressFlow[9] + PressFlow[10] + PressFlow[11]
           next == PressFlow'[1] + PressFlow'[3] + PressFlow'[4] + PressFlow'[5] + PressFlow'[6]
                     + PressFlow'[9] + PressFlow'[10] + PressFlow'[11]
<1>10. rest + (PressFlow[2] + PressFlow[7] + PressFlow[8]) <= used["presses"]
  BY PressTyped DEF PressInv
<1>11. next = rest /\ rest \in Nat
  BY <1>4, <1>8, PressTyped
<1> HIDE DEF rest, next
<1>12. next + (PressFlow'[2] + PressFlow'[7] + PressFlow'[8]) <= used'["presses"]
  BY <1>7, <1>9, <1>10, <1>11, PressTyped, PressTypedNext
<1>13. QED
  BY <1>12, PressTypedNext DEF PressInv, next

LEMMA PressPiece52 ==
  ASSUME TypeOK, TypeOK', PressInv, SendPiece("nrf52")
  PROVE  PressInv'
<1> DEFINE b == buf["nrf91"]
<1>1. "nrf52" \in Sides /\ "nrf91" \in Sides /\ "nrf91" # "nrf52" /\ Peer("nrf52") = "nrf91"
  BY SidesTyped DEF Peer
<1>2. /\ UNCHANGED <<worker, msgq, toggled, used>> /\ mcu'["nrf91"] = mcu["nrf91"]
      /\ buf'["nrf52"] = buf["nrf52"]
      /\ UNCHANGED evq \/ Submit("nrf91", Data(b))
  BY <1>1, SentPiece
<1>3. Data(b) \in Events /\ Data(b).kind = "DATA"
  BY <1>1, PressTexts DEF TypeOK
<1>4. /\ PressFlow'[1] = PressFlow[1] /\ PressFlow'[3] = PressFlow[3] /\ PressFlow'[4] = PressFlow[4]
      /\ PressFlow'[5] = PressFlow[5] /\ PressFlow'[6] = PressFlow[6] /\ PressFlow'[7] = PressFlow[7]
      /\ PressFlow'[8] = PressFlow[8] /\ PressFlow'[9] = PressFlow[9] /\ PressFlow'[10] = PressFlow[10]
  BY <1>2, PressStill, PressPlaces, PressPlacesNext
<1>5. PressFlow'[2] = PressFlow[2] /\ PressFlow'[11] = PressFlow[11]
  <2>1. CASE UNCHANGED evq
    BY <2>1, PressStill
  <2>2. CASE Submit("nrf91", Data(b))
    <3>1. Data(b) \notin Pressed
      BY <1>3, PressEvents
    <3>2. QED
      BY <1>3, <2>2, <3>1, PressSubmit, PressTyped
  <2>3. QED
    BY <1>2, <2>1, <2>2
<1>6. used' = used
  BY <1>2
<1>7. QED
  BY <1>4, <1>5, <1>6 DEF PressInv

(* A restart loses the presses on one side. *)
LEMMA PressRestart ==
  ASSUME TypeOK, TypeOK', PressInv, NEW n \in Sides, Restart(n)
  PROVE  PressInv'
<1>1. "nrf52" \in Sides /\ "nrf91" \in Sides
  BY SidesTyped
<1>2. UNCHANGED toggled /\ used'["presses"] = used["presses"]
  BY DEF Restart, seen, Use, TypeOK, Inputs
<1>3. ASSUME NEW k \in Sides
      PROVE  /\ \/ evq'[k] = <<Ready>> /\ worker'[k] = IdleWorker /\ msgq'[k] = NoQueues
                   /\ mcu'[k] = NotSending /\ buf'[k] = <<>>
                \/ evq'[k] = evq[k] /\ worker'[k] = worker[k] /\ msgq'[k] = msgq[k]
                   /\ mcu'[k] = mcu[k] /\ buf'[k] = buf[k]
  BY DEF Restart, TypeOK
<1>4. ASSUME NEW S, Ready \notin S
      PROVE  CountIn(<<Ready>>, S) = 0
  <2>1. <<>> \in Seq(Events) /\ Ready \in Events /\ <<Ready>> = Append(<<>>, Ready)
    BY EventsTyped
  <2>2. CountIn(<<Ready>>, S) = CountIn(<<>>, S) + (IF Ready \in S THEN 1 ELSE 0)
    BY <2>1, CountAppend
  <2>3. QED
    BY <1>4, <2>2, CountEmpty
<1>5. PressFlow'[2] <= PressFlow[2] /\ PressFlow'[11] <= PressFlow[11]
  <2>1. Ready \notin ToToggle /\ Ready \notin Pressed
    BY EventsTyped, PressEvents DEF Ready
  <2>2. CountIn(<<Ready>>, ToToggle) = 0 /\ CountIn(<<Ready>>, Pressed) = 0
    BY <1>4, <2>1
  <2>3. QED
    <3>1. /\ PressFlow'[2] = 0 \/ PressFlow'[2] = PressFlow[2]
          /\ PressFlow'[11] = 0 \/ PressFlow'[11] = PressFlow[11]
      BY <1>1, <1>3, <2>2, PressPlaces, PressPlacesNext
    <3>2. QED
      BY <3>1, PressTyped
<1>6. /\ PressFlow'[5] <= PressFlow[5] /\ PressFlow'[6] <= PressFlow[6]
      /\ PressFlow'[9] <= PressFlow[9]
  <2>1. NoQueues["comm"] = <<>> /\ NoQueues["mcu"] = <<>>
    BY SidesTyped DEF NoQueues
  <2>2. \A k \in Sides : \/ msgq'[k]["comm"] = <<>> /\ msgq'[k]["mcu"] = <<>>
                         \/ msgq'[k] = msgq[k]
    BY <1>3, <2>1
  <2>3. QED
    <3>1. /\ PressFlow'[5] = 0 \/ PressFlow'[5] = PressFlow[5]
          /\ PressFlow'[6] = 0 \/ PressFlow'[6] = PressFlow[6]
          /\ PressFlow'[9] = 0 \/ PressFlow'[9] = PressFlow[9]
      BY <1>1, <2>2, CountEmpty, PressPlaces, PressPlacesNext
    <3>2. QED
      BY <3>1, PressTyped
<1>7. /\ PressFlow'[3] <= PressFlow[3] /\ PressFlow'[4] <= PressFlow[4]
      /\ PressFlow'[10] <= PressFlow[10]
  <2>1. ASSUME NEW S, NEW q, NEW k \in Sides
        PROVE  OneFor(q, worker'[k], S) = 0 \/ worker'[k] = worker[k]
    BY <1>3 DEF IdleWorker, OneFor
  <2>2. QED
    BY <1>1, <2>1, PressPlaces, PressPlacesNext, PressTyped
<1>8. PressFlow'[7] <= PressFlow[7] /\ PressFlow'[8] <= PressFlow[8]
  <2>1. OneHead(<<>>) = 0 /\ OneStart(NotSending) = 0
    BY DEF OneHead, OneStart, NotSending
  <2>2. QED
    <3>1. /\ PressFlow'[7] = 0 \/ PressFlow'[7] = PressFlow[7]
          /\ PressFlow'[8] = 0 \/ PressFlow'[8] = PressFlow[8]
      BY <1>1, <1>3, <2>1, PressPlaces, PressPlacesNext
    <3>2. QED
      BY <3>1, PressTyped
<1>9. PressFlow'[1] = PressFlow[1]
  BY <1>2, PressStill
<1>10. QED
  BY <1>2, <1>5, <1>6, <1>7, <1>8, <1>9, PressTyped, PressTypedNext DEF PressInv

LEMMA PressStep == TypeOK /\ TypeOK' /\ PressInv /\ [Next]_vars => PressInv'
<1> SUFFICES ASSUME TypeOK, TypeOK', PressInv, [Next]_vars PROVE PressInv'
  OBVIOUS
<1>1. CASE UNCHANGED vars
  BY <1>1, PressStill DEF vars, PressInv
<1>2. ASSUME NEW n \in Sides, Workqueue(n) PROVE PressInv'
  BY <1>2, PressHandle, PressPut DEF Workqueue
<1>3. ASSUME NEW n \in Sides, McuThread(n) PROVE PressInv'
  BY <1>3, PressGet52, PressGet91, PressPiece52, PressPiece91 DEF Sides, McuThread
<1>4. ASSUME NEW n \in Sides, Restart(n) PROVE PressInv'
  BY <1>4, PressRestart
<1>5. QED
  BY <1>1, <1>2, <1>3, <1>4, PressInputs, PressComm DEF Next

(***************************************************************************)
(* Advertising is toggled at most once for each press of the button, and   *)
(* by nothing else, whatever is cut, glued together or lost on the way.    *)
(***************************************************************************)
THEOREM PressesToggle == Spec => []ToggledByPresses
<1>1. Init => PressInv
  <2> SUFFICES ASSUME Init PROVE PressInv
    OBVIOUS
  <2>1. /\ \A k \in Sides : evq[k] = <<Ready>> /\ worker[k] = IdleWorker /\ msgq[k] = NoQueues
                            /\ mcu[k] = NotSending /\ buf[k] = <<>>
        /\ toggled = 0 /\ used["presses"] = 0
        /\ "nrf52" \in Sides /\ "nrf91" \in Sides
    BY SidesTyped DEF Init, Inputs
  <2>2. ASSUME NEW S, Ready \notin S
        PROVE  CountIn(<<Ready>>, S) = 0
    <3>1. <<>> \in Seq(Events) /\ Ready \in Events /\ <<Ready>> = Append(<<>>, Ready)
      BY EventsTyped
    <3>2. CountIn(<<Ready>>, S) = CountIn(<<>>, S) + (IF Ready \in S THEN 1 ELSE 0)
      BY <3>1, CountAppend
    <3>3. QED
      BY <2>2, <3>2, CountEmpty
  <2>3. Ready \notin ToToggle /\ Ready \notin Pressed
    BY EventsTyped, PressEvents DEF Ready
  <2>4. PressFlow[2] = 0 /\ PressFlow[11] = 0
    BY <2>1, <2>2, <2>3, PressPlaces
  <2>5. NoQueues["comm"] = <<>> /\ NoQueues["mcu"] = <<>>
    BY SidesTyped DEF NoQueues
  <2>6. PressFlow[5] = 0 /\ PressFlow[6] = 0 /\ PressFlow[9] = 0
    BY <2>1, <2>5, CountEmpty, PressPlaces
  <2>7. /\ PressFlow[1] = 0 /\ PressFlow[3] = 0 /\ PressFlow[4] = 0 /\ PressFlow[10] = 0
        /\ PressFlow[7] = 0 /\ PressFlow[8] = 0
    BY <2>1, PressPlaces DEF IdleWorker, OneFor, OneHead, OneStart, NotSending
  <2>8. QED
    BY <2>1, <2>4, <2>6, <2>7 DEF PressInv
<1>2. TypeOK /\ PressInv => ToggledByPresses
  BY PressTyped, PressPlaces DEF PressInv, ToggledByPresses
<1>3. QED
  BY <1>1, <1>2, PressStep, TypeCorrect, PTL DEF Spec

=============================================================================
