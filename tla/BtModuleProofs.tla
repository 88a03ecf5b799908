--------------------------- MODULE BtModuleProofs ---------------------------
(***************************************************************************)
(* What the BLE module keeps for every number of connections, length of    *)
(* the queue, size of the messages and MTU the peers may negotiate.        *)
(***************************************************************************)
EXTENDS BtModule, QueueProofs, WellFoundedInduction

-----------------------------------------------------------------------------
(* The chunks of serialSend(), for every ATT MTU that a connection may     *)
(* have: the smallest is 23.                                               *)

(***************************************************************************)
(* exchange_func() counts down to a multiple of four plus one, by three at *)
(* most, and leaves more than the terminator.                              *)
(***************************************************************************)
LEMMA FixedMtuAligned ==
  ASSUME NEW att \in Nat, att >= 23
  PROVE  /\ FixedMtu(att) \in Nat
         /\ FixedMtu(att) % 4 = 1
         /\ FixedMtu(att) >= 17
         /\ FixedMtu(att) <= att - AttHeader
<1> DEFINE mtu == att - 3
           over == (mtu + 3) % 4
<1>1. mtu \in Nat /\ mtu >= 20
  OBVIOUS
<1>2. over \in 0 .. 3 /\ (mtu - over) % 4 = 1
  BY <1>1
<1>3. FixedMtu(att) = mtu - over
  BY DEF FixedMtu, AttHeader
<1>4. QED
  BY <1>1, <1>2, <1>3 DEF AttHeader

(***************************************************************************)
(* The bytes taken for a chunk are a whole number of groups of three, at   *)
(* least one, and their base64 text with its terminator fills the MTU.     *)
(***************************************************************************)
LEMMA ChunkFillsMtu ==
  ASSUME NEW mtu \in Nat, mtu % 4 = 1, mtu > 1
  PROVE  /\ DecodedChunkSize(mtu) \in Nat \ {0}
         /\ DecodedChunkSize(mtu) % 3 = 0
         /\ EncodedLen(DecodedChunkSize(mtu)) + 1 = mtu
<1>1. PICK k \in Nat \ {0} : mtu = 4 * k + 1
  <2>1. mtu = 4 * (mtu \div 4) + 1 /\ mtu \div 4 \in Nat \ {0}
    OBVIOUS
  <2>2. QED
    BY <2>1
<1>2. DecodedChunkSize(mtu) = 3 * k
  BY <1>1 DEF DecodedChunkSize
<1>3. (3 * k) % 3 = 0 /\ (3 * k + 2) \div 3 = k
  OBVIOUS
<1>4. QED
  BY <1>1, <1>2, <1>3 DEF EncodedLen

(* A shorter chunk has a text that is no longer. *)
LEMMA EncodedLenMonotonic ==
  ASSUME NEW m \in Nat, NEW n \in Nat, m <= n
  PROVE  EncodedLen(m) <= EncodedLen(n)
<1>1. (m + 2) \div 3 <= (n + 2) \div 3
  OBVIOUS
<1>2. (m + 2) \div 3 \in Nat /\ (n + 2) \div 3 \in Nat
  OBVIOUS
<1>3. QED
  BY <1>1, <1>2 DEF EncodedLen

(***************************************************************************)
(* With an MTU that stays what it was when the send began, the base64 text *)
(* of every chunk of every message fits the notification: base64_encode()  *)
(* is never refused, whatever MTU the peer negotiated.                     *)
(***************************************************************************)
THEOREM ChunksFit ==
  ASSUME NEW att \in Nat, att >= 23, NEW left \in Nat
  PROVE  EncodeFits(ChunkLen(left, DecodedChunkSize(FixedMtu(att))), FixedMtu(att))
<1> DEFINE mtu == FixedMtu(att)
           room == DecodedChunkSize(mtu)
           len == ChunkLen(left, room)
<1>1. mtu \in Nat /\ mtu % 4 = 1 /\ mtu > 1
  BY FixedMtuAligned
<1>2. room \in Nat /\ EncodedLen(room) + 1 = mtu
  BY <1>1, ChunkFillsMtu
<1>3. len \in Nat /\ len <= room
  BY <1>2 DEF ChunkLen
<1>4. EncodedLen(len) <= EncodedLen(room) /\ EncodedLen(len) \in Nat
                                          /\ EncodedLen(room) \in Nat
  BY <1>2, <1>3, EncodedLenMonotonic DEF EncodedLen
<1>5. QED
  BY <1>1, <1>2, <1>4 DEF EncodeFits

-----------------------------------------------------------------------------
(* Types *)

(* The usable MTUs and the chunk sizes they give are natural numbers, and  *)
(* a base64 chunk is a whole number of groups of three.                    *)
LEMMA UsableMtuFacts ==
  ASSUME NEW mtu \in UsableMtus
  PROVE  /\ mtu \in Nat
         /\ DecodedChunkSize(mtu) \in Nat
         /\ DecodedChunkSize(mtu) % 3 = 0
<1>1. CASE mtu = 0
  BY <1>1 DEF DecodedChunkSize
<1>2. CASE mtu # 0
  <2>1. PICK att \in AttMtus : mtu = FixedMtu(att)
    BY <1>2 DEF UsableMtus
  <2>2. mtu \in Nat /\ mtu % 4 = 1 /\ mtu > 1
    BY <2>1, BtAssumption, FixedMtuAligned DEF BtAssumption
  <2>3. QED
    BY <2>2, ChunkFillsMtu
<1>3. QED
  BY <1>1, <1>2

(* The thread and the workqueue are well typed when they have nothing to do. *)
LEMMA IdleTyped == Idle \in ThreadType /\ WorkerIdle \in WorkerType
BY BtAssumption
   DEF BtAssumption, Idle, WorkerIdle, ThreadType, WorkerType, Slots, UsableMtus

(* The module starts well typed. *)
LEMMA TypeInit == Init => TypeOK
<1> SUFFICES ASSUME Init PROVE TypeOK
  OBVIOUS
<1> USE BtAssumption DEF BtAssumption
<1>1. conns \in [Slots -> SlotType]
  BY DEF Init, EmptySlot, SlotType, UsableMtus
<1>2. connCnt \in 0 .. CntMod - 1
  BY DEF Init
<1>3. evq \in Seq(EventTypes) /\ msgq \in Seq(EventTypes) /\ Len(msgq) <= QueueLen
  BY DEF Init, EventTypes
<1>4. /\ worker = WorkerIdle /\ worker.pc = "idle" /\ worker.msg = None
      /\ thread = Idle /\ thread.pc = "get" /\ thread.msg = None
  BY DEF Init, WorkerIdle, Idle
<1>5. /\ state \in States /\ linked \subseteq Peers /\ exchanging \subseteq linked
      /\ live \in Int
  BY DEF Init, States
<1>6. advOn \in BOOLEAN /\ advPending \in BOOLEAN /\ readyPending \in BOOLEAN
      /\ orphan \in BOOLEAN
  BY DEF Init
<1>7. worker \in WorkerType /\ thread \in ThreadType
  BY <1>4, IdleTyped
<1>8. heard \in [Peers -> Nat \union {None}]
  <2>1. heard = [p \in Peers |-> 0]
    BY DEF Init
  <2>2. QED
    BY <2>1
<1>9. QED
  BY <1>1, <1>2, <1>3, <1>4, <1>5, <1>6, <1>7, <1>8
     DEF TypeOK, LinksOK, QueuesOK, ThreadOK, Sending

(* The part of ThreadOK about the ghosts, which the thread resets itself. *)
GhostsOK == heard \in [Peers -> Nat \union {None}] /\ orphan \in BOOLEAN

(* The handling of a message ends well typed. *)
LEMMA FinishTyped ==
  ASSUME TypeOK, NEW m, Finish(m), GhostsOK'
  PROVE  ThreadOK'
<1>1. thread' = Idle /\ thread'.pc = "get" /\ thread'.msg = None
  BY DEF Finish, Idle
<1>2. live' \in Int
  BY DEF TypeOK, ThreadOK, Finish, Payloads
<1>3. QED
  BY <1>1, <1>2, IdleTyped DEF ThreadOK, GhostsOK, Sending

(* A message goes where its handler takes it. *)
LEMMA AtTyped ==
  ASSUME TypeOK, UNCHANGED ghosts, NEW m \in EventTypes,
         NEW pc \in {"init", "slot"}, pc = "slot" => m \in DataTypes, At(pc, m)
  PROVE  ThreadOK'
<1>1. thread' = [Idle EXCEPT !.pc = pc, !.msg = m]
  BY DEF At
<1>2. thread' \in ThreadType /\ thread'.pc = pc /\ thread'.msg = m
  BY <1>1, IdleTyped DEF ThreadType, Idle
<1>3. UNCHANGED <<live, heard, orphan>>
  BY DEF At, ghosts
<1>4. QED
  BY <1>2, <1>3, BtAssumption DEF ThreadOK, TypeOK, BtAssumption, Sending

(* The loop over the entries of conns[] stays within it. *)
LEMMA NextSlotTyped ==
  ASSUME TypeOK, thread.pc \in {"slot", "begin", "chunk"}, NextSlot
  PROVE  ThreadOK'
<1>1. GhostsOK'
  <2>1. heard' = heard \/ heard' = [p \in Peers |-> 0]
    BY DEF NextSlot
  <2>2. heard' \in [Peers -> Nat \union {None}]
    BY <2>1 DEF TypeOK, ThreadOK
  <2>3. QED
    BY <2>2 DEF GhostsOK, NextSlot
<1>2. CASE thread.slot < MaxConn
  <2>1. /\ thread' = [Idle EXCEPT !.pc = "slot", !.msg = thread.msg,
                                  !.slot = thread.slot + 1]
        /\ live' = live
    BY <1>2 DEF NextSlot
  <2>2. thread.slot + 1 \in Slots /\ thread.msg \in DataTypes
    BY <1>2, BtAssumption DEF BtAssumption, TypeOK, ThreadOK, ThreadType, Slots, Sending
  <2>3. thread' \in ThreadType /\ thread'.pc = "slot" /\ thread'.msg \in DataTypes
    BY <2>1, <2>2, IdleTyped DEF ThreadType, Idle, EventTypes
  <2>4. None \notin DataTypes
    BY BtAssumption DEF BtAssumption, EventTypes
  <2>5. QED
    BY <1>1, <2>1, <2>3, <2>4 DEF ThreadOK, TypeOK, GhostsOK, Sending
<1>3. CASE ~(thread.slot < MaxConn)
  <2>1. Finish(thread.msg)
    BY <1>3 DEF NextSlot
  <2>2. QED
    BY <1>1, <2>1, FinishTyped
<1>4. QED
  BY <1>2, <1>3

(* Nothing changes but the links; the thread's and the queues' parts hold. *)
LEMMA QueuesKept ==
  ASSUME TypeOK, UNCHANGED <<evq, msgq, worker>>
  PROVE  QueuesOK'
BY DEF TypeOK, QueuesOK

LEMMA ThreadKept ==
  ASSUME TypeOK, UNCHANGED <<thread, live>>, UNCHANGED ghosts
  PROVE  ThreadOK'
BY DEF TypeOK, ThreadOK, Sending, ghosts

LEMMA LinksKept ==
  ASSUME TypeOK, UNCHANGED <<state, link, connCnt, advOn, advPending, readyPending>>
  PROVE  LinksOK'
BY DEF TypeOK, LinksOK, link

LEMMA ErrorTyped ==
  ASSUME TypeOK, UNCHANGED <<msgq, worker>>,
         evq' = evq \/ \E failed \in BOOLEAN : SubmitError(failed)
  PROVE  QueuesOK'
<1>1. evq' \in Seq(EventTypes)
  BY DEF TypeOK, QueuesOK, SubmitError, EventTypes
<1>2. QED
  BY <1>1 DEF TypeOK, QueuesOK

(* The steps of the system workqueue keep the types. *)
LEMMA TypeWorkqueue == TypeOK /\ Workqueue => TypeOK'
<1> SUFFICES ASSUME TypeOK, Workqueue PROVE TypeOK'
  OBVIOUS
<1> USE BtAssumption DEF BtAssumption
<1>1. CASE HandleEvent
  <2>1. Head(evq) \in EventTypes /\ Tail(evq) \in Seq(EventTypes)
    BY <1>1 DEF HandleEvent, TypeOK, QueuesOK
  <2>2. /\ evq' \in Seq(EventTypes) /\ msgq' \in Seq(EventTypes)
        /\ Len(msgq') <= QueueLen
    <3>1. CASE Len(msgq) < QueueLen
      <4>1. msgq' = Append(msgq, Head(evq)) /\ evq' = Tail(evq)
        BY <1>1, <3>1 DEF HandleEvent
      <4>2. QED
        BY <2>1, <3>1, <4>1 DEF TypeOK, QueuesOK
    <3>2. CASE ~(Len(msgq) < QueueLen)
      BY <1>1, <2>1, <3>2 DEF HandleEvent, TypeOK, QueuesOK
    <3>3. QED
      BY <3>1, <3>2
  <2>3. worker' \in WorkerType /\ (worker'.pc = "blocked" <=> worker'.msg # None)
    <3>1. CASE UNCHANGED worker
      BY <3>1 DEF TypeOK, QueuesOK
    <3>2. CASE worker' = [WorkerIdle EXCEPT !.pc = "blocked", !.msg = Head(evq)]
      BY <3>2, <2>1 DEF WorkerIdle, WorkerType
    <3>3. QED
      BY <1>1, <3>1, <3>2 DEF HandleEvent
  <2>4. QueuesOK'
    BY <2>2, <2>3 DEF QueuesOK
  <2>5. ThreadOK'
    BY <1>1 DEF HandleEvent, TypeOK, ThreadOK, Payloads, Sending, ghosts
  <2>6. LinksOK'
    BY <1>1, LinksKept DEF HandleEvent
  <2>7. QED
    BY <2>4, <2>5, <2>6 DEF TypeOK
<1>2. CASE PutResumes
  <2>1. worker.msg \in EventTypes
    BY <1>2 DEF PutResumes, TypeOK, QueuesOK, WorkerType
  <2>2. worker' \in WorkerType /\ worker'.pc = "idle" /\ worker'.msg = None
    BY <1>2, IdleTyped DEF PutResumes, WorkerIdle
  <2>3. QueuesOK'
    BY <1>2, <2>1, <2>2 DEF PutResumes, TypeOK, QueuesOK
  <2>4. QED
    BY <1>2, <2>3, LinksKept, ThreadKept DEF PutResumes, TypeOK
<1>3. CASE BtReady
  <2>1. LinksOK'
    BY <1>3 DEF BtReady, TypeOK, LinksOK, link, States
  <2>2. QueuesOK'
    BY <1>3, ErrorTyped DEF BtReady
  <2>3. QED
    BY <1>3, <2>1, <2>2, ThreadKept DEF BtReady, TypeOK
<1>4. CASE AdvertiseBegin
  <2>1. LinksOK'
    BY <1>4 DEF AdvertiseBegin, TypeOK, LinksOK, link
  <2>2. worker' \in WorkerType /\ (worker'.pc = "blocked" <=> worker'.msg # None)
    <3>1. CASE UNCHANGED worker
      BY <3>1 DEF TypeOK, QueuesOK
    <3>2. CASE \E err \in BOOLEAN :
                 worker' = [WorkerIdle EXCEPT !.pc = "advertise", !.err = err]
      BY <3>2 DEF WorkerIdle, WorkerType
    <3>3. QED
      BY <1>4, <3>1, <3>2 DEF AdvertiseBegin
  <2>3. QueuesOK'
    BY <1>4, <2>2 DEF AdvertiseBegin, TypeOK, QueuesOK
  <2>4. QED
    BY <1>4, <2>1, <2>3, ThreadKept DEF AdvertiseBegin, TypeOK
<1>5. CASE AdvertiseEnd
  <2>1. LinksOK'
    BY <1>5 DEF AdvertiseEnd, TypeOK, LinksOK, link, States
  <2>2. worker' \in WorkerType /\ worker'.pc = "idle" /\ worker'.msg = None
    BY <1>5, IdleTyped DEF AdvertiseEnd, WorkerIdle
  <2>3. evq' \in Seq(EventTypes)
    BY <1>5 DEF AdvertiseEnd, SubmitError, TypeOK, QueuesOK, EventTypes
  <2>4. QueuesOK'
    BY <1>5, <2>2, <2>3 DEF AdvertiseEnd, TypeOK, QueuesOK
  <2>5. QED
    BY <1>5, <2>1, <2>4, ThreadKept DEF AdvertiseEnd, TypeOK
<1>6. QED
  BY <1>1, <1>2, <1>3, <1>4, <1>5 DEF Workqueue

(* The callbacks of the BT RX thread keep the types. *)
LEMMA TypeBtRx == TypeOK /\ BtRx => TypeOK'
<1> SUFFICES ASSUME TypeOK, BtRx PROVE TypeOK'
  OBVIOUS
<1> USE BtAssumption DEF BtAssumption
<1>1. 0 \in UsableMtus /\ \A att \in AttMtus : FixedMtu(att) \in UsableMtus
  BY DEF UsableMtus
<1>2. \A s \in Slots : conns[s] \in SlotType
  BY DEF TypeOK, LinksOK
<1>3. CASE ConnectFails
  <2>1. LinksOK'
    BY <1>3 DEF ConnectFails, TypeOK, LinksOK, link, States
  <2>2. QED
    BY <1>3, <2>1, QueuesKept, ThreadKept DEF ConnectFails, TypeOK
<1>4. ASSUME NEW p \in Peers, Connected(p) PROVE TypeOK'
  <2>1. conns' \in [Slots -> SlotType]
    BY <1>1, <1>2, <1>4 DEF Connected, SlotType
  <2>2. LinksOK'
    BY <1>4, <2>1 DEF Connected, TypeOK, LinksOK, States
  <2>3. QED
    BY <1>4, <2>2, QueuesKept, ThreadKept DEF Connected, TypeOK
<1>5. ASSUME NEW p \in Peers, Disconnected(p) PROVE TypeOK'
  <2>1. conns' \in [Slots -> SlotType]
    BY <1>1, <1>2, <1>5 DEF Disconnected, SlotType
  <2>2. (connCnt + CntMod - 1) % CntMod \in 0 .. CntMod - 1
    BY DEF TypeOK, LinksOK
  <2>3. LinksOK'
    BY <1>5, <2>1, <2>2 DEF Disconnected, TypeOK, LinksOK, States
  <2>4. ThreadOK'
    BY <1>5 DEF Disconnected, TypeOK, ThreadOK, Sending, HeardWithout, SentThrough
  <2>5. QED
    BY <1>5, <2>3, <2>4, QueuesKept DEF Disconnected, TypeOK
<1>6. ASSUME NEW p \in Peers, ExchangeFunc(p) PROVE TypeOK'
  <2>1. conns' \in [Slots -> SlotType]
    BY <1>1, <1>2, <1>6 DEF ExchangeFunc, SlotType, TypeOK, LinksOK
  <2>2. LinksOK'
    BY <1>6, <2>1 DEF ExchangeFunc, TypeOK, LinksOK
  <2>3. QED
    BY <1>6, <2>2, QueuesKept, ThreadKept DEF ExchangeFunc, TypeOK
<1>7. ASSUME NEW p \in Peers, NEW on \in BOOLEAN, CccWrite(p, on) PROVE TypeOK'
  <2>1. conns' \in [Slots -> SlotType]
    BY <1>2, <1>7 DEF CccWrite, SlotType
  <2>2. LinksOK'
    BY <1>7, <2>1 DEF CccWrite, TypeOK, LinksOK
  <2>3. QED
    BY <1>7, <2>2, QueuesKept, ThreadKept DEF CccWrite, TypeOK
<1>8. QED
  BY <1>3, <1>4, <1>5, <1>6, <1>7 DEF BtRx

(* The message taken from the queue goes to the handler of the state. *)
LEMMA TypeGetMessage == TypeOK /\ GetMessage => TypeOK'
<1> SUFFICES ASSUME TypeOK, GetMessage PROVE TypeOK'
  OBVIOUS
<1> DEFINE m == Head(msgq)
<1>1. m \in EventTypes /\ msgq' \in Seq(EventTypes) /\ Len(msgq') <= QueueLen
  BY BtAssumption DEF GetMessage, TypeOK, QueuesOK, BtAssumption
<1>2. UNCHANGED ghosts
  BY DEF GetMessage
<1>3. GhostsOK'
  BY <1>2 DEF TypeOK, ThreadOK, GhostsOK, ghosts
<1> HIDE DEF m
<1>4. ASSUME Finish(m) PROVE ThreadOK'
  BY <1>3, <1>4, FinishTyped
<1>5. ASSUME NEW pc \in {"init", "slot"}, pc = "slot" => m \in DataTypes, At(pc, m)
      PROVE  ThreadOK'
  BY <1>1, <1>2, <1>5, AtTyped
<1>6. ASSUME advPending' \in BOOLEAN, ThreadOK' PROVE TypeOK'
  <2>1. LinksOK'
    BY <1>6 DEF GetMessage, TypeOK, LinksOK, link
  <2>2. QueuesOK'
    BY <1>1 DEF GetMessage, TypeOK, QueuesOK
  <2>3. QED
    BY <1>6, <2>1, <2>2 DEF TypeOK
<1>7. CASE OnStateInit(m)
  BY <1>4, <1>5, <1>6, <1>7 DEF OnStateInit, TypeOK, LinksOK
<1>8. CASE OnStateConnected(m)
  BY <1>4, <1>5, <1>6, <1>8 DEF OnStateConnected
<1>9. CASE OnStateDisconnected(m)
  BY <1>4, <1>6, <1>9 DEF OnStateDisconnected
<1>10. CASE Finish(m) /\ UNCHANGED advPending
  BY <1>4, <1>6, <1>10 DEF TypeOK, LinksOK
<1>11. CASE /\ state \in DOMAIN StopsAt
            /\ thread' = [Idle EXCEPT !.pc = "stop", !.msg = m, !.goal = StopsAt[state]]
            /\ UNCHANGED <<live, advPending>>
  <2>1. StopsAt[state] \in States
    BY <1>11 DEF StopsAt, States
  <2>2. /\ thread' \in ThreadType
        /\ thread'.pc = "stop" /\ thread'.msg = m /\ thread'.goal \in States
    BY <1>1, <1>11, <2>1, IdleTyped DEF ThreadType, Idle
  <2>3. ThreadOK'
    BY <1>1, <1>3, <1>11, <2>2, BtAssumption
       DEF TypeOK, ThreadOK, BtAssumption, GhostsOK, Sending
  <2>4. QED
    BY <1>6, <1>11, <2>3 DEF TypeOK, LinksOK
<1>12. QED
  BY <1>7, <1>8, <1>9, <1>10, <1>11 DEF GetMessage, m

(* The bytes a turn of the loop of serialSend() takes are at hand. *)
LEMMA ChunkTaken ==
  ASSUME TypeOK, EncodeChunk
  PROVE  LET left == Size[thread.msg] - thread.off
         IN  /\ thread.msg \in DataTypes /\ thread.slot \in Slots
             /\ conns[thread.slot] \in SlotType
             /\ conns[thread.slot].mtu \in UsableMtus /\ conns[thread.slot].mtu \in Nat
             /\ thread.space \in UsableMtus /\ thread.space \in Nat
             /\ DecodedChunkSize(thread.space) \in Nat
             /\ left \in Nat
             /\ \A room \in Nat : ChunkLen(left, room) \in 0 .. left
                                /\ ChunkLen(left, room) <= room
<1> DEFINE left == Size[thread.msg] - thread.off
<1>1. thread.slot \in Slots /\ conns[thread.slot] \in SlotType
  BY DEF TypeOK, LinksOK, ThreadOK, ThreadType
<1>2. /\ conns[thread.slot].mtu \in UsableMtus /\ conns[thread.slot].mtu \in Nat
      /\ thread.space \in UsableMtus /\ thread.space \in Nat
      /\ DecodedChunkSize(thread.space) \in Nat
  BY <1>1, UsableMtuFacts DEF SlotType, TypeOK, ThreadOK, ThreadType
<1>3. thread.msg \in DataTypes
  BY DEF EncodeChunk, TypeOK, ThreadOK, Sending
<1>4. left \in Nat
  BY <1>3, BtAssumption DEF EncodeChunk, BtAssumption, TypeOK, ThreadOK, ThreadType
<1>5. QED
  BY <1>1, <1>2, <1>3, <1>4 DEF ChunkLen

LEMMA EncodeTyped ==
  ASSUME TypeOK, EncodeChunk
  PROVE  \E len \in Nat, fits \in BOOLEAN, pc \in {"overrun", "notify"} :
           /\ thread' = [thread EXCEPT !.pc = pc, !.len = len, !.fits = fits]
           /\ SubmitError(~fits)
<1> DEFINE mtu == conns[thread.slot].mtu
           raw == thread.msg = "UART"
           room == IF raw THEN mtu ELSE DecodedChunkSize(thread.space)
           len == ChunkLen(Size[thread.msg] - thread.off, room)
           fits == raw \/ EncodeFits(len, mtu)
           used == IF raw THEN len ELSE IF fits THEN TextLen(len) ELSE 0
           pc == IF used > thread.space THEN "overrun" ELSE "notify"
<1>1. len \in Nat
  BY ChunkTaken
<1>2. /\ thread' = [thread EXCEPT !.pc = pc, !.len = len, !.fits = fits]
      /\ SubmitError(~fits)
  BY DEF EncodeChunk
<1>3. fits \in BOOLEAN /\ pc \in {"overrun", "notify"}
  BY DEF EncodeFits
<1> HIDE DEF len, fits, pc
<1>4. QED
  BY <1>1, <1>2, <1>3

(* The steps of the module thread keep the types. *)
LEMMA TypeModuleThread == TypeOK /\ ModuleThread => TypeOK'
<1> SUFFICES ASSUME TypeOK, ModuleThread PROVE TypeOK'
  OBVIOUS
<1>1. CASE GetMessage
  BY <1>1, TypeGetMessage
<1>2. CASE InitModule
  <2>1. ThreadOK'
    BY <1>2, FinishTyped DEF InitModule, TypeOK, ThreadOK, GhostsOK, ghosts
  <2>2. LinksOK'
    BY <1>2 DEF InitModule, TypeOK, LinksOK, link
  <2>3. QED
    BY <1>2, <2>1, <2>2, QueuesKept DEF InitModule, TypeOK
<1>3. CASE AdvStop
  <2>1. ThreadOK'
    <3>1. thread' = [thread EXCEPT !.pc = "stopped"] /\ thread.pc = "stop"
      BY <1>3 DEF AdvStop
    <3>2. thread' \in ThreadType /\ thread'.pc = "stopped"
          /\ thread'.msg = thread.msg /\ thread'.goal = thread.goal
      BY <3>1 DEF TypeOK, ThreadOK, ThreadType
    <3>3. QED
      BY <1>3, <3>1, <3>2 DEF AdvStop, TypeOK, ThreadOK, Sending, ghosts
  <2>2. LinksOK'
    BY <1>3 DEF AdvStop, TypeOK, LinksOK, link
  <2>3. QED
    BY <1>3, <2>1, <2>2, QueuesKept DEF AdvStop, TypeOK
<1>4. CASE SetStateAfterStop
  <2>1. ThreadOK'
    BY <1>4, FinishTyped DEF SetStateAfterStop, TypeOK, ThreadOK, GhostsOK, ghosts
  <2>2. LinksOK'
    BY <1>4 DEF SetStateAfterStop, TypeOK, LinksOK, ThreadOK, link
  <2>3. QED
    BY <1>4, <2>1, <2>2, QueuesKept DEF SetStateAfterStop, TypeOK
<1>5. CASE CheckSlot
  <2>1. ThreadOK'
    <3>1. CASE NextSlot
      BY <1>5, <3>1, NextSlotTyped DEF CheckSlot
    <3>2. CASE thread' = [thread EXCEPT !.pc = "begin"] /\ UNCHANGED <<live, ghosts>>
      <4>1. thread' \in ThreadType /\ thread'.pc = "begin" /\ thread'.msg = thread.msg
        BY <3>2 DEF TypeOK, ThreadOK, ThreadType
      <4>2. QED
        BY <1>5, <3>2, <4>1 DEF CheckSlot, TypeOK, ThreadOK, Sending, ghosts
    <3>3. QED
      BY <1>5, <3>1, <3>2 DEF CheckSlot
  <2>2. QED
    BY <1>5, <2>1, LinksKept, QueuesKept DEF CheckSlot, TypeOK
<1>6. CASE SendBegin
  <2>1. ThreadOK'
    <3>1. CASE NextSlot
      BY <1>6, <3>1, NextSlotTyped DEF SendBegin
    <3>2. CASE ~NextSlot
      <4>1. /\ thread.pc = "begin"
            /\ thread' = [thread EXCEPT !.pc = "chunk", !.space = conns[thread.slot].mtu]
            /\ UNCHANGED <<live, heard, orphan>>
        BY <1>6, <3>2 DEF SendBegin, ghosts
      <4>2. thread.slot \in Slots /\ conns[thread.slot] \in SlotType
        BY DEF TypeOK, LinksOK, ThreadOK, ThreadType
      <4>3. thread' \in ThreadType /\ thread'.pc = "chunk" /\ thread'.msg = thread.msg
        BY <4>1, <4>2 DEF TypeOK, ThreadOK, ThreadType, SlotType
      <4>4. QED
        BY <4>1, <4>3 DEF TypeOK, ThreadOK, Sending
    <3>3. QED
      BY <3>1, <3>2
  <2>2. QED
    BY <1>6, <2>1, LinksKept, QueuesKept DEF SendBegin, TypeOK
<1>7. CASE EncodeChunk
  <2>1. PICK len \in Nat, fits \in BOOLEAN, pc \in {"overrun", "notify"} :
          /\ thread' = [thread EXCEPT !.pc = pc, !.len = len, !.fits = fits]
          /\ SubmitError(~fits)
    BY <1>7, EncodeTyped
  <2>2. ThreadOK'
    <3>1. thread' \in ThreadType /\ thread'.pc = pc /\ thread'.msg = thread.msg
      BY <2>1 DEF TypeOK, ThreadOK, ThreadType
    <3>2. QED
      BY <1>7, <3>1 DEF EncodeChunk, TypeOK, ThreadOK, Sending, ghosts
  <2>3. QueuesOK'
    BY <1>7, <2>1, ErrorTyped DEF EncodeChunk
  <2>4. QED
    BY <1>7, <2>2, <2>3, LinksKept DEF EncodeChunk, TypeOK
<1>8. CASE Notify
  <2>1. /\ thread' \in ThreadType /\ thread'.pc = "chunk" /\ thread'.msg = thread.msg
        /\ thread.pc = "notify" /\ UNCHANGED <<live, orphan>>
    <3>1. /\ thread' = [thread EXCEPT !.pc = "chunk", !.off = @ + thread.len,
                                      !.len = 0, !.fits = TRUE]
          /\ thread.pc = "notify" /\ UNCHANGED <<live, orphan>>
      BY <1>8 DEF Notify
    <3>2. thread \in ThreadType /\ thread.off + thread.len \in Nat
      BY DEF TypeOK, ThreadOK, ThreadType
    <3>3. QED
      BY <3>1, <3>2 DEF ThreadType
  <2>2. heard' \in [Peers -> Nat \union {None}]
    <3>1. Size[thread.msg] \in Nat /\ thread.len \in Nat
      BY <2>1, BtAssumption DEF BtAssumption, TypeOK, ThreadOK, ThreadType, Sending
    <3>2. \A n \in Nat \union {None} : HeardNext(n) \in Nat \union {None}
      BY <3>1 DEF HeardNext
    <3>3. QED
      BY <1>8, <3>2 DEF Notify, TypeOK, ThreadOK
  <2>3. ThreadOK'
    BY <2>1, <2>2 DEF TypeOK, ThreadOK, Sending
  <2>4. QueuesOK'
    BY <1>8, ErrorTyped DEF Notify
  <2>5. QED
    BY <1>8, <2>3, <2>4, LinksKept DEF Notify, TypeOK
<1>9. CASE SendEnd
  <2>1. ThreadOK'
    BY <1>9, NextSlotTyped DEF SendEnd
  <2>2. QED
    BY <1>9, <2>1, LinksKept, QueuesKept DEF SendEnd, TypeOK
<1>10. QED
  BY <1>1, <1>2, <1>3, <1>4, <1>5, <1>6, <1>7, <1>8, <1>9 DEF ModuleThread

(* Every step keeps the types. *)
LEMMA TypeStep == TypeOK /\ [Next]_vars => TypeOK'
<1> SUFFICES ASSUME TypeOK, [Next]_vars PROVE TypeOK'
  OBVIOUS
<1>1. CASE \E e \in Inputs : Submit(e)
  <2>1. PICK e \in Inputs : Submit(e)
    BY <1>1
  <2>2. QueuesOK'
    BY <2>1, BtAssumption DEF Submit, TypeOK, QueuesOK, BtAssumption
  <2>3. QED
    BY <2>1, <2>2, LinksKept, ThreadKept DEF Submit, TypeOK
<1>2. CASE Workqueue
  BY <1>2, TypeWorkqueue
<1>3. CASE BtRx
  BY <1>3, TypeBtRx
<1>4. CASE ModuleThread
  BY <1>4, TypeModuleThread
<1>5. CASE SurviveOverrun
  <2>1. thread' \in ThreadType /\ thread'.pc = "notify" /\ thread'.msg = thread.msg
        /\ thread.pc = "overrun"
    BY <1>5 DEF SurviveOverrun, TypeOK, ThreadOK, ThreadType
  <2>2. ThreadOK'
    BY <1>5, <2>1 DEF SurviveOverrun, TypeOK, ThreadOK, Sending, ghosts
  <2>3. QED
    BY <1>5, <2>2, LinksKept, QueuesKept DEF SurviveOverrun, TypeOK
<1>6. CASE UNCHANGED vars
  BY <1>6, LinksKept, QueuesKept, ThreadKept DEF vars, link, ghosts, TypeOK
<1>7. QED
  BY <1>1, <1>2, <1>3, <1>4, <1>5, <1>6 DEF Next

(***************************************************************************)
(* Type correctness of bt_module.c: for any number of connections, length  *)
(* of msgq_bt, message sizes and MTUs, every variable stays in its type,   *)
(* conn_cnt within its width, and the queue within its length.             *)
(***************************************************************************)
THEOREM TypeCorrect == Spec => []TypeOK
<1>1. QED
  BY TypeInit, TypeStep, PTL DEF Spec

-----------------------------------------------------------------------------
(* Message payloads *)

LEMMA OwnedNat ==
  ASSUME TypeOK
  PROVE  /\ CountIn(msgq, DataTypes) \in Nat
         /\ Payloads(worker.msg) \in 0 .. 1
         /\ Payloads(thread.msg) \in 0 .. 1
         /\ Payloads(None) = 0
         /\ live \in Int
BY PositionsFinite, BtAssumption
   DEF TypeOK, QueuesOK, ThreadOK, Payloads, BtAssumption, EventTypes

(* A handler that finishes gives back what its message owned. *)
LEMMA FinishAccounts ==
  ASSUME TypeOK, PayloadsAccounted, UNCHANGED <<msgq, worker>>, Finish(thread.msg)
  PROVE  PayloadsAccounted'
<1>1. thread'.msg = None
  BY DEF Finish, Idle
<1>2. live' = live - Payloads(thread.msg)
  BY DEF Finish
<1>3. QED
  BY <1>1, <1>2, OwnedNat DEF PayloadsAccounted

LEMMA NextSlotAccounts ==
  ASSUME TypeOK, PayloadsAccounted, UNCHANGED <<msgq, worker>>, NextSlot
  PROVE  PayloadsAccounted'
<1>1. CASE thread.slot < MaxConn
  <2>1. thread'.msg = thread.msg /\ live' = live
    BY <1>1 DEF NextSlot, Idle
  <2>2. QED
    BY <2>1 DEF PayloadsAccounted
<1>2. CASE ~(thread.slot < MaxConn)
  BY <1>2, FinishAccounts DEF NextSlot
<1>3. QED
  BY <1>1, <1>2

(* Neither the queue nor the two owners change. *)
LEMMA AccountsKept ==
  ASSUME PayloadsAccounted, UNCHANGED <<msgq, live>>,
         worker'.msg = worker.msg, thread'.msg = thread.msg
  PROVE  PayloadsAccounted'
BY DEF PayloadsAccounted

LEMMA PayloadsWorkqueue == TypeOK /\ PayloadsAccounted /\ Workqueue => PayloadsAccounted'
<1> SUFFICES ASSUME TypeOK, PayloadsAccounted, Workqueue PROVE PayloadsAccounted'
  OBVIOUS
<1>1. CASE HandleEvent
  <2> DEFINE e == Head(evq)
  <2>1. e \in EventTypes /\ worker.msg = None
    BY <1>1 DEF HandleEvent, TypeOK, QueuesOK
  <2>2. live' = live + Payloads(e) /\ thread' = thread
    BY <1>1 DEF HandleEvent
  <2>3. CASE msgq' = Append(msgq, e) /\ UNCHANGED worker
    <3>1. CountIn(msgq', DataTypes) = CountIn(msgq, DataTypes) + Payloads(e)
      BY <2>1, <2>3, CountAppend DEF TypeOK, QueuesOK, Payloads
    <3>2. Payloads(e) \in 0 .. 1
      BY DEF Payloads
    <3>3. QED
      BY <2>2, <2>3, <3>1, <3>2, OwnedNat DEF PayloadsAccounted
  <2>4. CASE worker' = [WorkerIdle EXCEPT !.pc = "blocked", !.msg = e] /\ UNCHANGED msgq
    <3>1. worker'.msg = e /\ Payloads(e) \in 0 .. 1
      BY <2>4 DEF WorkerIdle, Payloads
    <3>2. QED
      BY <2>1, <2>2, <2>4, <3>1, OwnedNat DEF PayloadsAccounted
  <2>5. QED
    BY <1>1, <2>3, <2>4 DEF HandleEvent
<1>2. CASE PutResumes
  <2>1. worker.msg \in EventTypes /\ worker'.msg = None
    BY <1>2 DEF PutResumes, TypeOK, QueuesOK, WorkerIdle, WorkerType
  <2>2. CountIn(msgq', DataTypes) = CountIn(msgq, DataTypes) + Payloads(worker.msg)
    BY <1>2, <2>1, CountAppend DEF PutResumes, TypeOK, QueuesOK, Payloads
  <2>3. live' = live /\ thread' = thread
    BY <1>2 DEF PutResumes
  <2>4. QED
    BY <2>1, <2>2, <2>3, OwnedNat DEF PayloadsAccounted
<1>3. CASE BtReady
  BY <1>3, AccountsKept DEF BtReady
<1>4. CASE AdvertiseBegin
  <2>1. worker.msg = None /\ worker'.msg = None
    BY <1>4 DEF AdvertiseBegin, TypeOK, QueuesOK, WorkerIdle
  <2>2. QED
    BY <1>4, <2>1, AccountsKept DEF AdvertiseBegin
<1>5. CASE AdvertiseEnd
  <2>1. worker.msg = None /\ worker'.msg = None
    BY <1>5 DEF AdvertiseEnd, TypeOK, QueuesOK, WorkerIdle
  <2>2. QED
    BY <1>5, <2>1, AccountsKept DEF AdvertiseEnd
<1>6. QED
  BY <1>1, <1>2, <1>3, <1>4, <1>5 DEF Workqueue

LEMMA PayloadsThread == TypeOK /\ PayloadsAccounted /\ ModuleThread => PayloadsAccounted'
<1> SUFFICES ASSUME TypeOK, PayloadsAccounted, ModuleThread PROVE PayloadsAccounted'
  OBVIOUS
<1>1. CASE GetMessage
  <2> DEFINE m == Head(msgq)
  <2>1. CountIn(msgq, DataTypes) = CountIn(msgq', DataTypes) + Payloads(m)
    BY <1>1, CountTail DEF GetMessage, TypeOK, QueuesOK, Payloads
  <2>2. CountIn(msgq', DataTypes) \in Nat /\ Payloads(m) \in 0 .. 1
    <3>1. msgq' \in Seq(EventTypes)
      BY <1>1 DEF GetMessage, TypeOK, QueuesOK
    <3>2. QED
      BY <3>1, PositionsFinite DEF Payloads
  <2>3. thread.msg = None /\ worker' = worker
    BY <1>1 DEF GetMessage, TypeOK, ThreadOK
  <2>4. CASE thread'.msg = m /\ live' = live
    BY <2>1, <2>2, <2>3, <2>4, OwnedNat DEF PayloadsAccounted
  <2>5. CASE Finish(m)
    <3>1. thread'.msg = None /\ live' = live - Payloads(m)
      BY <2>5 DEF Finish, Idle
    <3>2. QED
      BY <2>1, <2>2, <2>3, <3>1, OwnedNat DEF PayloadsAccounted
  <2>6. ASSUME NEW pc, At(pc, m) PROVE thread'.msg = m /\ live' = live
    BY <2>6 DEF At, Idle
  <2>7. CASE thread' = [Idle EXCEPT !.pc = "stop", !.msg = m, !.goal = StopsAt[state]]
             /\ UNCHANGED live
    BY <2>4, <2>7 DEF Idle
  <2> HIDE DEF m
  <2>8. \/ Finish(m) \/ (\E pc \in {"init", "slot"} : At(pc, m))
        \/ (thread' = [Idle EXCEPT !.pc = "stop", !.msg = m, !.goal = StopsAt[state]]
             /\ UNCHANGED live)
    BY <1>1 DEF GetMessage, OnStateInit, OnStateConnected, OnStateDisconnected, m
  <2>9. QED
    BY <2>4, <2>5, <2>6, <2>7, <2>8
<1>2. CASE InitModule
  BY <1>2, FinishAccounts DEF InitModule
<1>3. CASE AdvStop
  BY <1>3, AccountsKept DEF AdvStop, TypeOK, ThreadOK, ThreadType
<1>4. CASE SetStateAfterStop
  BY <1>4, FinishAccounts DEF SetStateAfterStop
<1>5. CASE CheckSlot
  <2>1. CASE NextSlot
    BY <1>5, <2>1, NextSlotAccounts DEF CheckSlot
  <2>2. CASE thread' = [thread EXCEPT !.pc = "begin"] /\ UNCHANGED live
    BY <1>5, <2>2, AccountsKept DEF CheckSlot, TypeOK, ThreadOK, ThreadType
  <2>3. QED
    BY <1>5, <2>1, <2>2 DEF CheckSlot
<1>6. CASE SendBegin
  <2>1. CASE NextSlot
    BY <1>6, <2>1, NextSlotAccounts DEF SendBegin
  <2>2. CASE ~NextSlot
    BY <1>6, <2>2, AccountsKept DEF SendBegin, TypeOK, ThreadOK, ThreadType
  <2>3. QED
    BY <2>1, <2>2
<1>7. CASE EncodeChunk
  BY <1>7, AccountsKept DEF EncodeChunk, TypeOK, ThreadOK, ThreadType
<1>8. CASE Notify
  BY <1>8, AccountsKept DEF Notify, TypeOK, ThreadOK, ThreadType
<1>9. CASE SendEnd
  BY <1>9, NextSlotAccounts DEF SendEnd
<1>10. QED
  BY <1>1, <1>2, <1>3, <1>4, <1>5, <1>6, <1>7, <1>8, <1>9 DEF ModuleThread

(***************************************************************************)
(* No dyndata is leaked or freed twice: for every length of the queue, the *)
(* payloads allocated are those of the messages queued, waiting for room   *)
(* in the queue, or being handled.                                         *)
(***************************************************************************)
THEOREM PayloadsCorrect == Spec => []PayloadsAccounted
<1>1. Init => PayloadsAccounted
  <2> SUFFICES ASSUME Init PROVE PayloadsAccounted
    OBVIOUS
  <2>1. worker.msg = None /\ thread.msg = None
    BY DEF Init, WorkerIdle, Idle
  <2>2. CountIn(msgq, DataTypes) = 0 /\ live = 0
    BY CountEmpty DEF Init
  <2>3. QED
    BY <2>1, <2>2, TypeInit, OwnedNat DEF PayloadsAccounted
<1>2. TypeOK /\ PayloadsAccounted /\ [Next]_vars => PayloadsAccounted'
  <2> SUFFICES ASSUME TypeOK, PayloadsAccounted, [Next]_vars PROVE PayloadsAccounted'
    OBVIOUS
  <2>1. CASE \E e \in Inputs : Submit(e)
    BY <2>1, AccountsKept DEF Submit
  <2>2. CASE Workqueue
    BY <2>2, PayloadsWorkqueue
  <2>3. CASE BtRx
    BY <2>3, AccountsKept DEF BtRx, ConnectFails, Connected, Disconnected,
                              ExchangeFunc, CccWrite
  <2>4. CASE ModuleThread
    BY <2>4, PayloadsThread
  <2>5. CASE SurviveOverrun
    BY <2>5, AccountsKept DEF SurviveOverrun, TypeOK, ThreadOK, ThreadType
  <2>6. CASE UNCHANGED vars
    BY <2>6, AccountsKept DEF vars
  <2>7. QED
    BY <2>1, <2>2, <2>3, <2>4, <2>5, <2>6 DEF Next
<1>3. QED
  BY <1>1, <1>2, TypeCorrect, PTL DEF Spec

-----------------------------------------------------------------------------
(* Heat maps *)

(***************************************************************************)
(* ChunksConcatenate is not inductive by itself: the offset stays a whole  *)
(* number of groups because the size of the chunks was computed as one,    *)
(* from the MTU that chunk[] was sized by, while that of the entry may     *)
(* have changed.                                                           *)
(***************************************************************************)
HeatAligned ==
  Sending /\ thread.msg = "HEAT" =>
    /\ thread.off < Size["HEAT"] => thread.off % 3 = 0
    /\ thread.pc # "chunk" =>
         /\ thread.off % 3 = 0
         /\ thread.len % 3 = 0 \/ thread.off + thread.len = Size["HEAT"]

(* A send that has not begun is at the start of its message. *)
StartsAtZero == ~Sending => thread.off = 0

HeatInv == HeatAligned /\ StartsAtZero

LEMMA HeatKept ==
  ASSUME HeatInv, UNCHANGED thread
  PROVE  HeatInv'
BY DEF HeatInv, HeatAligned, StartsAtZero, Sending

(* Outside of serialSend() the locals of the next one are reset. *)
LEMMA HeatReset ==
  ASSUME ~Sending', thread'.off = 0
  PROVE  HeatInv'
BY DEF HeatInv, HeatAligned, StartsAtZero

LEMMA FinishResets ==
  ASSUME NEW m, Finish(m)
  PROVE  ~Sending' /\ thread'.off = 0
BY DEF Finish, Idle, Sending

LEMMA NextSlotResets ==
  ASSUME NextSlot
  PROVE  ~Sending' /\ thread'.off = 0
<1>1. CASE thread.slot < MaxConn
  BY <1>1 DEF NextSlot, Idle, Sending
<1>2. CASE ~(thread.slot < MaxConn)
  BY <1>2, FinishResets DEF NextSlot
<1>3. QED
  BY <1>1, <1>2

(* The steps of the module thread other than those of serialSend(). *)
OutsideSend == GetMessage \/ InitModule \/ AdvStop \/ SetStateAfterStop \/ CheckSlot

LEMMA OutsideStaysOut ==
  ASSUME TypeOK, StartsAtZero, OutsideSend
  PROVE  /\ thread.pc \in {"get", "init", "stop", "stopped", "slot"} /\ ~Sending
         /\ ~Sending' /\ thread'.off = 0
<1>1. thread.pc \in {"get", "init", "stop", "stopped", "slot"} /\ ~Sending
  BY DEF OutsideSend, GetMessage, InitModule, AdvStop, SetStateAfterStop, CheckSlot, Sending
<1>2. CASE \E m : Finish(m) \/ \E pc \in {"init", "slot"} : At(pc, m)
  <2>1. ASSUME NEW m, NEW pc \in {"init", "slot"}, At(pc, m)
        PROVE  ~Sending' /\ thread'.off = 0
    BY <2>1 DEF At, Idle, Sending
  <2>2. QED
    BY <1>1, <1>2, <2>1, FinishResets
<1>3. CASE \E goal, m : thread' = [Idle EXCEPT !.pc = "stop", !.msg = m, !.goal = goal]
  BY <1>1, <1>3 DEF Idle, Sending
<1>4. CASE \E pc \in {"stopped", "begin"} : thread' = [thread EXCEPT !.pc = pc]
  BY <1>1, <1>4 DEF TypeOK, ThreadOK, ThreadType, StartsAtZero, Sending
<1>5. CASE NextSlot
  BY <1>1, <1>5, NextSlotResets
<1>6. CASE GetMessage
  <2> DEFINE m == Head(msgq)
  <2>1. \/ Finish(m) \/ (\E pc \in {"init", "slot"} : At(pc, m))
        \/ thread' = [Idle EXCEPT !.pc = "stop", !.msg = m, !.goal = StopsAt[state]]
    BY <1>6 DEF GetMessage, OnStateInit, OnStateConnected, OnStateDisconnected
  <2> HIDE DEF m
  <2>2. QED
    BY <1>2, <1>3, <2>1
<1>7. CASE InitModule \/ SetStateAfterStop
  BY <1>2, <1>7 DEF InitModule, SetStateAfterStop
<1>8. CASE AdvStop \/ CheckSlot
  BY <1>4, <1>5, <1>8 DEF AdvStop, CheckSlot
<1>9. QED
  BY <1>6, <1>7, <1>8 DEF OutsideSend

(* The send begins at the first byte, with chunk[] as long as the MTU is. *)
LEMMA BeginsAtZero ==
  ASSUME TypeOK, StartsAtZero, SendBegin, ~NextSlot
  PROVE  /\ thread.pc = "begin" /\ thread.msg \in DataTypes /\ thread.slot \in Slots
         /\ ~Sending /\ Sending'
         /\ thread'.pc = "chunk" /\ thread'.msg = thread.msg
         /\ thread'.slot = thread.slot /\ thread'.off = 0
         /\ thread'.space = conns[thread.slot].mtu
         /\ UNCHANGED <<heard, orphan>>
<1>1. /\ thread.pc = "begin" /\ UNCHANGED <<heard, orphan>>
      /\ thread' = [thread EXCEPT !.pc = "chunk", !.space = conns[thread.slot].mtu]
  BY DEF SendBegin, ghosts
<1>2. thread.off = 0 /\ thread.msg \in DataTypes /\ thread.slot \in Slots
  BY <1>1 DEF StartsAtZero, TypeOK, ThreadOK, ThreadType, Sending
<1>3. QED
  BY <1>1, <1>2 DEF TypeOK, ThreadOK, ThreadType, Sending

(* One turn of the loop: what is taken, and where the thread goes. *)
LEMMA EncodeTakes ==
  ASSUME TypeOK, EncodeChunk
  PROVE  /\ thread'.msg = thread.msg /\ thread'.slot = thread.slot
         /\ thread'.off = thread.off /\ thread'.space = thread.space
         /\ Sending /\ Sending' /\ thread'.pc # "chunk"
         /\ thread'.len = ChunkLen(Size[thread.msg] - thread.off,
                                   IF thread.msg = "UART" THEN conns[thread.slot].mtu
                                   ELSE DecodedChunkSize(thread.space))
         /\ thread'.fits <=> \/ thread.msg = "UART"
                             \/ EncodeFits(thread'.len, conns[thread.slot].mtu)
         /\ thread'.pc = "overrun" <=>
              (IF thread.msg = "UART" THEN thread'.len
               ELSE IF thread'.fits THEN TextLen(thread'.len) ELSE 0) > thread.space
BY DEF EncodeChunk, TypeOK, ThreadOK, ThreadType, Sending

LEMMA NotifyMoves ==
  ASSUME TypeOK, Notify
  PROVE  /\ thread'.msg = thread.msg /\ thread'.slot = thread.slot
         /\ thread'.off = thread.off + thread.len /\ thread'.space = thread.space
         /\ thread.pc = "notify" /\ thread'.pc = "chunk" /\ Sending /\ Sending'
         /\ orphan' = orphan
BY DEF Notify, TypeOK, ThreadOK, ThreadType, Sending

LEMMA SurviveMoves ==
  ASSUME TypeOK, SurviveOverrun
  PROVE  /\ thread' = [thread EXCEPT !.pc = "notify"]
         /\ thread'.msg = thread.msg /\ thread'.slot = thread.slot
         /\ thread'.off = thread.off /\ thread'.space = thread.space
         /\ thread'.len = thread.len /\ thread'.fits = thread.fits
         /\ thread.pc = "overrun" /\ thread'.pc = "notify" /\ Sending /\ Sending'
         /\ UNCHANGED <<heard, orphan>>
BY DEF SurviveOverrun, TypeOK, ThreadOK, ThreadType, Sending, ghosts

LEMMA HeatStep == TypeOK /\ HeatInv /\ [Next]_vars => HeatInv'
<1> SUFFICES ASSUME TypeOK, HeatInv, [Next]_vars PROVE HeatInv'
  OBVIOUS
<1>1. CASE UNCHANGED thread
  BY <1>1, HeatKept
<1>2. CASE OutsideSend
  BY <1>2, OutsideStaysOut, HeatReset DEF HeatInv
<1>3. CASE SendBegin
  <2>1. CASE NextSlot
    BY <2>1, NextSlotResets, HeatReset
  <2>2. CASE ~NextSlot
    BY <1>3, <2>2, BeginsAtZero DEF HeatInv, HeatAligned, StartsAtZero
  <2>3. QED
    BY <2>1, <2>2
<1>4. CASE EncodeChunk
  <2> DEFINE left == Size["HEAT"] - thread.off
             room == DecodedChunkSize(thread.space)
  <2>1. CASE thread.msg # "HEAT"
    BY <1>4, <2>1, EncodeTakes DEF HeatInv, HeatAligned, StartsAtZero
  <2>2. CASE thread.msg = "HEAT"
    <3>1. thread'.len = ChunkLen(left, room)
      BY <1>4, <2>2, EncodeTakes
    <3>2. room % 3 = 0 /\ room \in Nat /\ left \in Nat
      BY <1>4, <2>2, ChunkTaken, UsableMtuFacts
    <3>3. thread.off < Size["HEAT"] /\ thread.off % 3 = 0
      BY <1>4, <2>2 DEF EncodeChunk, HeatInv, HeatAligned, Sending
    <3>4. thread.off \in Nat /\ Size["HEAT"] \in Nat
      BY BtAssumption DEF BtAssumption, DataTypes, TypeOK, ThreadOK, ThreadType
    <3>5. thread'.len % 3 = 0 \/ thread.off + thread'.len = Size["HEAT"]
      BY <3>1, <3>2, <3>4 DEF ChunkLen
    <3>6. QED
      BY <1>4, <3>3, <3>5, EncodeTakes DEF HeatInv, HeatAligned, StartsAtZero
  <2>3. QED
    BY <2>1, <2>2
<1>5. CASE Notify
  <2>1. CASE thread.msg # "HEAT"
    BY <1>5, <2>1, NotifyMoves DEF HeatInv, HeatAligned, StartsAtZero
  <2>2. CASE thread.msg = "HEAT"
    <3>1. /\ thread.off % 3 = 0
          /\ thread.len % 3 = 0 \/ thread.off + thread.len = Size["HEAT"]
      BY <1>5, <2>2, NotifyMoves DEF HeatInv, HeatAligned
    <3>2. thread.off \in Nat /\ thread.len \in Nat /\ Size["HEAT"] \in Nat
      BY BtAssumption DEF BtAssumption, DataTypes, TypeOK, ThreadOK, ThreadType
    <3>3. (thread.off + thread.len) % 3 = 0 \/ thread.off + thread.len = Size["HEAT"]
      BY <3>1, <3>2
    <3>4. QED
      BY <1>5, <3>2, <3>3, NotifyMoves DEF HeatInv, HeatAligned, StartsAtZero
  <2>3. QED
    BY <2>1, <2>2
<1>6. CASE SendEnd
  BY <1>6, NextSlotResets, HeatReset DEF SendEnd
<1>7. CASE SurviveOverrun
  BY <1>7, SurviveMoves DEF HeatInv, HeatAligned, StartsAtZero
<1>8. ModuleThread \/ SurviveOverrun \/ UNCHANGED thread
  BY DEF Next, Submit, Workqueue, HandleEvent, PutResumes, BtReady, AdvertiseBegin,
         AdvertiseEnd, BtRx, ConnectFails, Connected, Disconnected, ExchangeFunc,
         CccWrite, vars
<1>9. QED
  BY <1>1, <1>2, <1>3, <1>4, <1>5, <1>6, <1>7, <1>8 DEF ModuleThread, OutsideSend

(***************************************************************************)
(* A heat map can be decoded by appending the texts of its chunks, for     *)
(* every size of heat map, every MTU a peer may negotiate and every        *)
(* interleaving of the callbacks with the loop that sends.                 *)
(***************************************************************************)
THEOREM ChunksCorrect == Spec => []ChunksConcatenate
<1>1. Init => HeatInv
  BY DEF Init, Idle, HeatInv, HeatAligned, StartsAtZero, Sending
<1>2. TypeOK /\ HeatInv /\ [Next]_vars => HeatInv'
  BY HeatStep
<1>3. HeatInv => ChunksConcatenate
  BY DEF HeatInv, HeatAligned, ChunksConcatenate, Sending
<1>4. QED
  BY <1>1, <1>2, <1>3, TypeCorrect, PTL DEF Spec

-----------------------------------------------------------------------------
(* The entries of conns[] *)

(* The loops over conns[] find the first entry of those they look for. *)
LEMMA FirstExists ==
  ASSUME NEW S, S \subseteq Slots, S # {}
  PROVE  FirstOf(S) \in S
<1> DEFINE less == OpToRel(<, Nat)
<1>1. S \subseteq Nat
  BY BtAssumption DEF Slots, BtAssumption
<1>2. IsWellFoundedOn(less, Nat)
  BY NatLessThanWellFounded
<1>3. \A x, y \in Nat : y < x => <<y, x>> \in less
  BY DEF OpToRel
<1> HIDE DEF less
<1>4. PICK x \in S : \A y \in S : ~(<<y, x>> \in less)
  BY <1>1, <1>2, WFMin
<1>5. ASSUME NEW y \in S PROVE x <= y
  <2>1. x \in Nat /\ y \in Nat /\ ~(<<y, x>> \in less)
    BY <1>1, <1>4
  <2>2. ~(y < x)
    BY <1>3, <2>1
  <2>3. QED
    BY <2>1, <2>2
<1>6. QED
  BY <1>5 DEF FirstOf

(* The host has no room for a peer without a free entry for it. *)
LEMMA RoomMeansFreeEntry ==
  ASSUME TypeOK, SlotsMatchPeers, HostHasRoom
  PROVE  FreeSlots # {}
<1> SUFFICES ASSUME FreeSlots = {} PROVE FALSE
  OBVIOUS
<1> DEFINE f == [s \in Slots |-> conns[s].conn]
<1>1. IsFiniteSet(Slots) /\ Cardinality(Slots) = MaxConn
  BY FS_Interval, BtAssumption DEF Slots, BtAssumption
<1>2. \A s \in Slots : conns[s].conn # None
  BY DEF FreeSlots, SlotsOf
<1>3. linked = {f[s] : s \in Slots}
  BY <1>2 DEF SlotsMatchPeers
<1>4. f \in Surjection(Slots, linked)
  BY <1>3 DEF Surjection
<1>5. f \in Injection(Slots, linked)
  BY <1>2, <1>3 DEF Injection, IsInjective, SlotsMatchPeers
<1>6. IsFiniteSet(linked) /\ Cardinality(linked) \in Nat
  BY <1>1, <1>4, FS_Surjection, FS_CardinalityType
<1>7. Cardinality(Slots) <= Cardinality(linked)
  BY <1>5, <1>6, FS_Injection
<1>8. QED
  BY <1>1, <1>6, <1>7, BtAssumption DEF HostHasRoom, BtAssumption

LEMMA SlotsConnected ==
  ASSUME TypeOK, SlotsMatchPeers, NEW p \in Peers, Connected(p)
  PROVE  SlotsMatchPeers'
<1> DEFINE t == FirstOf(FreeSlots)
<1>1. t \in Slots /\ conns[t].conn = None /\ FreeSlots # {}
  BY RoomMeansFreeEntry, FirstExists DEF Connected, FreeSlots, SlotsOf
<1>2. p \notin linked /\ linked' = linked \union {p} /\ p # None
  BY BtAssumption DEF Connected, BtAssumption
<1>3. \A s \in Slots : conns'[s].conn = IF s = t THEN p ELSE conns[s].conn
  BY <1>1 DEF Connected, TypeOK, LinksOK, SlotType
<1> HIDE DEF t
<1>4. \A s \in Slots : conns[s].conn # p
  BY <1>2 DEF SlotsMatchPeers
<1>5. linked' = {conns'[s].conn : s \in Slots} \ {None}
  BY <1>1, <1>2, <1>3 DEF SlotsMatchPeers
<1>6. \A s, r \in Slots : conns'[s].conn = conns'[r].conn /\ s # r => conns'[s].conn = None
  BY <1>2, <1>3, <1>4 DEF SlotsMatchPeers
<1>7. QED
  BY <1>5, <1>6 DEF SlotsMatchPeers

LEMMA SlotsDisconnected ==
  ASSUME TypeOK, SlotsMatchPeers, NEW p \in Peers, Disconnected(p)
  PROVE  SlotsMatchPeers'
<1> DEFINE t == FirstOf(SlotsOf(p))
<1>1. p \in linked /\ linked' = linked \ {p} /\ p # None
  BY BtAssumption DEF Disconnected, BtAssumption
<1>2. SlotsOf(p) # {} /\ SlotsOf(p) \subseteq Slots
  BY <1>1 DEF SlotsMatchPeers, SlotsOf
<1>3. t \in Slots /\ conns[t].conn = p
  BY <1>2, FirstExists DEF SlotsOf
<1>4. \A s \in Slots : conns'[s].conn = IF s = t THEN None ELSE conns[s].conn
  BY <1>2 DEF Disconnected, TypeOK, LinksOK, SlotType
<1> HIDE DEF t
<1>5. \A s \in Slots : conns[s].conn = p => s = t
  BY <1>1, <1>3 DEF SlotsMatchPeers
<1>6. linked' = {conns'[s].conn : s \in Slots} \ {None}
  BY <1>1, <1>3, <1>4, <1>5 DEF SlotsMatchPeers
<1>7. \A s, r \in Slots : conns'[s].conn = conns'[r].conn /\ s # r => conns'[s].conn = None
  BY <1>3, <1>4 DEF SlotsMatchPeers
<1>8. QED
  BY <1>6, <1>7 DEF SlotsMatchPeers

(* Steps that change neither the host's connections nor the entries'. *)
LEMMA SlotsKept ==
  ASSUME SlotsMatchPeers, linked' = linked,
         \A s \in Slots : conns'[s].conn = conns[s].conn
  PROVE  SlotsMatchPeers'
<1>1. {conns'[s].conn : s \in Slots} = {conns[s].conn : s \in Slots}
  OBVIOUS
<1>2. QED
  BY <1>1 DEF SlotsMatchPeers

(***************************************************************************)
(* conns[] is the host's set of connections for every CONFIG_BT_MAX_CONN:  *)
(* a peer the host accepts always finds an entry, although conn_cnt, which *)
(* should count them, is never incremented.                                *)
(***************************************************************************)
THEOREM SlotsCorrect == Spec => []SlotsMatchPeers
<1>1. Init => SlotsMatchPeers
  <2> SUFFICES ASSUME Init PROVE SlotsMatchPeers
    OBVIOUS
  <2>1. linked = {} /\ \A s \in Slots : conns[s].conn = None
    BY DEF Init, EmptySlot
  <2>2. QED
    BY <2>1 DEF SlotsMatchPeers
<1>2. TypeOK /\ SlotsMatchPeers /\ [Next]_vars => SlotsMatchPeers'
  <2> SUFFICES ASSUME TypeOK, SlotsMatchPeers, [Next]_vars PROVE SlotsMatchPeers'
    OBVIOUS
  <2>1. CASE UNCHANGED <<linked, conns>>
    BY <2>1, SlotsKept
  <2>2. ASSUME NEW p \in Peers, Connected(p) PROVE SlotsMatchPeers'
    BY <2>2, SlotsConnected
  <2>3. ASSUME NEW p \in Peers, Disconnected(p) PROVE SlotsMatchPeers'
    BY <2>3, SlotsDisconnected
  <2>4. ASSUME NEW p \in Peers, ExchangeFunc(p) PROVE SlotsMatchPeers'
    BY <2>4, SlotsKept DEF ExchangeFunc, TypeOK, LinksOK, SlotType
  <2>5. ASSUME NEW p \in Peers, NEW on \in BOOLEAN, CccWrite(p, on) PROVE SlotsMatchPeers'
    BY <2>5, SlotsKept DEF CccWrite, TypeOK, LinksOK, SlotType
  <2>6. CASE ConnectFails
    BY <2>1, <2>6 DEF ConnectFails, link
  <2>7. CASE Workqueue \/ ModuleThread \/ SurviveOverrun \/ (\E e \in Inputs : Submit(e))
    BY <2>1, <2>7
       DEF Workqueue, HandleEvent, PutResumes, BtReady, AdvertiseBegin, AdvertiseEnd,
           ModuleThread, GetMessage, InitModule, AdvStop, SetStateAfterStop, CheckSlot,
           SendBegin, EncodeChunk, Notify, SendEnd, SurviveOverrun, Submit, link
  <2>8. CASE UNCHANGED vars
    BY <2>1, <2>8 DEF vars, link
  <2>9. QED
    BY <2>2, <2>3, <2>4, <2>5, <2>6, <2>7, <2>8 DEF Next, BtRx
<1>3. QED
  BY <1>1, <1>2, TypeCorrect, PTL DEF Spec

-----------------------------------------------------------------------------
(* Chunks that outgrow chunk[] *)

(***************************************************************************)
(* An entry has a usable MTU only while it has a peer, and only after the  *)
(* one MTU exchange of that peer.                                          *)
(***************************************************************************)
MtuOfPeer ==
  \A s \in Slots : conns[s].mtu # 0 => /\ conns[s].conn # None
                                       /\ conns[s].conn \notin exchanging

(***************************************************************************)
(* While a send goes on and its entry has not lost its peer, the MTU that  *)
(* chunk[] was sized by is still that of the entry, once it was exchanged. *)
(***************************************************************************)
SpaceIsMtu ==
  Sending /\ ~orphan /\ thread.space # 0 => conns[thread.slot].mtu = thread.space

RoomInv == MtuOfPeer /\ SpaceIsMtu /\ OverrunsNeedLateMtu

(* What the callbacks of the BT RX thread do to an entry. *)
LEMMA EntryConnected ==
  ASSUME TypeOK, SlotsMatchPeers, NEW p \in Peers, Connected(p), NEW s \in Slots
  PROVE  /\ p # None /\ \A r \in Slots : conns[r].conn # p
         /\ \/ conns'[s] = conns[s]
            \/ conns[s].conn = None /\ conns'[s].conn = p /\ conns'[s].mtu = 0
<1> DEFINE t == FirstOf(FreeSlots)
<1>1. p # None /\ \A r \in Slots : conns[r].conn # p
  BY BtAssumption DEF BtAssumption, Connected, SlotsMatchPeers
<1>2. t \in Slots /\ conns[t].conn = None /\ FreeSlots # {}
  BY RoomMeansFreeEntry, FirstExists DEF Connected, FreeSlots, SlotsOf
<1> HIDE DEF t
<1>3. conns'[s] = IF s = t THEN [conns[s] EXCEPT !.conn = p, !.mtu = 0] ELSE conns[s]
  BY <1>2 DEF Connected, t
<1>4. conns[s] \in SlotType
  BY DEF TypeOK, LinksOK
<1>5. QED
  BY <1>1, <1>2, <1>3, <1>4 DEF SlotType

LEMMA EntryDisconnected ==
  ASSUME TypeOK, SlotsMatchPeers, NEW p \in Peers, Disconnected(p), NEW s \in Slots
  PROVE  IF conns[s].conn = p THEN conns'[s].conn = None /\ conns'[s].mtu = 0
         ELSE conns'[s] = conns[s]
<1> DEFINE mine == SlotsOf(p)
<1>1. p \in linked /\ p # None
  BY BtAssumption DEF Disconnected, BtAssumption
<1>2. mine # {} /\ mine \subseteq Slots
  BY <1>1 DEF SlotsMatchPeers, SlotsOf
<1>3. FirstOf(mine) \in Slots /\ conns[FirstOf(mine)].conn = p
  BY <1>2, FirstExists DEF SlotsOf
<1>4. conns[s].conn = p <=> s = FirstOf(mine)
  BY <1>1, <1>3 DEF SlotsMatchPeers
<1>5. conns'[s] = IF s = FirstOf(mine) THEN [conns[s] EXCEPT !.conn = None, !.mtu = 0]
                  ELSE conns[s]
  BY <1>2 DEF Disconnected
<1>6. conns[s] \in SlotType
  BY DEF TypeOK, LinksOK
<1>7. QED
  BY <1>4, <1>5, <1>6 DEF SlotType

LEMMA EntryExchanged ==
  ASSUME TypeOK, SlotsMatchPeers, NEW p \in Peers, ExchangeFunc(p), NEW s \in Slots
  PROVE  /\ conns'[s].conn = conns[s].conn
         /\ conns[s].conn # p => conns'[s] = conns[s]
         /\ p \in exchanging /\ exchanging' = exchanging \ {p} /\ p # None
<1>1. p \in linked /\ p \in exchanging /\ exchanging' = exchanging \ {p} /\ p # None
  BY BtAssumption DEF ExchangeFunc, TypeOK, LinksOK, BtAssumption
<1>2. SlotsOf(p) # {} /\ SlotsOf(p) \subseteq Slots
  BY <1>1 DEF SlotsMatchPeers, SlotsOf
<1>3. conns[FirstOf(SlotsOf(p))].conn = p
  BY <1>2, FirstExists DEF SlotsOf
<1>4. conns[s] \in SlotType
  BY DEF TypeOK, LinksOK
<1>5. conns'[s] = conns[s] \/ (s = FirstOf(SlotsOf(p))
                                /\ \E mtu : conns'[s] = [conns[s] EXCEPT !.mtu = mtu])
  BY DEF ExchangeFunc
<1>6. QED
  BY <1>1, <1>3, <1>4, <1>5 DEF SlotType

LEMMA EntryCcc ==
  ASSUME TypeOK, NEW p \in Peers, NEW on \in BOOLEAN, CccWrite(p, on), NEW s \in Slots
  PROVE  conns'[s].conn = conns[s].conn /\ conns'[s].mtu = conns[s].mtu
BY DEF CccWrite, TypeOK, LinksOK, SlotType

LEMMA MtuStep ==
  ASSUME TypeOK, SlotsMatchPeers, MtuOfPeer, [Next]_vars
  PROVE  MtuOfPeer'
<1>1. CASE UNCHANGED <<conns, exchanging>>
  BY <1>1 DEF MtuOfPeer
<1>2. ASSUME NEW p \in Peers, Connected(p) PROVE MtuOfPeer'
  <2>1. ASSUME NEW s \in Slots, conns'[s].mtu # 0
        PROVE  conns'[s].conn # None /\ conns'[s].conn \notin exchanging'
    <3>1. conns'[s] = conns[s] /\ conns[s].conn # p
      BY <1>2, <2>1, EntryConnected
    <3>2. exchanging' \subseteq exchanging \union {p}
      BY <1>2 DEF Connected
    <3>3. QED
      BY <2>1, <3>1, <3>2 DEF MtuOfPeer
  <2>2. QED
    BY <2>1 DEF MtuOfPeer
<1>3. ASSUME NEW p \in Peers, Disconnected(p) PROVE MtuOfPeer'
  <2>1. exchanging' = exchanging \ {p}
    BY <1>3 DEF Disconnected
  <2>2. QED
    BY <1>3, <2>1, EntryDisconnected DEF MtuOfPeer
<1>4. ASSUME NEW p \in Peers, ExchangeFunc(p) PROVE MtuOfPeer'
  <2>1. ASSUME NEW s \in Slots, conns'[s].mtu # 0
        PROVE  conns'[s].conn # None /\ conns'[s].conn \notin exchanging'
    <3>1. /\ conns'[s].conn = conns[s].conn
          /\ conns[s].conn # p => conns'[s] = conns[s]
          /\ exchanging' = exchanging \ {p} /\ p # None
      BY <1>4, EntryExchanged
    <3>2. QED
      BY <2>1, <3>1 DEF MtuOfPeer
  <2>2. QED
    BY <2>1 DEF MtuOfPeer
<1>5. ASSUME NEW p \in Peers, NEW on \in BOOLEAN, CccWrite(p, on) PROVE MtuOfPeer'
  <2>1. exchanging' = exchanging
    BY <1>5 DEF CccWrite
  <2>2. QED
    BY <1>5, <2>1, EntryCcc DEF MtuOfPeer
<1>6. \/ UNCHANGED <<conns, exchanging>>
      \/ \E p \in Peers : \/ Connected(p) \/ Disconnected(p) \/ ExchangeFunc(p)
                          \/ \E on \in BOOLEAN : CccWrite(p, on)
  BY DEF Next, Submit, Workqueue, HandleEvent, PutResumes, BtReady, AdvertiseBegin,
         AdvertiseEnd, BtRx, ConnectFails, ModuleThread, GetMessage, InitModule, AdvStop,
         SetStateAfterStop, CheckSlot, SendBegin, EncodeChunk, Notify, SendEnd,
         SurviveOverrun, link, vars
<1>7. QED
  BY <1>1, <1>2, <1>3, <1>4, <1>5, <1>6

(***************************************************************************)
(* The callbacks leave the thread where it is, and the entry it sends      *)
(* through as it is for the send, unless the entry loses its peer.         *)
(***************************************************************************)
LEMMA RxKeepsEntry ==
  ASSUME TypeOK, SlotsMatchPeers, MtuOfPeer, BtRx, Sending
  PROVE  /\ thread' = thread /\ Sending' /\ (orphan => orphan')
         /\ ~orphan' => \/ conns'[thread.slot].mtu = conns[thread.slot].mtu
                        \/ conns[thread.slot].mtu = 0
<1> DEFINE s == thread.slot
<1>0. s \in Slots
  BY DEF TypeOK, ThreadOK, ThreadType
<1>1. thread' = thread /\ Sending' /\ (orphan => orphan')
  <2>1. thread' = thread
    BY DEF BtRx, ConnectFails, Connected, Disconnected, ExchangeFunc, CccWrite
  <2>2. ASSUME orphan PROVE orphan'
    <3>1. ASSUME NEW p \in Peers, Disconnected(p) PROVE orphan'
      BY <2>2, <3>1 DEF Disconnected
    <3>2. CASE orphan' = orphan
      BY <2>2, <3>2
    <3>3. orphan' = orphan \/ \E p \in Peers : Disconnected(p)
      BY DEF BtRx, ConnectFails, Connected, ExchangeFunc, CccWrite, ghosts
    <3>4. QED
      BY <3>1, <3>2, <3>3
  <2>3. QED
    BY <2>1, <2>2 DEF Sending
<1> HIDE DEF s
<1>2. ASSUME NEW p \in Peers, Connected(p), conns[s].mtu # 0
      PROVE  conns'[s].mtu = conns[s].mtu
  BY <1>0, <1>2, EntryConnected DEF MtuOfPeer
<1>3. ASSUME NEW p \in Peers, Disconnected(p), ~orphan' PROVE conns'[s].mtu = conns[s].mtu
  <2>1. conns[s].conn # p
    BY <1>3 DEF Disconnected, SentThrough, s
  <2>2. QED
    BY <1>0, <1>3, <2>1, EntryDisconnected
<1>4. ASSUME NEW p \in Peers, ExchangeFunc(p), conns[s].mtu # 0
      PROVE  conns'[s].mtu = conns[s].mtu
  BY <1>0, <1>4, EntryExchanged DEF MtuOfPeer
<1>5. ASSUME NEW p \in Peers, NEW on \in BOOLEAN, CccWrite(p, on)
      PROVE  conns'[s].mtu = conns[s].mtu
  BY <1>0, <1>5, EntryCcc
<1>6. ASSUME ConnectFails PROVE conns'[s].mtu = conns[s].mtu
  BY <1>6 DEF ConnectFails, link
<1>7. QED
  BY <1>1, <1>2, <1>3, <1>4, <1>5, <1>6 DEF BtRx, s

(* The steps that neither a callback nor the thread in serialSend() takes. *)
LEMMA StepKinds ==
  ASSUME [Next]_vars
  PROVE  \/ UNCHANGED <<thread, conns, linked, exchanging, heard, orphan>>
         \/ BtRx \/ OutsideSend \/ SendBegin \/ EncodeChunk \/ Notify \/ SendEnd
         \/ SurviveOverrun
BY DEF Next, Submit, Workqueue, HandleEvent, PutResumes, BtReady, AdvertiseBegin,
       AdvertiseEnd, ModuleThread, OutsideSend, link, ghosts, vars

(* The thread's own steps do not touch the entries. *)
LEMMA ThreadKeepsEntries ==
  ASSUME OutsideSend \/ SendBegin \/ EncodeChunk \/ Notify \/ SendEnd \/ SurviveOverrun
  PROVE  UNCHANGED <<conns, linked, exchanging>>
BY DEF OutsideSend, GetMessage, InitModule, AdvStop, SetStateAfterStop, CheckSlot,
       SendBegin, EncodeChunk, Notify, SendEnd, SurviveOverrun, link

(* A chunk of a heat map never takes more than chunk[] has. *)
LEMMA HeatChunkFits ==
  ASSUME TypeOK, EncodeChunk, thread.msg = "HEAT"
  PROVE  /\ thread'.len \in Nat /\ TextLen(thread'.len) <= thread.space
         /\ thread.space = 0 => thread'.len = 0
         /\ conns[thread.slot].mtu = thread.space \/ thread.space = 0 => thread'.fits
<1> DEFINE room == DecodedChunkSize(thread.space)
           len == thread'.len
<1>1. thread'.fits <=> EncodeFits(len, conns[thread.slot].mtu)
  BY EncodeTakes
<1>2. len \in Nat /\ len <= room /\ room \in Nat /\ thread.space \in Nat
  <2>1. len = ChunkLen(Size[thread.msg] - thread.off, room)
    BY EncodeTakes
  <2>2. room \in Nat /\ thread.space \in Nat /\ Size[thread.msg] - thread.off \in Nat
    BY ChunkTaken
  <2>3. QED
    BY <2>1, <2>2 DEF ChunkLen
<1>3. CASE thread.space = 0
  <2>1. room = 0 /\ len = 0
    BY <1>2, <1>3 DEF DecodedChunkSize
  <2>2. QED
    BY <1>1, <1>2, <1>3, <2>1 DEF TextLen, EncodeFits
<1>4. CASE thread.space # 0
  <2>1. PICK att \in AttMtus : thread.space = FixedMtu(att)
    BY <1>4, ChunkTaken DEF UsableMtus
  <2>2. thread.space % 4 = 1 /\ thread.space > 1
    BY <2>1, BtAssumption, FixedMtuAligned DEF BtAssumption
  <2>3. EncodedLen(room) + 1 = thread.space
    BY <1>2, <2>2, ChunkFillsMtu
  <2>4. EncodedLen(len) <= EncodedLen(room) /\ EncodedLen(len) \in Nat
                                             /\ EncodedLen(room) \in Nat
    BY <1>2, EncodedLenMonotonic DEF EncodedLen
  <2>5. QED
    BY <1>1, <1>2, <1>4, <2>3, <2>4 DEF TextLen, EncodeFits
<1>5. QED
  BY <1>3, <1>4

LEMMA RoomStep ==
  ASSUME TypeOK, HeatInv, SlotsMatchPeers, RoomInv, [Next]_vars
  PROVE  RoomInv'
<1>1. MtuOfPeer'
  BY MtuStep DEF RoomInv
<1>2. ASSUME ~Sending' PROVE RoomInv'
  BY <1>1, <1>2 DEF RoomInv, SpaceIsMtu, OverrunsNeedLateMtu, Sending
<1>3. CASE UNCHANGED <<thread, conns, linked, exchanging, heard, orphan>>
  BY <1>1, <1>3 DEF RoomInv, SpaceIsMtu, OverrunsNeedLateMtu, Sending
<1>4. CASE BtRx
  <2>1. CASE Sending
    BY <1>1, <1>4, <2>1, RxKeepsEntry DEF RoomInv, SpaceIsMtu, OverrunsNeedLateMtu
  <2>2. CASE ~Sending
    <3>1. ~Sending'
      BY <1>4, <2>2
         DEF BtRx, ConnectFails, Connected, Disconnected, ExchangeFunc, CccWrite, Sending
    <3>2. QED
      BY <1>2, <3>1
  <2>3. QED
    BY <2>1, <2>2
<1>5. CASE OutsideSend
  BY <1>2, <1>5, OutsideStaysOut DEF HeatInv
<1>6. CASE SendBegin
  <2>1. CASE NextSlot
    BY <1>2, <2>1, NextSlotResets
  <2>2. CASE ~NextSlot
    BY <1>1, <1>6, <2>2, BeginsAtZero, ThreadKeepsEntries
       DEF RoomInv, SpaceIsMtu, OverrunsNeedLateMtu, HeatInv
  <2>3. QED
    BY <2>1, <2>2
<1>7. CASE EncodeChunk
  <2>1. SpaceIsMtu'
    <3>1. orphan' = orphan
      BY <1>7 DEF EncodeChunk, ghosts
    <3>2. QED
      BY <1>7, <3>1, EncodeTakes, ThreadKeepsEntries DEF RoomInv, SpaceIsMtu
  <2>2. CASE thread.msg = "HEAT"
    <3>1. TextLen(thread'.len) <= thread.space /\ thread.space \in Nat /\ thread'.len \in Nat
      BY <1>7, <2>2, HeatChunkFits, ChunkTaken
    <3>2. TextLen(thread'.len) \in Nat
      BY <3>1 DEF TextLen, EncodedLen
    <3>3. thread'.pc # "overrun"
      BY <1>7, <2>2, <3>1, <3>2, EncodeTakes
    <3>4. QED
      BY <1>1, <2>1, <3>3 DEF RoomInv, OverrunsNeedLateMtu
  <2>3. CASE thread.msg = "UART"
    <3>1. ASSUME thread.space # 0, ~orphan PROVE thread'.pc # "overrun"
      <4>1. conns[thread.slot].mtu = thread.space
        BY <1>7, <3>1, EncodeTakes DEF RoomInv, SpaceIsMtu
      <4>2. thread'.len <= thread.space /\ thread'.len \in Nat /\ thread.space \in Nat
        BY <1>7, <2>3, <4>1, EncodeTakes, ChunkTaken
      <4>3. QED
        BY <1>7, <2>3, <4>2, EncodeTakes
    <3>2. thread'.msg = "UART" /\ thread'.space = thread.space /\ orphan' = orphan
      BY <1>7, <2>3, EncodeTakes DEF EncodeChunk, ghosts
    <3>3. QED
      BY <1>1, <2>1, <3>1, <3>2 DEF RoomInv, OverrunsNeedLateMtu
  <2>4. QED
    BY <1>7, <2>2, <2>3, ChunkTaken DEF DataTypes
<1>8. CASE Notify
  BY <1>1, <1>8, NotifyMoves, ThreadKeepsEntries
     DEF RoomInv, SpaceIsMtu, OverrunsNeedLateMtu
<1>9. CASE SendEnd
  BY <1>2, <1>9, NextSlotResets DEF SendEnd
<1>10. CASE SurviveOverrun
  BY <1>1, <1>10, SurviveMoves, ThreadKeepsEntries
     DEF RoomInv, SpaceIsMtu, OverrunsNeedLateMtu
<1>11. QED
  BY <1>3, <1>4, <1>5, <1>6, <1>7, <1>8, <1>9, <1>10, StepKinds

LEMMA RoomInit == Init => RoomInv
BY DEF Init, Idle, EmptySlot, RoomInv, MtuOfPeer, SpaceIsMtu, OverrunsNeedLateMtu, Sending

(***************************************************************************)
(* For every MTU and message size, and whatever the peers do: chunk[] is   *)
(* only ever overrun by data of the bridge, in a send that began before    *)
(* the MTU exchange or through an entry that has lost its peer since.      *)
(***************************************************************************)
THEOREM OverrunsCorrect == Spec => []OverrunsNeedLateMtu
<1>1. Init => HeatInv
  BY DEF Init, Idle, HeatInv, HeatAligned, StartsAtZero, Sending
<1>2. RoomInv => OverrunsNeedLateMtu
  BY DEF RoomInv
<1>3. QED
  BY <1>1, <1>2, RoomInit, HeatStep, RoomStep, TypeCorrect, SlotsCorrect, PTL DEF Spec

-----------------------------------------------------------------------------
(* Whole messages *)

(* Where the thread has no data message, and nothing of one can be heard. *)
Resting == thread.pc \in {"get", "init", "stop", "stopped"}

(***************************************************************************)
(* The locals of serialSend() against the entry it sends through: an entry *)
(* without a peer takes nothing from the message, as it has no MTU, unless *)
(* a peer has left it since the send began.                                *)
(***************************************************************************)
LocalsMatchEntry ==
  Sending =>
    /\ thread.off <= Size[thread.msg]
    /\ ~orphan /\ conns[thread.slot].conn = None => thread.off = 0
    /\ thread.pc # "chunk" =>
         /\ thread.off + thread.len <= Size[thread.msg]
         /\ ~orphan => /\ thread.fits
                       /\ conns[thread.slot].conn = None => thread.len = 0

(***************************************************************************)
(* HeardWholeOrNot is what is left at the end of a send.  While it lasts   *)
(* the peer in the entry has heard the bytes passed, the peers in later    *)
(* entries and those not connected nothing, all others all or nothing.     *)
(***************************************************************************)
OrphanHeard == orphan => Sending /\ \A p \in Peers : heard[p] = None
RestingHeard ==
  Resting => thread.msg \notin DataTypes /\ \A p \in Peers : heard[p] = 0
UnlinkedHeard == \A p \in Peers : p \notin linked => heard[p] \in {0, None}
LaterHeard ==
  \A p \in Peers, s \in Slots :
    /\ conns[s].conn = p
    /\ s > thread.slot \/ (s = thread.slot /\ ~Sending)
    => heard[p] \in {0, None}
EntryHeard ==
  \A p \in Peers :
    Sending /\ conns[thread.slot].conn = p => heard[p] \in {thread.off, None}
OthersHeard ==
  \A p \in Peers :
    \/ heard[p] \in {0, None, Size[thread.msg]}
    \/ Sending /\ conns[thread.slot].conn = p

HeardInv ==
  /\ OrphanHeard
  /\ RestingHeard
  /\ UnlinkedHeard
  /\ LaterHeard
  /\ EntryHeard
  /\ OthersHeard

(* The entry that is sent through, when a callback comes in between. *)
LEMMA RxKeepsPeer ==
  ASSUME TypeOK, SlotsMatchPeers, BtRx, Sending, ~orphan'
  PROVE  \/ conns'[thread.slot].conn = conns[thread.slot].conn
         \/ conns[thread.slot].conn = None /\ conns'[thread.slot].conn # None
<1> DEFINE s == thread.slot
<1>1. s \in Slots
  BY DEF TypeOK, ThreadOK, ThreadType
<1> HIDE DEF s
<1>2. ASSUME NEW p \in Peers, Connected(p)
      PROVE  conns'[s].conn = conns[s].conn \/ (conns[s].conn = None /\ conns'[s].conn # None)
  BY <1>1, <1>2, EntryConnected
<1>3. ASSUME NEW p \in Peers, Disconnected(p) PROVE conns'[s].conn = conns[s].conn
  <2>1. conns[s].conn # p
    BY <1>3 DEF Disconnected, SentThrough, s
  <2>2. QED
    BY <1>1, <1>3, <2>1, EntryDisconnected
<1>4. ASSUME NEW p \in Peers, ExchangeFunc(p) PROVE conns'[s].conn = conns[s].conn
  BY <1>1, <1>4, EntryExchanged
<1>5. ASSUME NEW p \in Peers, NEW on \in BOOLEAN, CccWrite(p, on)
      PROVE  conns'[s].conn = conns[s].conn
  BY <1>1, <1>5, EntryCcc
<1>6. ASSUME ConnectFails PROVE conns'[s].conn = conns[s].conn
  BY <1>6 DEF ConnectFails, link
<1>7. QED
  BY <1>2, <1>3, <1>4, <1>5, <1>6 DEF BtRx, s

LEMMA RxRests ==
  ASSUME BtRx, ~Sending
  PROVE  ~Sending'
BY DEF BtRx, ConnectFails, Connected, Disconnected, ExchangeFunc, CccWrite, Sending

LEMMA LocalsStep ==
  ASSUME TypeOK, HeatInv, SlotsMatchPeers, RoomInv, LocalsMatchEntry, [Next]_vars
  PROVE  LocalsMatchEntry'
<1>1. ASSUME ~Sending' PROVE LocalsMatchEntry'
  BY <1>1 DEF LocalsMatchEntry
<1>2. CASE UNCHANGED <<thread, conns, linked, exchanging, heard, orphan>>
  BY <1>2 DEF LocalsMatchEntry, Sending
<1>3. CASE BtRx
  <2>1. CASE Sending
    BY <1>3, <2>1, RxKeepsEntry, RxKeepsPeer DEF RoomInv, LocalsMatchEntry
  <2>2. QED
    BY <1>1, <1>3, <2>1, RxRests
<1>4. CASE OutsideSend
  BY <1>1, <1>4, OutsideStaysOut DEF HeatInv
<1>5. CASE SendBegin
  <2>1. CASE NextSlot
    BY <1>1, <2>1, NextSlotResets
  <2>2. CASE ~NextSlot
    <3>1. 0 <= Size[thread.msg]
      BY <1>5, <2>2, BeginsAtZero, BtAssumption DEF HeatInv, BtAssumption
    <3>2. QED
      BY <1>5, <2>2, <3>1, BeginsAtZero DEF HeatInv, LocalsMatchEntry
  <2>3. QED
    BY <2>1, <2>2
<1>6. CASE EncodeChunk
  <2> DEFINE mtu == conns[thread.slot].mtu
             left == Size[thread.msg] - thread.off
  <2>1. /\ thread.msg \in DataTypes /\ thread.slot \in Slots /\ left \in Nat
        /\ mtu \in Nat /\ thread.space \in Nat /\ DecodedChunkSize(thread.space) \in Nat
    BY <1>6, ChunkTaken
  <2>2. thread'.len = ChunkLen(left, IF thread.msg = "UART" THEN mtu
                                     ELSE DecodedChunkSize(thread.space))
    BY <1>6, EncodeTakes
  <2>3. thread'.len \in 0 .. left /\ (thread.msg = "UART" => thread'.len <= mtu)
    BY <2>1, <2>2 DEF ChunkLen
  <2>4. thread.off \in Nat /\ Size[thread.msg] \in Nat
    BY <2>1, BtAssumption DEF BtAssumption, TypeOK, ThreadOK, ThreadType
  <2>5. thread.off + thread'.len <= Size[thread.msg]
    BY <2>3, <2>4
  <2>6. orphan' = orphan /\ conns' = conns
    BY <1>6, ThreadKeepsEntries DEF EncodeChunk, ghosts
  <2>7. ~orphan => thread.space = 0 \/ mtu = thread.space
    BY <1>6, EncodeTakes DEF RoomInv, SpaceIsMtu
  <2>8. conns[thread.slot].conn = None => mtu = 0
    BY <2>1 DEF RoomInv, MtuOfPeer
  <2>9. CASE thread.msg = "UART"
    <3>1. thread'.fits
      BY <1>6, <2>9, EncodeTakes
    <3>2. conns[thread.slot].conn = None => thread'.len = 0
      BY <2>1, <2>3, <2>8, <2>9
    <3>3. QED
      BY <1>6, <2>5, <2>6, <3>1, <3>2, EncodeTakes DEF LocalsMatchEntry
  <2>10. CASE thread.msg = "HEAT"
    <3>1. ~orphan => thread'.fits
      BY <1>6, <2>7, <2>10, HeatChunkFits
    <3>2. ~orphan /\ conns[thread.slot].conn = None => thread'.len = 0
      BY <1>6, <2>7, <2>8, <2>10, HeatChunkFits
    <3>3. QED
      BY <1>6, <2>5, <2>6, <3>1, <3>2, EncodeTakes DEF LocalsMatchEntry
  <2>11. QED
    BY <2>1, <2>9, <2>10 DEF DataTypes
<1>7. CASE Notify
  BY <1>7, NotifyMoves, ThreadKeepsEntries DEF LocalsMatchEntry
<1>8. CASE SendEnd
  BY <1>1, <1>8, NextSlotResets DEF SendEnd
<1>9. CASE SurviveOverrun
  BY <1>9, SurviveMoves, ThreadKeepsEntries DEF LocalsMatchEntry
<1>10. QED
  BY <1>2, <1>3, <1>4, <1>5, <1>6, <1>7, <1>8, <1>9, StepKinds

(* A peer that comes or leaves between two steps of the loop. *)
LEMMA HeardConnected ==
  ASSUME TypeOK, SlotsMatchPeers, LocalsMatchEntry, HeardInv, NEW p \in Peers, Connected(p)
  PROVE  HeardInv'
<1>1. /\ UNCHANGED <<thread, heard, orphan>> /\ linked' = linked \union {p} /\ p \notin linked
      /\ (Sending' <=> Sending) /\ (Resting' <=> Resting)
  BY DEF Connected, ghosts, Sending, Resting
<1>2. heard[p] \in {0, None}
  BY <1>1 DEF HeardInv, UnlinkedHeard
<1>3. \A s \in Slots : conns'[s].conn = conns[s].conn
                         \/ (conns[s].conn = None /\ conns'[s].conn = p)
  BY EntryConnected
<1>4. thread.slot \in Slots
  BY DEF TypeOK, ThreadOK, ThreadType
<1>5. OrphanHeard' /\ RestingHeard' /\ UnlinkedHeard'
  BY <1>1 DEF HeardInv, OrphanHeard, RestingHeard, UnlinkedHeard
<1>6. LaterHeard'
  BY <1>1, <1>2, <1>3 DEF HeardInv, LaterHeard
<1>7. EntryHeard'
  <2> SUFFICES ASSUME NEW q \in Peers, Sending', conns'[thread.slot].conn = q
               PROVE  heard[q] \in {thread.off, None}
    BY <1>1 DEF EntryHeard
  <2>1. CASE conns[thread.slot].conn = q
    BY <1>1, <2>1 DEF HeardInv, EntryHeard
  <2>2. CASE conns[thread.slot].conn = None /\ q = p
    BY <1>1, <1>2, <2>2 DEF HeardInv, OrphanHeard, LocalsMatchEntry
  <2>3. QED
    BY <1>3, <1>4, <2>1, <2>2
<1>8. OthersHeard'
  <2> SUFFICES ASSUME NEW q \in Peers, heard[q] \notin {0, None, Size[thread.msg]}
               PROVE  Sending' /\ conns'[thread.slot].conn = q
    BY <1>1 DEF OthersHeard
  <2>1. Sending /\ conns[thread.slot].conn = q /\ q # None
    BY BtAssumption DEF HeardInv, OthersHeard, BtAssumption
  <2>2. QED
    BY <1>1, <1>3, <1>4, <2>1
<1>9. QED
  BY <1>5, <1>6, <1>7, <1>8 DEF HeardInv

LEMMA HeardDisconnected ==
  ASSUME TypeOK, SlotsMatchPeers, HeardInv, NEW p \in Peers, Disconnected(p)
  PROVE  HeardInv'
<1>1. /\ thread' = thread /\ linked' = linked \ {p} /\ p # None
      /\ (Sending' <=> Sending) /\ (Resting' <=> Resting)
  BY BtAssumption DEF Disconnected, Sending, Resting, BtAssumption
<1>2. \A s \in Slots : conns'[s].conn = IF conns[s].conn = p THEN None ELSE conns[s].conn
  BY EntryDisconnected
<1>3. thread.slot \in Slots /\ (Sending => thread.msg \in DataTypes)
  BY DEF TypeOK, ThreadOK, ThreadType
<1>4. CASE SentThrough(p)
  <2>1. Sending' /\ \A q \in Peers : heard'[q] = None
    BY <1>1, <1>3, <1>4 DEF Disconnected, HeardWithout, SentThrough
  <2>2. ~Resting'
    BY <2>1 DEF Sending, Resting
  <2>3. QED
    BY <2>1, <2>2 DEF HeardInv, OrphanHeard, RestingHeard, UnlinkedHeard, LaterHeard,
                      EntryHeard, OthersHeard
<1>5. CASE ~SentThrough(p)
  <2>1. orphan' => orphan
    BY <1>5 DEF Disconnected
  <2>2. \A q \in Peers : heard'[q] = heard[q] \/ (heard'[q] = None /\ thread.msg \in DataTypes)
    BY DEF Disconnected, HeardWithout
  <2>3. heard'[p] = None \/ heard'[p] = 0
    <3>1. CASE thread.msg \in DataTypes
      BY <3>1 DEF Disconnected, HeardWithout
    <3>2. CASE thread.msg \notin DataTypes
      <4>1. Resting
        BY <3>2 DEF TypeOK, ThreadOK, ThreadType, Sending, Resting
      <4>2. QED
        BY <2>2, <3>2, <4>1 DEF HeardInv, RestingHeard
    <3>3. QED
      BY <3>1, <3>2
  <2>4. OrphanHeard'
    BY <1>1, <2>1, <2>2 DEF HeardInv, OrphanHeard
  <2>5. RestingHeard'
    BY <1>1, <2>2 DEF HeardInv, RestingHeard
  <2>6. UnlinkedHeard'
    BY <1>1, <2>2, <2>3 DEF HeardInv, UnlinkedHeard
  <2>7. LaterHeard'
    <3> SUFFICES ASSUME NEW q \in Peers, NEW s \in Slots, conns'[s].conn = q,
                        s > thread.slot \/ (s = thread.slot /\ ~Sending)
                 PROVE  heard'[q] \in {0, None}
      BY <1>1 DEF LaterHeard
    <3>1. conns[s].conn = q
      BY <1>2, BtAssumption DEF BtAssumption
    <3>2. heard[q] \in {0, None}
      BY <3>1 DEF HeardInv, LaterHeard
    <3>3. QED
      BY <2>2, <3>2
  <2>8. EntryHeard'
    <3> SUFFICES ASSUME NEW q \in Peers, Sending, conns'[thread.slot].conn = q
                 PROVE  heard'[q] \in {thread.off, None}
      BY <1>1 DEF EntryHeard
    <3>1. conns[thread.slot].conn = q
      BY <1>2, <1>3, BtAssumption DEF BtAssumption
    <3>2. heard[q] \in {thread.off, None}
      BY <3>1 DEF HeardInv, EntryHeard
    <3>3. QED
      BY <2>2, <3>2
  <2>9. OthersHeard'
    <3> SUFFICES ASSUME NEW q \in Peers, heard'[q] \notin {0, None, Size[thread.msg]}
                 PROVE  Sending' /\ conns'[thread.slot].conn = q
      BY <1>1 DEF OthersHeard
    <3>1. q # p /\ Sending /\ conns[thread.slot].conn = q
      BY <2>2, <2>3 DEF HeardInv, OthersHeard
    <3>2. QED
      BY <1>1, <1>2, <1>3, <3>1
  <2>10. QED
    BY <2>4, <2>5, <2>6, <2>7, <2>8, <2>9 DEF HeardInv
<1>6. QED
  BY <1>4, <1>5

(* Steps that change neither the connections nor what has been heard. *)
LEMMA HeardKept ==
  ASSUME HeardInv, UNCHANGED <<heard, orphan, linked>>,
         \A s \in Slots : conns'[s].conn = conns[s].conn, thread.slot \in Slots,
         thread'.msg = thread.msg, thread'.slot = thread.slot, thread'.off = thread.off,
         Sending' <=> Sending, Resting' => Resting
  PROVE  HeardInv'
<1>1. OrphanHeard' /\ RestingHeard' /\ UnlinkedHeard'
  BY DEF HeardInv, OrphanHeard, RestingHeard, UnlinkedHeard
<1>2. LaterHeard'
  BY DEF HeardInv, LaterHeard
<1>3. EntryHeard' /\ OthersHeard'
  BY DEF HeardInv, EntryHeard, OthersHeard
<1>4. QED
  BY <1>1, <1>2, <1>3 DEF HeardInv

LEMMA HeardRx == TypeOK /\ SlotsMatchPeers /\ LocalsMatchEntry /\ HeardInv /\ BtRx => HeardInv'
<1> SUFFICES ASSUME TypeOK, SlotsMatchPeers, LocalsMatchEntry, HeardInv, BtRx PROVE HeardInv'
  OBVIOUS
<1>1. ASSUME UNCHANGED <<thread, heard, orphan, linked>>,
             \A s \in Slots : conns'[s].conn = conns[s].conn
      PROVE  HeardInv'
  <2>1. (Sending' <=> Sending) /\ (Resting' <=> Resting) /\ thread.slot \in Slots
    BY <1>1 DEF Sending, Resting, TypeOK, ThreadOK, ThreadType
  <2>2. QED
    BY <1>1, <2>1, HeardKept
<1>2. ASSUME NEW p \in Peers, ExchangeFunc(p) PROVE HeardInv'
  <2>1. UNCHANGED <<thread, heard, orphan, linked>>
    BY <1>2 DEF ExchangeFunc, ghosts
  <2>2. QED
    BY <1>1, <1>2, <2>1, EntryExchanged
<1>3. ASSUME NEW p \in Peers, NEW on \in BOOLEAN, CccWrite(p, on) PROVE HeardInv'
  <2>1. UNCHANGED <<thread, heard, orphan, linked>>
    BY <1>3 DEF CccWrite, ghosts
  <2>2. QED
    BY <1>1, <1>3, <2>1, EntryCcc
<1>4. CASE ConnectFails
  BY <1>1, <1>4 DEF ConnectFails, link, ghosts
<1>5. QED
  BY <1>2, <1>3, <1>4, HeardConnected, HeardDisconnected DEF BtRx

(* The loop over the entries leaves one whose peer has heard all or nothing. *)
LEMMA HeardNextSlot ==
  ASSUME TypeOK, HeardInv, NextSlot, UNCHANGED <<conns, linked>>,
         \A p \in Peers : heard[p] \in {0, None, Size[thread.msg]}
  PROVE  HeardInv'
<1>1. ~Sending' /\ ~orphan'
  BY NextSlotResets DEF NextSlot
<1>2. CASE thread.slot < MaxConn
  <2>1. /\ thread'.pc = "slot" /\ thread'.msg = thread.msg
        /\ thread'.slot = thread.slot + 1 /\ heard' = heard
    BY <1>2 DEF NextSlot, Idle
  <2>2. thread.slot \in Nat /\ Slots \subseteq Nat
    BY BtAssumption DEF TypeOK, ThreadOK, ThreadType, Slots, BtAssumption
  <2>3. OrphanHeard' /\ RestingHeard' /\ UnlinkedHeard'
    BY <1>1, <2>1 DEF HeardInv, OrphanHeard, RestingHeard, UnlinkedHeard, Resting
  <2>4. LaterHeard'
    <3>1. \A s \in Slots : s > thread.slot + 1 \/ s = thread.slot + 1 => s > thread.slot
      BY <2>2
    <3>2. QED
      BY <2>1, <3>1 DEF HeardInv, LaterHeard
  <2>5. EntryHeard' /\ OthersHeard'
    BY <1>1, <2>1 DEF EntryHeard, OthersHeard
  <2>6. QED
    BY <2>3, <2>4, <2>5 DEF HeardInv
<1>3. CASE ~(thread.slot < MaxConn)
  <2>1. thread' = Idle /\ \A p \in Peers : heard'[p] = 0
    BY <1>3 DEF NextSlot, Finish
  <2>2. thread'.msg = None /\ None \notin DataTypes
    BY <2>1, BtAssumption DEF Idle, BtAssumption, EventTypes
  <2>3. QED
    BY <1>1, <2>1, <2>2
       DEF HeardInv, OrphanHeard, RestingHeard, UnlinkedHeard, LaterHeard, EntryHeard,
           OthersHeard
<1>4. QED
  BY <1>2, <1>3

(* The thread takes a message, or handles one that is no data. *)
LEMMA HeardOutside ==
  ASSUME TypeOK, HeatInv, HeardInv, OutsideSend
  PROVE  HeardInv'
<1>1. /\ thread.pc \in {"get", "init", "stop", "stopped", "slot"} /\ ~Sending /\ ~Sending'
      /\ UNCHANGED <<conns, linked, exchanging>> /\ thread.slot \in Slots
  BY OutsideStaysOut, ThreadKeepsEntries DEF HeatInv, TypeOK, ThreadOK, ThreadType
<1>2. ~orphan
  BY <1>1 DEF HeardInv, OrphanHeard
<1>3. CASE CheckSlot
  <2>1. \A p \in Peers : heard[p] \in {0, None, Size[thread.msg]}
    BY <1>1 DEF HeardInv, OthersHeard
  <2>2. CASE NextSlot
    BY <1>1, <2>1, <2>2, HeardNextSlot
  <2>3. CASE ~NextSlot
    <3>1. thread' = [thread EXCEPT !.pc = "begin"] /\ UNCHANGED <<heard, orphan>>
      BY <1>3, <2>3 DEF CheckSlot, ghosts
    <3>2. /\ thread'.pc = "begin" /\ thread'.msg = thread.msg
          /\ thread'.slot = thread.slot /\ thread'.off = thread.off
      BY <3>1 DEF TypeOK, ThreadOK, ThreadType
    <3>3. ~Resting'
      BY <3>2 DEF Resting
    <3>4. QED
      BY <1>1, <3>1, <3>2, <3>3, HeardKept
  <2>4. QED
    BY <2>2, <2>3
<1>4. CASE ~CheckSlot
  <2>1. Resting /\ UNCHANGED <<heard, orphan>>
    BY <1>4 DEF OutsideSend, GetMessage, InitModule, AdvStop, SetStateAfterStop, Resting,
                ghosts
  <2>2. thread.msg \notin DataTypes /\ \A p \in Peers : heard[p] = 0
    BY <2>1 DEF HeardInv, RestingHeard
  <2>3. Resting' => thread'.msg \notin DataTypes
    <3>1. None \notin DataTypes /\ "READY" \notin DataTypes /\ "TOGGLE" \notin DataTypes
      BY BtAssumption DEF BtAssumption, EventTypes, DataTypes
    <3>2. ASSUME NEW m, Finish(m) PROVE thread'.msg = None
      BY <3>2 DEF Finish, Idle
    <3>3. CASE GetMessage
      <4> DEFINE m == Head(msgq)
      <4>1. \/ Finish(m) \/ (At("init", m) /\ m = "READY") \/ At("slot", m)
            \/ /\ thread' = [Idle EXCEPT !.pc = "stop", !.msg = m, !.goal = StopsAt[state]]
               /\ m = "TOGGLE"
        BY <3>3 DEF GetMessage, OnStateInit, OnStateConnected, OnStateDisconnected
      <4> HIDE DEF m
      <4>2. ASSUME At("slot", m) PROVE ~Resting'
        BY <4>2 DEF At, Idle, Resting
      <4>3. ASSUME At("init", m) PROVE thread'.msg = m
        BY <4>3 DEF At, Idle
      <4>4. ASSUME thread' = [Idle EXCEPT !.pc = "stop", !.msg = m, !.goal = StopsAt[state]]
            PROVE  thread'.msg = m
        BY <4>4 DEF Idle
      <4>5. QED
        BY <3>1, <3>2, <4>1, <4>2, <4>3, <4>4
    <3>4. CASE InitModule \/ SetStateAfterStop
      BY <3>1, <3>2, <3>4 DEF InitModule, SetStateAfterStop
    <3>5. CASE AdvStop
      BY <2>2, <3>5 DEF AdvStop, TypeOK, ThreadOK, ThreadType
    <3>6. QED
      BY <1>4, <3>3, <3>4, <3>5 DEF OutsideSend
  <2>4. QED
    BY <1>1, <1>2, <2>1, <2>2, <2>3
       DEF HeardInv, OrphanHeard, RestingHeard, UnlinkedHeard, LaterHeard, EntryHeard,
           OthersHeard
<1>5. QED
  BY <1>3, <1>4

(* A notification is heard by the peer in the entry, or is nothing to hear. *)
LEMMA HeardNotify ==
  ASSUME TypeOK, SlotsMatchPeers, LocalsMatchEntry, HeardInv, Notify
  PROVE  HeardInv'
<1> DEFINE conn == conns[thread.slot].conn
<1>1. /\ thread'.msg = thread.msg /\ thread'.slot = thread.slot
      /\ thread'.off = thread.off + thread.len
      /\ thread.pc = "notify" /\ thread'.pc = "chunk" /\ Sending /\ Sending'
      /\ orphan' = orphan /\ UNCHANGED <<conns, linked>>
  BY NotifyMoves, ThreadKeepsEntries
<1>2. /\ thread.slot \in Slots /\ thread.len \in Nat /\ thread.off \in Nat
      /\ Size[thread.msg] \in Nat /\ thread.off + thread.len <= Size[thread.msg]
  BY <1>1, BtAssumption
     DEF TypeOK, ThreadOK, ThreadType, BtAssumption, LocalsMatchEntry
<1>3. PICK by \in SUBSET (IF conn = None THEN linked ELSE {conn}) :
        \A p \in Peers :
          heard'[p] = IF p \in by THEN HeardNext(heard[p])
                      ELSE IF p = conn /\ thread.len > 0 THEN None ELSE heard[p]
  BY DEF Notify
<1>4. \A p \in Peers : heard[p] = None => heard'[p] = None
  BY <1>3 DEF HeardNext
<1>5. CASE orphan
  <2>1. \A p \in Peers : heard'[p] = None
    BY <1>4, <1>5 DEF HeardInv, OrphanHeard
  <2>2. QED
    BY <1>1, <2>1
       DEF HeardInv, OrphanHeard, RestingHeard, UnlinkedHeard, LaterHeard, EntryHeard,
           OthersHeard, Resting
<1>6. CASE ~orphan
  <2>1. thread.fits /\ (conn = None => thread.len = 0)
    BY <1>1, <1>6 DEF LocalsMatchEntry
  <2>2. \A p \in Peers : p # conn => heard'[p] = heard[p]
    <3>1. CASE conn = None
      BY <1>3, <2>1, <3>1 DEF HeardNext
    <3>2. CASE conn # None
      BY <1>3, <3>2
    <3>3. QED
      BY <3>1, <3>2
  <2>3. conn \in Peers => heard'[conn] \in {thread.off + thread.len, None}
    <3> SUFFICES ASSUME conn \in Peers, heard[conn] # None
                 PROVE  heard'[conn] \in {thread.off + thread.len, None}
      BY <1>4
    <3>1. heard[conn] = thread.off
      BY <1>1 DEF HeardInv, EntryHeard
    <3>2. HeardNext(heard[conn]) = thread.off + thread.len
      BY <1>2, <2>1, <3>1 DEF HeardNext
    <3>3. heard'[conn] \in {HeardNext(heard[conn]), None, heard[conn]}
          /\ (heard'[conn] = heard[conn] => thread.len = 0
                \/ heard'[conn] \in {HeardNext(heard[conn]), None})
      BY <1>2, <1>3
    <3>4. QED
      BY <1>2, <3>1, <3>2, <3>3
  <2>4. conn \in Peers => conn \in linked /\ \A s \in Slots : s # thread.slot => conns[s].conn # conn
    BY <1>2, BtAssumption DEF SlotsMatchPeers, BtAssumption
  <2>5. OrphanHeard' /\ RestingHeard'
    BY <1>1, <1>6 DEF OrphanHeard, RestingHeard, Resting
  <2>6. UnlinkedHeard'
    BY <1>1, <2>2, <2>4 DEF HeardInv, UnlinkedHeard
  <2>7. LaterHeard'
    <3> SUFFICES ASSUME NEW p \in Peers, NEW s \in Slots, conns[s].conn = p, s > thread.slot
                 PROVE  heard'[p] \in {0, None}
      BY <1>1 DEF LaterHeard
    <3>1. s # thread.slot
      BY <1>2, BtAssumption DEF Slots, BtAssumption
    <3>2. p # conn
      BY <2>4, <3>1
    <3>3. QED
      BY <2>2, <3>2 DEF HeardInv, LaterHeard
  <2>8. EntryHeard'
    BY <1>1, <2>3 DEF EntryHeard
  <2>9. OthersHeard'
    BY <1>1, <2>2 DEF HeardInv, OthersHeard
  <2>10. QED
    BY <2>5, <2>6, <2>7, <2>8, <2>9 DEF HeardInv
<1>7. QED
  BY <1>5, <1>6

LEMMA SendEndsWhole ==
  ASSUME TypeOK, LocalsMatchEntry, HeardInv, SendEnd
  PROVE  \A p \in Peers : \/ heard[p] \in {None, Size[thread.msg]}
                          \/ heard[p] = 0 /\ conns[thread.slot].conn # p
<1>1. Sending /\ thread.off <= Size[thread.msg] /\ thread.off >= Size[thread.msg]
  BY DEF SendEnd, Sending, LocalsMatchEntry
<1>2. thread.off = Size[thread.msg]
  BY <1>1, BtAssumption DEF BtAssumption, TypeOK, ThreadOK, ThreadType
<1>3. QED
  BY <1>1, <1>2 DEF HeardInv, EntryHeard, OthersHeard

LEMMA HeardStep ==
  ASSUME TypeOK, HeatInv, SlotsMatchPeers, LocalsMatchEntry, HeardInv, [Next]_vars
  PROVE  HeardInv'
<1>1. thread.slot \in Slots
  BY DEF TypeOK, ThreadOK, ThreadType
<1>2. CASE UNCHANGED <<thread, conns, linked, exchanging, heard, orphan>>
  <2>1. (Sending' <=> Sending) /\ (Resting' <=> Resting)
    BY <1>2 DEF Sending, Resting
  <2>2. QED
    BY <1>1, <1>2, <2>1, HeardKept
<1>3. CASE SendBegin
  <2>1. UNCHANGED <<conns, linked>> /\ ~Sending /\ ~orphan
    BY <1>3, ThreadKeepsEntries DEF SendBegin, Sending, HeardInv, OrphanHeard
  <2>2. CASE NextSlot
    BY <2>1, <2>2, HeardNextSlot DEF HeardInv, OthersHeard
  <2>3. CASE ~NextSlot
    <3>1. /\ Sending' /\ thread'.pc = "chunk" /\ thread'.msg = thread.msg
          /\ thread'.slot = thread.slot /\ thread'.off = 0 /\ UNCHANGED <<heard, orphan>>
      BY <1>3, <2>3, BeginsAtZero DEF HeatInv
    <3>2. \A p \in Peers : conns[thread.slot].conn = p => heard[p] \in {0, None}
      BY <1>1, <2>1 DEF HeardInv, LaterHeard
    <3>3. QED
      BY <2>1, <3>1, <3>2
         DEF HeardInv, OrphanHeard, RestingHeard, UnlinkedHeard, LaterHeard, EntryHeard,
             OthersHeard, Resting
  <2>4. QED
    BY <2>2, <2>3
<1>4. CASE EncodeChunk
  <2>1. UNCHANGED <<heard, orphan>> /\ UNCHANGED <<conns, linked>>
    BY <1>4, ThreadKeepsEntries DEF EncodeChunk, ghosts
  <2>2. ~Resting'
    BY <1>4, EncodeTakes DEF Sending, Resting
  <2>3. QED
    BY <1>1, <1>4, <2>1, <2>2, EncodeTakes, HeardKept
<1>5. CASE SendEnd
  <2>1. UNCHANGED <<conns, linked>> /\ NextSlot
    BY <1>5, ThreadKeepsEntries DEF SendEnd
  <2>2. QED
    BY <1>5, <2>1, SendEndsWhole, HeardNextSlot
<1>6. CASE SurviveOverrun
  <2>1. ~Resting'
    BY <1>6, SurviveMoves DEF Resting
  <2>2. QED
    BY <1>1, <1>6, <2>1, SurviveMoves, ThreadKeepsEntries, HeardKept
<1>7. QED
  BY <1>2, <1>3, <1>4, <1>5, <1>6, StepKinds, HeardRx, HeardOutside, HeardNotify

LEMMA HeardInit == Init => LocalsMatchEntry /\ HeardInv
<1> SUFFICES ASSUME Init PROVE LocalsMatchEntry /\ HeardInv
  OBVIOUS
<1>1. /\ ~Sending /\ ~orphan /\ thread.msg = None /\ None \notin DataTypes
      /\ \A p \in Peers : heard[p] = 0
  BY BtAssumption DEF Init, Idle, Sending, BtAssumption, EventTypes
<1>2. QED
  BY <1>1 DEF LocalsMatchEntry, HeardInv, OrphanHeard, RestingHeard, UnlinkedHeard,
              LaterHeard, EntryHeard, OthersHeard

(***************************************************************************)
(* For every number of peers and entries, message size and MTU: a message  *)
(* is heard whole and once or not at all, by every peer that neither left  *)
(* nor was passed over, unless an entry lost its peer while it was sent    *)
(* through.                                                                *)
(***************************************************************************)
THEOREM HeardCorrect == Spec => HeardWholeOrNot
<1>1. Init => HeatInv
  BY DEF Init, Idle, HeatInv, HeatAligned, StartsAtZero, Sending
<1>2. TypeOK /\ HeatInv /\ LocalsMatchEntry /\ HeardInv /\ [Next]_vars
        => [Sending /\ ~Sending' =>
              \A p \in Peers : \/ heard[p] = None
                               \/ heard[p] = Size[thread.msg]
                               \/ heard[p] = 0 /\ conns[thread.slot].conn # p]_vars
  <2> SUFFICES ASSUME TypeOK, HeatInv, LocalsMatchEntry, HeardInv, [Next]_vars,
                      Sending, ~Sending', NEW p \in Peers
               PROVE  \/ heard[p] = None
                      \/ heard[p] = Size[thread.msg]
                      \/ heard[p] = 0 /\ conns[thread.slot].conn # p
    OBVIOUS
  <2>1. CASE SendEnd
    BY <2>1, SendEndsWhole
  <2>2. ~BtRx
    BY DEF BtRx, ConnectFails, Connected, Disconnected, ExchangeFunc, CccWrite, Sending
  <2>3. ~OutsideSend
    BY OutsideStaysOut DEF HeatInv
  <2>4. ~SendBegin
    BY DEF SendBegin, Sending
  <2>5. ~EncodeChunk /\ ~Notify /\ ~SurviveOverrun
    BY EncodeTakes, NotifyMoves, SurviveMoves
  <2>6. thread' # thread
    BY DEF Sending
  <2>7. QED
    BY <2>1, <2>2, <2>3, <2>4, <2>5, <2>6, StepKinds
<1>3. QED
  BY <1>1, <1>2, RoomInit, HeardInit, HeatStep, RoomStep, LocalsStep, HeardStep,
     TypeCorrect, SlotsCorrect, PTL DEF Spec, HeardWholeOrNot

=============================================================================
