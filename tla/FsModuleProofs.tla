--------------------------- MODULE FsModuleProofs ---------------------------
(***************************************************************************)
(* What the file module keeps for every number of files and parts, and     *)
(* every length of its queue.                                              *)
(***************************************************************************)
EXTENDS FsModule, QueueProofs

-----------------------------------------------------------------------------
(* Messages *)

(* A message says what it is by its kind. *)
LEMMA MessageKinds ==
  ASSUME NEW m \in Messages
  PROVE  /\ m.kind = "PART" <=> m \in PartMsgs
         /\ m.kind = "READY" <=> m = Ready
         /\ m.kind = "ERROR" <=> m = Error
         /\ m \in PartMsgs => m.file \in Files /\ m.part \in Nat
<1>1. Ready.kind = "READY" /\ Error.kind = "ERROR"
  BY DEF Ready, Error
<1>2. CASE m \in PartMsgs
  <2>0. PICK f \in Files : m \in {Part(f, n) : n \in 1 .. Parts[f]}
    BY <1>2 DEF PartMsgs
  <2>1. PICK n \in 1 .. Parts[f] : m = Part(f, n)
    BY <2>0
  <2>2. Parts[f] \in Nat
    BY FsAssumption DEF FsAssumption
  <2>3. m.kind = "PART" /\ m.file = f /\ m.part = n /\ n \in Nat
    BY <2>1, <2>2 DEF Part
  <2>4. QED
    BY <1>1, <1>2, <2>3
<1>3. CASE m = Ready
  <2>1. \A f, n : Part(f, n).kind = "PART"
    BY DEF Part
  <2>2. m \notin PartMsgs
    BY <1>1, <1>3, <2>1 DEF PartMsgs
  <2>3. QED
    BY <1>1, <1>3, <2>2
<1>4. CASE m = Error
  <2>1. \A f, n : Part(f, n).kind = "PART"
    BY DEF Part
  <2>2. m \notin PartMsgs
    BY <1>1, <1>4, <2>1 DEF PartMsgs
  <2>3. QED
    BY <1>1, <1>4, <2>2
<1>5. QED
  BY <1>2, <1>3, <1>4 DEF Messages

(* A message owns a payload when it is a part; no message owns none. *)
LEMMA PayloadsOfMessage ==
  ASSUME NEW m \in Messages \union {NoMsg}
  PROVE  Payloads(m) = One(m, PartMsgs) /\ Payloads(m) \in 0 .. 1
<1>1. CASE m = NoMsg
  BY <1>1, NoMsgAssumption DEF NoMsgAssumption, Payloads, One, Messages
<1>2. CASE m \in Messages
  BY <1>2, NoMsgAssumption, MessageKinds DEF NoMsgAssumption, Payloads, One
<1>3. QED
  BY <1>1, <1>2

(* Where no message is, none is counted. *)
LEMMA NoMessage ==
  ASSUME NEW S \in SUBSET Messages
  PROVE  One(NoMsg, S) = 0
BY NoMsgAssumption DEF NoMsgAssumption, One

-----------------------------------------------------------------------------
(* Types *)

(* The queues typed: what may be appended, and what is taken. *)
LEMMA QueuesTyped ==
  ASSUME TypeOK
  PROVE  /\ \A m \in Messages : /\ Append(evq, m) \in Seq(Messages)
                                /\ Append(msgq, m) \in Seq(Messages)
                                /\ Len(Append(msgq, m)) = Len(msgq) + 1
         /\ evq # <<>> => Head(evq) \in Messages /\ Tail(evq) \in Seq(Messages)
         /\ msgq # <<>> => /\ Head(msgq) \in Messages /\ Tail(msgq) \in Seq(Messages)
                           /\ Len(Tail(msgq)) <= QueueLen
         /\ Len(msgq) \in Nat /\ QueueLen \in Nat
         /\ Ready \in Messages /\ Error \in Messages /\ PartMsgs \subseteq Messages
BY FsAssumption DEF TypeOK, Messages, FsAssumption

LEMMA TypeInit == Init => TypeOK
<1> SUFFICES ASSUME Init PROVE TypeOK
  OBVIOUS
<1>1. evq \in Seq(Messages) /\ msgq \in Seq(Messages) /\ Len(msgq) <= QueueLen
  BY FsAssumption DEF Init, Messages, FsAssumption
<1>2. thread \in ThreadType /\ thread.pc = "get" /\ thread.msg = NoMsg
  BY DEF Init, Idle, ThreadType
<1>3. live \in Int /\ handles \in 0 .. Handles
  BY FsAssumption DEF Init, FsAssumption
<1>4. sent \in [Files -> Nat] /\ stored \in [Files -> Seq(Nat)]
  BY DEF Init
<1>5. state \in {"INIT", "READY", "ERROR"} /\ blocked \in Messages \union {NoMsg} /\ reported \in BOOLEAN
  BY DEF Init
<1>6. QED
  BY <1>1, <1>2, <1>3, <1>4, <1>5 DEF TypeOK

(* Submitting, queueing. *)
LEMMA TypeQueueing ==
  ASSUME TypeOK, (\E f \in Files : Submit(f)) \/ Workqueue
  PROVE  TypeOK'
<1>1. ASSUME NEW f \in Files, Submit(f) PROVE TypeOK'
  <2>1. sent[f] \in Nat /\ Parts[f] \in Nat /\ sent[f] < Parts[f]
    BY <1>1, FsAssumption DEF Submit, TypeOK, FsAssumption
  <2>2. Part(f, sent[f] + 1) \in PartMsgs
    BY <2>1 DEF PartMsgs
  <2>3. evq' \in Seq(Messages) /\ sent' \in [Files -> Nat]
    BY <1>1, <2>1, <2>2, QueuesTyped DEF Submit, TypeOK
  <2>4. QED
    BY <1>1, <2>3 DEF Submit, TypeOK, card
<1>2. CASE HandleEvent
  <2>1. evq # <<>> /\ Head(evq) \in Messages /\ evq' \in Seq(Messages)
    BY <1>2, QueuesTyped DEF HandleEvent
  <2>2. live' \in Int
    BY <1>2, <2>1, PayloadsOfMessage DEF HandleEvent, TypeOK
  <2>3. /\ blocked' \in Messages \union {NoMsg}
        /\ msgq' \in Seq(Messages) /\ Len(msgq') <= QueueLen
    <3>1. CASE Len(msgq) < QueueLen
      <4>1. msgq' = Append(msgq, Head(evq)) /\ blocked' = blocked
        BY <1>2, <3>1 DEF HandleEvent
      <4>2. msgq' \in Seq(Messages) /\ Len(msgq') = Len(msgq) + 1
        BY <2>1, <4>1, QueuesTyped
      <4>3. QED
        BY <3>1, <4>1, <4>2, QueuesTyped DEF TypeOK
    <3>2. CASE ~(Len(msgq) < QueueLen)
      BY <1>2, <2>1, <3>2 DEF HandleEvent, TypeOK
    <3>3. QED
      BY <3>1, <3>2
  <2>4. QED
    BY <1>2, <2>1, <2>2, <2>3 DEF HandleEvent, TypeOK, card
<1>3. CASE PutResumes
  <2>1. msgq' \in Seq(Messages) /\ Len(msgq') <= QueueLen
    BY <1>3, QueuesTyped DEF PutResumes, TypeOK
  <2>2. QED
    BY <1>3, <2>1 DEF PutResumes, TypeOK, card
<1>4. QED
  BY <1>1, <1>2, <1>3 DEF Workqueue

(* The module thread ends the work on its message. *)
LEMMA FinishTyped ==
  ASSUME TypeOK, NEW m \in Messages \union {NoMsg}, Finish(m)
  PROVE  /\ thread' \in ThreadType /\ thread'.pc = "get" /\ thread'.msg = NoMsg
         /\ live' \in Int
<1>1. thread' \in ThreadType /\ thread'.pc = "get" /\ thread'.msg = NoMsg
  BY DEF Finish, Idle, ThreadType
<1>2. live' \in Int
  BY PayloadsOfMessage DEF Finish, TypeOK
<1>3. QED
  BY <1>1, <1>2

(* An error event is submitted. *)
LEMMA FailTyped ==
  ASSUME TypeOK, Fail
  PROVE  evq' \in Seq(Messages) /\ state' \in {"INIT", "READY", "ERROR"} /\ reported' \in BOOLEAN
<1>1. evq' \in Seq(Messages)
  BY QueuesTyped DEF Fail
<1>2. QED
  BY <1>1 DEF Fail

(* The four ways in which a message taken from the queue is dealt with. *)
LEMMA GetMessageCases ==
  ASSUME TypeOK, GetMessage
  PROVE  /\ msgq # <<>> /\ Head(msgq) \in Messages
         /\ thread.pc = "get" /\ msgq' = Tail(msgq)
         /\ UNCHANGED <<state, evq, blocked, handles, stored, sent, reported>>
         /\ \/ state = "INIT" /\ Head(msgq) = Ready /\ At("setup", Head(msgq))
            \/ state = "ERROR" /\ Head(msgq) = Error /\ At("setup", Head(msgq))
            \/ state = "READY" /\ Head(msgq) \in PartMsgs /\ At("write", Head(msgq))
            \/ ~(state = "ERROR" /\ Head(msgq) = Error) /\ Finish(Head(msgq))
<1> DEFINE m == Head(msgq)
<1>1. msgq # <<>> /\ m \in Messages /\ thread.pc = "get"
  BY QueuesTyped DEF GetMessage
<1>2. msgq' = Tail(msgq) /\ UNCHANGED <<state, evq, blocked, handles, stored, sent, reported>>
  BY DEF GetMessage, card
<1>3. CASE state = "INIT" /\ m.kind = "READY"
  <2>1. At("setup", m)
    BY <1>3 DEF GetMessage
  <2>2. m = Ready
    BY <1>1, <1>3, MessageKinds
  <2>3. QED
    BY <1>1, <1>2, <1>3, <2>1, <2>2
<1>4. CASE state = "ERROR" /\ m.kind = "ERROR"
  <2>1. At("setup", m)
    BY <1>4 DEF GetMessage
  <2>2. m = Error
    BY <1>1, <1>4, MessageKinds
  <2>3. QED
    BY <1>1, <1>2, <1>4, <2>1, <2>2
<1>5. CASE state = "READY" /\ m.kind = "PART"
  <2>1. At("write", m)
    BY <1>5 DEF GetMessage
  <2>2. m \in PartMsgs
    BY <1>1, <1>5, MessageKinds
  <2>3. QED
    BY <1>1, <1>2, <1>5, <2>1, <2>2
<1>6. CASE /\ ~(state = "INIT" /\ m.kind = "READY")
           /\ ~(state = "ERROR" /\ m.kind = "ERROR")
           /\ ~(state = "READY" /\ m.kind = "PART")
  <2>1. Finish(m)
    BY <1>6 DEF GetMessage
  <2>2. ~(state = "ERROR" /\ m = Error)
    BY <1>1, <1>6, MessageKinds
  <2>3. QED
    BY <1>1, <1>2, <2>1, <2>2
<1>7. QED
  BY <1>3, <1>4, <1>5, <1>6

LEMMA TypeThread ==
  ASSUME TypeOK, ModuleThread
  PROVE  TypeOK'
<1>1. CASE GetMessage
  <2> DEFINE m == Head(msgq)
  <2>1. /\ m \in Messages /\ msgq' \in Seq(Messages) /\ Len(msgq') <= QueueLen
        /\ UNCHANGED <<state, evq, blocked, handles, stored, sent, reported>>
    BY <1>1, GetMessageCases, QueuesTyped
  <2>2. /\ thread' \in ThreadType
        /\ thread'.pc = "get" <=> thread'.msg = NoMsg
        /\ thread'.pc = "write" => thread'.msg \in PartMsgs /\ state = "READY"
        /\ live' \in Int
    <3>1. ASSUME NEW pc \in {"setup", "write"}, At(pc, m)
          PROVE  /\ thread' \in ThreadType /\ thread'.pc = pc /\ thread'.msg = m
                 /\ m # NoMsg /\ live' \in Int
      <4>1. thread' = [pc |-> pc, msg |-> m] /\ live' = live
        BY <3>1 DEF At
      <4>2. thread' \in ThreadType /\ thread'.pc = pc /\ thread'.msg = m
        BY <2>1, <4>1 DEF ThreadType
      <4>3. m # NoMsg
        BY <2>1, NoMsgAssumption DEF NoMsgAssumption
      <4>4. QED
        BY <4>1, <4>2, <4>3 DEF TypeOK
    <3>2. CASE At("setup", m)
      BY <3>1, <3>2
    <3>3. CASE state = "READY" /\ m \in PartMsgs /\ At("write", m)
      BY <3>1, <3>3
    <3>4. CASE Finish(m)
      BY <2>1, <3>4, FinishTyped
    <3>5. QED
      BY <1>1, <3>2, <3>3, <3>4, GetMessageCases
  <2>3. QED
    BY <2>1, <2>2 DEF TypeOK
<1>2. CASE Setup
  <2>1. thread.msg \in Messages \union {NoMsg} /\ Finish(thread.msg)
    BY <1>2 DEF Setup, TypeOK, ThreadType
  <2>2. evq' \in Seq(Messages) /\ state' \in {"INIT", "READY", "ERROR"} /\ reported' \in BOOLEAN
    BY <1>2, FailTyped DEF Setup, TypeOK
  <2>3. QED
    BY <1>2, <2>1, <2>2, FinishTyped DEF Setup, TypeOK, card
<1>3. CASE Write
  <2>1. thread.msg \in PartMsgs /\ thread.msg \in Messages /\ Finish(thread.msg)
    BY <1>3 DEF Write, TypeOK, Messages
  <2>2. evq' \in Seq(Messages) /\ state' \in {"INIT", "READY", "ERROR"} /\ reported' \in BOOLEAN
    BY <1>3, FailTyped DEF Write, TypeOK
  <2>3. handles' \in 0 .. Handles
    BY <1>3, FsAssumption DEF Write, TypeOK, FsAssumption, card
  <2>4. stored' \in [Files -> Seq(Nat)]
    <3>1. CASE Store(thread.msg)
      <4>1. thread.msg.file \in Files /\ thread.msg.part \in Nat
        BY <2>1, MessageKinds
      <4>2. Append(stored[thread.msg.file], thread.msg.part) \in Seq(Nat)
        BY <4>1 DEF TypeOK
      <4>3. QED
        BY <3>1, <4>1, <4>2 DEF Store, TypeOK
    <3>2. CASE UNCHANGED stored
      BY <3>2 DEF TypeOK
    <3>3. QED
      BY <1>3, <3>1, <3>2 DEF Write, card
  <2>5. QED
    BY <1>3, <2>1, <2>2, <2>3, <2>4, FinishTyped DEF Write, TypeOK
<1>4. QED
  BY <1>1, <1>2, <1>3 DEF ModuleThread

LEMMA TypeStep == TypeOK /\ [Next]_vars => TypeOK'
<1> SUFFICES ASSUME TypeOK, [Next]_vars PROVE TypeOK'
  OBVIOUS
<1>1. CASE UNCHANGED vars
  BY <1>1 DEF vars, card, TypeOK
<1>2. QED
  BY <1>1, TypeQueueing, TypeThread DEF Next

(***************************************************************************)
(* Type correctness: the queue never holds more than it has room for, and  *)
(* a part is written only in the state in which the card is mounted.       *)
(***************************************************************************)
THEOREM TypeCorrect == Spec => []TypeOK
<1>1. QED
  BY TypeInit, TypeStep, PTL DEF Spec

-----------------------------------------------------------------------------
(* Messages underway *)

LEMMA FsCounts ==
  ASSUME TypeOK, NEW S
  PROVE  /\ CountIn(evq, S) \in Nat /\ CountIn(msgq, S) \in Nat
         /\ \A m \in Messages :
              /\ CountIn(Append(evq, m), S) = CountIn(evq, S) + One(m, S)
              /\ CountIn(Append(msgq, m), S) = CountIn(msgq, S) + One(m, S)
         /\ evq # <<>> => /\ CountIn(Tail(evq), S) \in Nat
                          /\ CountIn(evq, S) = CountIn(Tail(evq), S) + One(Head(evq), S)
         /\ msgq # <<>> => /\ CountIn(Tail(msgq), S) \in Nat
                           /\ CountIn(msgq, S) = CountIn(Tail(msgq), S) + One(Head(msgq), S)
<1>1. evq \in Seq(Messages) /\ msgq \in Seq(Messages)
  BY DEF TypeOK
<1>2. CountIn(evq, S) \in Nat /\ CountIn(msgq, S) \in Nat
  BY <1>1, PositionsFinite
<1>3. ASSUME NEW m \in Messages
      PROVE  /\ CountIn(Append(evq, m), S) = CountIn(evq, S) + One(m, S)
             /\ CountIn(Append(msgq, m), S) = CountIn(msgq, S) + One(m, S)
  BY <1>1, CountAppend DEF One
<1>4. evq # <<>> => /\ CountIn(Tail(evq), S) \in Nat
                    /\ CountIn(evq, S) = CountIn(Tail(evq), S) + One(Head(evq), S)
  <2>1. evq # <<>> => Tail(evq) \in Seq(Messages)
    BY <1>1
  <2>2. evq # <<>> => CountIn(Tail(evq), S) \in Nat
    BY <2>1, PositionsFinite
  <2>3. QED
    BY <1>1, <2>2, CountTail DEF One
<1>5. msgq # <<>> => /\ CountIn(Tail(msgq), S) \in Nat
                     /\ CountIn(msgq, S) = CountIn(Tail(msgq), S) + One(Head(msgq), S)
  <2>1. msgq # <<>> => Tail(msgq) \in Seq(Messages)
    BY <1>1
  <2>2. msgq # <<>> => CountIn(Tail(msgq), S) \in Nat
    BY <2>1, PositionsFinite
  <2>3. QED
    BY <1>1, <2>2, CountTail DEF One
<1>6. QED
  BY <1>2, <1>3, <1>4, <1>5

(* The listener moves messages on; none appears or disappears. *)
LEMMA MovedOn ==
  ASSUME TypeOK, Workqueue, NEW S \in SUBSET Messages
  PROVE  /\ CountIn(evq', S) + One(blocked', S) + CountIn(msgq', S)
             = CountIn(evq, S) + One(blocked, S) + CountIn(msgq, S)
         /\ CountIn(evq', S) \in Nat /\ CountIn(msgq', S) \in Nat
         /\ thread' = thread
<1>1. CASE HandleEvent
  <2>1. evq # <<>> /\ Head(evq) \in Messages /\ evq' = Tail(evq) /\ blocked = NoMsg /\ thread' = thread
    BY <1>1, QueuesTyped DEF HandleEvent
  <2>2. /\ CountIn(evq', S) \in Nat /\ CountIn(msgq, S) \in Nat
        /\ CountIn(evq, S) = CountIn(evq', S) + One(Head(evq), S)
        /\ One(Head(evq), S) \in Nat /\ One(blocked, S) = 0
    BY <2>1, FsCounts, NoMessage DEF One
  <2>3. CASE msgq' = Append(msgq, Head(evq)) /\ blocked' = blocked
    <3>1. CountIn(msgq', S) = CountIn(msgq, S) + One(Head(evq), S)
      BY <2>1, <2>3, FsCounts
    <3>2. QED
      BY <2>1, <2>2, <2>3, <3>1
  <2>4. CASE blocked' = Head(evq) /\ msgq' = msgq
    BY <2>1, <2>2, <2>4
  <2>5. QED
    BY <1>1, <2>3, <2>4 DEF HandleEvent
<1>2. CASE PutResumes
  <2>1. /\ blocked \in Messages /\ msgq' = Append(msgq, blocked) /\ blocked' = NoMsg
        /\ evq' = evq /\ thread' = thread
    BY <1>2 DEF PutResumes, TypeOK
  <2>2. CountIn(msgq', S) = CountIn(msgq, S) + One(blocked, S)
    BY <2>1, FsCounts
  <2>3. /\ CountIn(evq, S) \in Nat /\ CountIn(msgq, S) \in Nat
        /\ One(blocked, S) \in Nat /\ One(blocked', S) = 0
    BY <2>1, FsCounts, NoMessage DEF One
  <2>4. QED
    BY <2>1, <2>2, <2>3
<1>3. QED
  BY <1>1, <1>2 DEF Workqueue

-----------------------------------------------------------------------------
(* Recovery *)

(***************************************************************************)
(* The strengthening: the card is set up for the one message that the      *)
(* state asks for, so that message is used up when the state is left.      *)
(***************************************************************************)
SetupConsumes ==
  thread.pc = "setup" =>
    /\ state = "INIT" => thread.msg = Ready
    /\ state = "ERROR" => thread.msg = Error
    /\ state # "READY"

RecoveryInv == RecoveryUnderway /\ SetupConsumes

LEMMA RecoveryInit == Init => RecoveryInv
<1> SUFFICES ASSUME Init PROVE RecoveryInv
  OBVIOUS
<1>1. TypeOK /\ thread.pc = "get" /\ thread.msg = NoMsg
  BY TypeInit DEF Init, Idle
<1>2. Ready # Error
  BY DEF Ready, Error
<1>3. CountIn(<<>>, {Error}) = 0
  BY CountEmpty
<1>4. evq = Append(<<>>, Ready) /\ msgq = <<>> /\ blocked = NoMsg /\ state = "INIT"
  BY DEF Init
<1>5. CountIn(evq, {Error}) = 0
  <2>1. <<>> \in Seq(Messages) /\ Ready \in Messages
    BY DEF Messages
  <2>2. CountIn(evq, {Error}) = CountIn(<<>>, {Error}) + 0
    BY <1>2, <1>4, <2>1, CountAppend
  <2>3. QED
    BY <1>3, <2>2
<1>6. One(NoMsg, {Error}) = 0
  BY NoMessage DEF Messages
<1>7. Underway({Error}) = 0
  BY <1>1, <1>3, <1>4, <1>5, <1>6 DEF Underway
<1>8. QED
  BY <1>1, <1>4, <1>7 DEF RecoveryInv, RecoveryUnderway, SetupConsumes

LEMMA RecoveryStep == TypeOK /\ RecoveryInv /\ [Next]_vars => RecoveryInv'
<1> SUFFICES ASSUME TypeOK, RecoveryInv, [Next]_vars PROVE RecoveryInv'
  OBVIOUS
<1> DEFINE E == {Error}
           counted == CountIn(evq, E) + One(blocked, E) + CountIn(msgq, E)
           wanted == IF state = "ERROR" THEN 1 ELSE 0
<1>1. /\ E \in SUBSET Messages /\ CountIn(evq, E) \in Nat /\ CountIn(msgq, E) \in Nat
      /\ One(blocked, E) \in 0 .. 1 /\ One(thread.msg, E) \in 0 .. 1
      /\ counted + One(thread.msg, E) = wanted
      /\ One(Error, E) = 1 /\ One(NoMsg, E) = 0
  <2>1. E \in SUBSET Messages /\ Error \in E
    BY DEF Messages
  <2>2. CountIn(evq, E) \in Nat /\ CountIn(msgq, E) \in Nat
    BY FsCounts
  <2>3. One(blocked, E) \in 0 .. 1 /\ One(thread.msg, E) \in 0 .. 1 /\ One(Error, E) = 1
    BY <2>1 DEF One
  <2>4. Underway(E) = wanted
    BY DEF RecoveryInv, RecoveryUnderway
  <2>5. counted + One(thread.msg, E) = wanted
    BY <2>2, <2>3, <2>4 DEF Underway
  <2>6. One(NoMsg, E) = 0
    BY <2>1, NoMessage
  <2> HIDE DEF E, counted, wanted
  <2>7. QED
    BY <2>1, <2>2, <2>3, <2>5, <2>6
<1>2. CASE UNCHANGED vars
  BY <1>2 DEF vars, card, RecoveryInv, RecoveryUnderway, Underway, SetupConsumes
<1>3. ASSUME NEW f \in Files, Submit(f) PROVE RecoveryInv'
  <2> DEFINE m == Part(f, sent[f] + 1)
  <2>1. sent[f] \in Nat /\ Parts[f] \in Nat /\ sent[f] < Parts[f]
    BY <1>3, FsAssumption DEF Submit, TypeOK, FsAssumption
  <2>2. m \in PartMsgs /\ m \in Messages
    BY <2>1 DEF PartMsgs, Messages
  <2>3. m.kind # "ERROR" /\ Error.kind = "ERROR"
    BY DEF Part, Error
  <2>4. One(m, E) = 0
    BY <2>3 DEF One
  <2>5. evq' = Append(evq, m) /\ UNCHANGED <<state, blocked, msgq, thread>>
    BY <1>3 DEF Submit
  <2> HIDE DEF m
  <2>6. CountIn(evq', E) = CountIn(evq, E)
    BY <1>1, <2>2, <2>4, <2>5, FsCounts
  <2>7. QED
    BY <2>5, <2>6 DEF RecoveryInv, RecoveryUnderway, Underway, SetupConsumes
<1>4. CASE Workqueue
  <2>1. state' = state
    BY <1>4 DEF Workqueue, HandleEvent, PutResumes
  <2>2. Underway(E)' = Underway(E)
    BY <1>1, <1>4, MovedOn DEF Underway
  <2>3. thread' = thread
    BY <1>1, <1>4, MovedOn
  <2>4. QED
    BY <2>1, <2>2, <2>3 DEF RecoveryInv, RecoveryUnderway, SetupConsumes
<1>5. CASE GetMessage
  <2> DEFINE m == Head(msgq)
  <2>1. /\ msgq # <<>> /\ m \in Messages /\ thread.msg = NoMsg /\ msgq' = Tail(msgq)
        /\ UNCHANGED <<state, evq, blocked>>
    BY <1>5, GetMessageCases DEF TypeOK
  <2>2. /\ CountIn(msgq', E) \in Nat /\ One(m, E) \in 0 .. 1
        /\ CountIn(msgq, E) = CountIn(msgq', E) + One(m, E)
    BY <2>1, FsCounts DEF One
  <2>3. ASSUME thread'.msg = m PROVE RecoveryUnderway'
    <3>1. Underway(E)' = wanted
      BY <1>1, <2>1, <2>2, <2>3 DEF Underway
    <3>2. QED
      BY <2>1, <3>1 DEF RecoveryUnderway
  <2>4. ASSUME NEW pc, At(pc, m) PROVE thread'.msg = m /\ thread'.pc = pc
    BY <2>4 DEF At
  <2>5. CASE \/ state = "INIT" /\ m = Ready /\ At("setup", m)
             \/ state = "ERROR" /\ m = Error /\ At("setup", m)
    BY <2>1, <2>3, <2>4, <2>5 DEF RecoveryInv, SetupConsumes
  <2>6. CASE state = "READY" /\ m \in PartMsgs /\ At("write", m)
    BY <2>3, <2>4, <2>6 DEF RecoveryInv, SetupConsumes
  <2>7. CASE ~(state = "ERROR" /\ m = Error) /\ Finish(m)
    <3>1. thread'.msg = NoMsg /\ thread'.pc = "get"
      BY <2>7 DEF Finish, Idle
    <3>2. One(m, E) = 0
      <4>1. CASE state = "ERROR"
        BY <2>7, <4>1 DEF One
      <4>2. CASE state # "ERROR"
        BY <1>1, <2>1, <2>2, <4>2
      <4>3. QED
        BY <4>1, <4>2
    <3>3. Underway(E)' = wanted
      BY <1>1, <2>1, <2>2, <3>1, <3>2 DEF Underway
    <3>4. QED
      BY <2>1, <3>1, <3>3 DEF RecoveryInv, RecoveryUnderway, SetupConsumes
  <2>8. QED
    BY <1>5, <2>5, <2>6, <2>7, GetMessageCases
<1>6. CASE Setup \/ Write
  <2>1. /\ UNCHANGED <<blocked, msgq>> /\ thread'.msg = NoMsg /\ thread'.pc = "get"
        /\ (state' = state /\ evq' = evq) \/ (Setup /\ state' = "READY" /\ evq' = evq) \/ Fail
    BY <1>6 DEF Setup, Write, Finish, Idle
  <2>2. CASE Setup
    <3>1. thread.pc = "setup" /\ state \in {"INIT", "READY", "ERROR"} /\ Ready # Error
      BY <2>2 DEF Setup, TypeOK, Ready, Error
    <3>2. One(thread.msg, E) = wanted
      BY <3>1 DEF RecoveryInv, SetupConsumes, One
    <3>3. CASE state' = "READY" /\ evq' = evq
      <4>1. Underway(E)' = 0
        BY <1>1, <2>1, <3>2, <3>3 DEF Underway
      <4>2. QED
        BY <2>1, <3>3, <4>1 DEF RecoveryInv, RecoveryUnderway, SetupConsumes
    <3>4. CASE Fail
      <4>1. CountIn(evq', E) = CountIn(evq, E) + 1 /\ state' = "ERROR"
        BY <1>1, <3>4, FsCounts DEF Fail, Messages
      <4>2. Underway(E)' = 1
        BY <1>1, <2>1, <3>2, <4>1 DEF Underway
      <4>3. QED
        BY <2>1, <4>1, <4>2 DEF RecoveryInv, RecoveryUnderway, SetupConsumes
    <3>5. QED
      BY <2>2, <3>3, <3>4 DEF Setup
  <2>3. CASE Write
    <3>1. state = "READY" /\ thread.msg \in PartMsgs
      BY <2>3 DEF Write, TypeOK
    <3>2. wanted = 0
      BY <3>1
    <3>3. CASE state' = state /\ evq' = evq
      <4>1. Underway(E)' = 0
        BY <1>1, <2>1, <3>2, <3>3 DEF Underway
      <4>2. QED
        BY <2>1, <3>1, <3>3, <4>1 DEF RecoveryInv, RecoveryUnderway, SetupConsumes
    <3>4. CASE Fail
      <4>1. CountIn(evq', E) = CountIn(evq, E) + 1 /\ state' = "ERROR"
        BY <1>1, <3>4, FsCounts DEF Fail, Messages
      <4>2. Underway(E)' = 1
        BY <1>1, <2>1, <3>2, <4>1 DEF Underway
      <4>3. QED
        BY <2>1, <4>1, <4>2 DEF RecoveryInv, RecoveryUnderway, SetupConsumes
    <3>5. QED
      BY <2>3, <3>3, <3>4 DEF Write
  <2>4. QED
    BY <1>6, <2>2, <2>3
<1>7. QED
  BY <1>2, <1>3, <1>4, <1>5, <1>6 DEF Next, ModuleThread

(***************************************************************************)
(* The error state is never without the one event that leads out of it:    *)
(* for every length of the queues and every failure of the card.           *)
(***************************************************************************)
THEOREM RecoveryCorrect == Spec => []RecoveryUnderway
<1>1. RecoveryInv => RecoveryUnderway
  BY DEF RecoveryInv
<1>2. QED
  BY <1>1, RecoveryInit, RecoveryStep, TypeCorrect, PTL DEF Spec

-----------------------------------------------------------------------------
(* Payloads *)

(***************************************************************************)
(* No payload is leaked on a path that drops its message, and none freed   *)
(* twice: for every number of parts and every length of the queue.         *)
(***************************************************************************)
THEOREM PayloadsCorrect == Spec => []PayloadsAccounted
<1> DEFINE P == PartMsgs
           owned == One(blocked, P) + CountIn(msgq, P) + One(thread.msg, P)
<1>1. Init => PayloadsAccounted
  <2> SUFFICES ASSUME Init PROVE PayloadsAccounted
    OBVIOUS
  <2>1. One(NoMsg, P) = 0
    BY NoMessage DEF Messages
  <2>2. CountIn(msgq, P) = 0 /\ live = 0 /\ blocked = NoMsg /\ thread.msg = NoMsg
    BY CountEmpty DEF Init, Idle
  <2>3. QED
    BY <2>1, <2>2 DEF PayloadsAccounted
<1>2. TypeOK /\ PayloadsAccounted /\ [Next]_vars => PayloadsAccounted'
  <2> SUFFICES ASSUME TypeOK, PayloadsAccounted, [Next]_vars PROVE PayloadsAccounted'
    OBVIOUS
  <2>1. /\ P \in SUBSET Messages /\ live = owned
        /\ CountIn(msgq, P) \in Nat /\ One(blocked, P) \in 0 .. 1 /\ One(thread.msg, P) \in 0 .. 1
        /\ One(NoMsg, P) = 0
    BY FsCounts, NoMessage DEF PayloadsAccounted, One, Messages
  <2>2. CASE UNCHANGED <<live, blocked, msgq, thread>>
    BY <2>2 DEF PayloadsAccounted
  <2>3. CASE HandleEvent
    <3>1. /\ evq # <<>> /\ Head(evq) \in Messages /\ blocked = NoMsg /\ thread' = thread
          /\ live' = live + Payloads(Head(evq))
      BY <2>3, QueuesTyped DEF HandleEvent
    <3>2. Payloads(Head(evq)) = One(Head(evq), P) /\ One(Head(evq), P) \in 0 .. 1
      BY <3>1, PayloadsOfMessage
    <3>3. CASE msgq' = Append(msgq, Head(evq)) /\ blocked' = blocked
      <4>1. CountIn(msgq', P) = CountIn(msgq, P) + One(Head(evq), P)
        BY <3>1, <3>3, FsCounts
      <4>2. QED
        BY <2>1, <3>1, <3>2, <3>3, <4>1 DEF PayloadsAccounted
    <3>4. CASE blocked' = Head(evq) /\ msgq' = msgq
      BY <2>1, <3>1, <3>2, <3>4 DEF PayloadsAccounted
    <3>5. QED
      BY <2>3, <3>3, <3>4 DEF HandleEvent
  <2>4. CASE PutResumes
    <3>1. /\ blocked \in Messages /\ msgq' = Append(msgq, blocked) /\ blocked' = NoMsg
          /\ live' = live /\ thread' = thread
      BY <2>4 DEF PutResumes, TypeOK
    <3>2. CountIn(msgq', P) = CountIn(msgq, P) + One(blocked, P)
      BY <3>1, FsCounts
    <3>3. QED
      BY <2>1, <3>1, <3>2 DEF PayloadsAccounted
  <2>5. CASE GetMessage
    <3> DEFINE m == Head(msgq)
    <3>1. /\ msgq # <<>> /\ m \in Messages /\ thread.msg = NoMsg /\ msgq' = Tail(msgq)
          /\ blocked' = blocked
      BY <2>5, GetMessageCases DEF TypeOK
    <3>2. /\ CountIn(msgq', P) \in Nat /\ One(m, P) \in 0 .. 1
          /\ CountIn(msgq, P) = CountIn(msgq', P) + One(m, P)
          /\ Payloads(m) = One(m, P)
      BY <3>1, FsCounts, PayloadsOfMessage DEF One
    <3>3. ASSUME NEW pc, At(pc, m) PROVE PayloadsAccounted'
      <4>1. thread'.msg = m /\ live' = live
        BY <3>3 DEF At
      <4>2. QED
        BY <2>1, <3>1, <3>2, <4>1 DEF PayloadsAccounted
    <3>4. CASE Finish(m)
      <4>1. thread'.msg = NoMsg /\ live' = live - Payloads(m)
        BY <3>4 DEF Finish, Idle
      <4>2. QED
        BY <2>1, <3>1, <3>2, <4>1 DEF PayloadsAccounted
    <3>5. QED
      BY <2>5, <3>3, <3>4, GetMessageCases
  <2>6. CASE Setup \/ Write
    <3>1. UNCHANGED <<blocked, msgq>> /\ Finish(thread.msg)
      BY <2>6 DEF Setup, Write
    <3>2. thread'.msg = NoMsg /\ live' = live - Payloads(thread.msg)
      BY <3>1 DEF Finish, Idle
    <3>3. Payloads(thread.msg) = One(thread.msg, P)
      BY PayloadsOfMessage DEF TypeOK, ThreadType
    <3>4. QED
      BY <2>1, <3>1, <3>2, <3>3 DEF PayloadsAccounted
  <2>7. (\E f \in Files : Submit(f)) \/ UNCHANGED vars => UNCHANGED <<live, blocked, msgq, thread>>
    BY DEF Submit, vars
  <2>8. QED
    BY <2>2, <2>3, <2>4, <2>5, <2>6, <2>7 DEF Next, Workqueue, ModuleThread
<1>3. QED
  BY <1>1, <1>2, TypeCorrect, PTL DEF Spec

-----------------------------------------------------------------------------
(* The order of the parts *)

Own == [n \in Nat |-> n]

(* The places of the parts of a file, from the card to control.c, that has *)
(* the next part to submit.                                                *)
Flow(f) ==
  <<NumsOf(stored[f], Own), SlotOf(thread.msg, PartOf(f)), NumsOf(msgq, PartOf(f)),
    SlotOf(blocked, PartOf(f)), NumsOf(evq, PartOf(f)), {sent[f] + 1}>>

Submitted(L) == L[1] \union L[2] \union L[3] \union L[4] \union L[5]

PartsOrdered(f) ==
  /\ Chain(Flow(f))
  /\ InOrder(stored[f], Own) /\ InOrder(msgq, PartOf(f)) /\ InOrder(evq, PartOf(f))
  /\ ~reported => Submitted(Flow(f)) = 1 .. sent[f]

(***************************************************************************)
(* The strengthening: parts are dropped in the states INIT and ERROR.  No  *)
(* error, no state ERROR; and the READY that ends INIT is before all the   *)
(* parts, so that none is taken in it.                                     *)
(***************************************************************************)
ReadyFirst ==
  \/ thread.pc = "setup" /\ thread.msg = Ready
  \/ thread.msg = NoMsg /\ msgq # <<>> /\ Head(msgq) = Ready
  \/ thread.msg = NoMsg /\ msgq = <<>> /\ blocked = NoMsg /\ evq # <<>> /\ Head(evq) = Ready

Unreported == ~reported => state # "ERROR" /\ (state = "INIT" => ReadyFirst)

OrderInv == Unreported /\ \A f \in Files : PartsOrdered(f)

(* The numbers of the parts of a file: other messages have none. *)
LEMMA PartNumbers ==
  ASSUME NEW f \in Files
  PROVE  /\ \A m : m \in DOMAIN PartOf(f) <=> m \in PartMsgs /\ m.file = f
         /\ \A m \in DOMAIN PartOf(f) : PartOf(f)[m] = m.part /\ m.part \in Nat
         /\ \A m \in {NoMsg, Ready, Error} : SlotOf(m, PartOf(f)) = {}
         /\ \A m \in PartMsgs : SlotOf(m, PartOf(f)) = IF m.file = f THEN {m.part} ELSE {}
         /\ \A m : SlotOf(m, PartOf(f)) \subseteq Nat
         /\ \A q : NumsOf(q, PartOf(f)) \subseteq Nat
<1>1. \A m : m \in DOMAIN PartOf(f) <=> m \in PartMsgs /\ m.file = f
  BY DEF PartOf
<1>2. \A m \in PartMsgs : m \in Messages /\ m.part \in Nat
  BY MessageKinds DEF Messages
<1>3. \A m \in DOMAIN PartOf(f) : PartOf(f)[m] = m.part /\ m.part \in Nat
  BY <1>2 DEF PartOf
<1>4. \A m \in {NoMsg, Ready, Error} : m \notin PartMsgs
  <2>1. NoMsg \notin PartMsgs
    BY NoMsgAssumption DEF NoMsgAssumption, Messages
  <2>2. Ready \in Messages /\ Error \in Messages /\ Ready.kind # "PART" /\ Error.kind # "PART"
    BY DEF Messages, Ready, Error
  <2>3. Ready \notin PartMsgs /\ Error \notin PartMsgs
    BY <2>2, MessageKinds
  <2>4. QED
    BY <2>1, <2>3
<1>5. QED
  BY <1>1, <1>3, <1>4 DEF SlotOf, NumsOf

(* The places hold numbers. *)
LEMMA FlowTyped ==
  ASSUME TypeOK, NEW f \in Files
  PROVE  /\ sent[f] \in Nat /\ stored[f] \in Seq(Nat)
         /\ DOMAIN Flow(f) = 1 .. 6
         /\ \A k \in 1 .. 6 : Flow(f)[k] \subseteq Int
<1>1. sent[f] \in Nat /\ stored[f] \in Seq(Nat)
  BY DEF TypeOK
<1>2. NumsOf(stored[f], Own) \subseteq Nat
  BY DEF NumsOf, Own
<1>3. QED
  BY <1>1, <1>2, PartNumbers DEF Flow

(* The list of the event manager, with an error event or without. *)
LEMMA ErrorUnnumbered ==
  ASSUME TypeOK, NEW f \in Files, evq' = evq \/ evq' = Append(evq, Error)
  PROVE  /\ NumsOf(evq', PartOf(f)) = NumsOf(evq, PartOf(f))
         /\ InOrder(evq, PartOf(f)) => InOrder(evq', PartOf(f))
<1>0. SlotOf(Error, PartOf(f)) = {}
  BY PartNumbers
<1>1. Error \in Messages /\ evq \in Seq(Messages)
  BY DEF TypeOK, Messages
<1>2. Before(NumsOf(evq, PartOf(f)), SlotOf(Error, PartOf(f)))
  BY <1>0 DEF Before
<1>3. /\ NumsOf(Append(evq, Error), PartOf(f)) = NumsOf(evq, PartOf(f)) \union SlotOf(Error, PartOf(f))
      /\ InOrder(evq, PartOf(f)) => InOrder(Append(evq, Error), PartOf(f))
  BY <1>1, <1>2, OrderAppend
<1>4. CASE evq' = Append(evq, Error)
  BY <1>0, <1>3, <1>4
<1>5. CASE evq' = evq
  BY <1>5
<1>6. QED
  BY <1>4, <1>5

(* control.c submits the part that is next. *)
LEMMA SubmitOrdered ==
  ASSUME TypeOK, NEW f \in Files, PartsOrdered(f), NEW g \in Files, Submit(g)
  PROVE  PartsOrdered(f)'
<1> DEFINE num == PartOf(f)
           m == Part(g, sent[g] + 1)
           L == Flow(f)
           M == <<L[1], L[2], L[3], L[4], NumsOf(evq', num), {sent'[f] + 1}>>
<1>1. sent[g] \in Nat /\ sent[f] \in Nat /\ Parts[g] \in Nat /\ sent[g] < Parts[g]
  BY FsAssumption DEF Submit, TypeOK, FsAssumption
<1>2. /\ evq' = Append(evq, m) /\ UNCHANGED <<blocked, msgq, thread, stored, reported>>
      /\ sent'[f] = IF g = f THEN sent[f] + 1 ELSE sent[f]
  BY DEF Submit, card, TypeOK
<1>3. m \in PartMsgs /\ m.file = g /\ m.part = sent[g] + 1 /\ m \in Messages
  BY <1>1 DEF PartMsgs, Part, Messages
<1> HIDE DEF m
<1>4. SlotOf(m, num) = IF g = f THEN {sent[f] + 1} ELSE {}
  BY <1>3, PartNumbers
<1>5. /\ Flow(f)' = M /\ DOMAIN L = 1 .. 6 /\ DOMAIN M = 1 .. 6 /\ evq \in Seq(Messages)
      /\ L[5] = NumsOf(evq, num) /\ L[6] = {sent[f] + 1}
  BY <1>2 DEF Flow, TypeOK
<1>6. Before(NumsOf(evq, num), SlotOf(m, num))
  <2>1. Before(L[5], L[6])
    <3>1. Chain(L) /\ 5 \in DOMAIN L /\ 6 \in DOMAIN L
      BY <1>5 DEF PartsOrdered
    <3> HIDE DEF L
    <3>2. QED
      BY <3>1 DEF Chain
  <2>2. QED
    BY <1>4, <1>5, <2>1 DEF Before
<1>7. /\ NumsOf(evq', num) = NumsOf(evq, num) \union SlotOf(m, num)
      /\ InOrder(evq, num) => InOrder(evq', num)
  BY <1>2, <1>3, <1>5, <1>6, OrderAppend
<1>8. \A k \in 1 .. 6 : L[k] \subseteq Int /\ M[k] \subseteq Int
  BY <1>1, <1>2, <1>5, FlowTyped, PartNumbers
<1>9. Chain(L) /\ Chain(M)
  <2>1. Chain(L)
    BY DEF PartsOrdered
  <2>2. CASE g = f
    <3>1. M[5] = L[5] \union {sent[f] + 1} /\ M[6] = {sent[f] + 2}
      BY <1>1, <1>2, <1>4, <1>5, <1>7, <2>2
    <3>2. \A k \in (1 .. 6) \ {5, 6} : M[k] = L[k]
      OBVIOUS
    <3> DEFINE X == {sent[f] + 1}
    <3>3. X \in SUBSET L[6] /\ X # {} /\ Before(X, M[6])
      BY <1>1, <1>5, <3>1 DEF Before
    <3>4. M[5] \subseteq L[5] \union X
      BY <3>1
    <3> DEFINE j == 6
    <3>5. /\ DOMAIN L = 1 .. 6 /\ DOMAIN M = 1 .. 6 /\ 6 \in Nat /\ Chain(L)
          /\ \A k \in 1 .. 6 : L[k] \subseteq Int /\ M[k] \subseteq Int
          /\ j \in 2 .. 6 /\ X \in SUBSET L[j]
          /\ \A k \in (1 .. 6) \ {j - 1, j} : M[k] \subseteq L[k]
          /\ M[j - 1] \subseteq L[j - 1] \union X /\ Before(X, M[j])
          /\ M[j] \subseteq L[j] \/ (j = 6 /\ X # {})
      BY <1>5, <1>8, <2>1, <3>2, <3>3, <3>4
    <3> HIDE DEF X, L, M, num, j
    <3>6. QED
      BY <3>5, ChainMove
  <2>3. CASE g # f
    <3>1. M[5] = L[5] /\ M[6] = L[6]
      BY <1>2, <1>4, <1>5, <1>7, <2>3
    <3>2. \A k \in 1 .. 6 : M[k] \subseteq L[k]
      BY <3>1
    <3> HIDE DEF L, M, num
    <3>3. QED
      BY <1>5, <2>1, <3>2, ChainShrink
  <2>4. QED
    BY <2>1, <2>2, <2>3
<1>10. ~reported' => Submitted(M) = 1 .. sent'[f]
  <2> SUFFICES ASSUME ~reported' PROVE Submitted(M) = 1 .. sent'[f]
    OBVIOUS
  <2>1. Submitted(L) = 1 .. sent[f]
    BY <1>2 DEF PartsOrdered
  <2>2. M[5] = L[5] \union SlotOf(m, num)
    BY <1>5, <1>7
  <2>3. Submitted(M) = Submitted(L) \union SlotOf(m, num)
    BY <2>2 DEF Submitted
  <2>4. sent'[f] = sent[f] \/ (sent'[f] = sent[f] + 1 /\ 1 .. sent[f] + 1 = (1 .. sent[f]) \union {sent[f] + 1})
    BY <1>1, <1>2
  <2> HIDE DEF L, M, num
  <2>5. QED
    BY <1>1, <1>2, <1>4, <2>1, <2>3, <2>4
<1>11. QED
  BY <1>2, <1>5, <1>7, <1>9, <1>10 DEF PartsOrdered

(* The listener takes an event, and puts it to the queue or waits. *)
LEMMA HandledOrdered ==
  ASSUME TypeOK, NEW f \in Files, PartsOrdered(f), HandleEvent
  PROVE  PartsOrdered(f)'
<1> DEFINE num == PartOf(f)
           e == Head(evq)
           L == Flow(f)
           M == <<L[1], L[2], L[3], SlotOf(e, num), NumsOf(evq', num), L[6]>>
           N == <<L[1], L[2], L[3] \union SlotOf(e, num), {}, NumsOf(evq', num), L[6]>>
<1>1. /\ evq # <<>> /\ evq' = Tail(evq) /\ e \in Messages /\ evq \in Seq(Messages)
      /\ blocked = NoMsg /\ msgq \in Seq(Messages)
      /\ UNCHANGED <<thread, stored, sent, reported>>
      /\ \/ msgq' = Append(msgq, e) /\ blocked' = blocked
         \/ msgq' = msgq /\ blocked' = e
  BY QueuesTyped DEF HandleEvent, TypeOK, card
<1>2. SlotOf(blocked, num) = {}
  BY <1>1, PartNumbers
<1>3. /\ DOMAIN L = 1 .. 6 /\ DOMAIN M = 1 .. 6 /\ DOMAIN N = 1 .. 6
      /\ L[5] = NumsOf(evq, num) /\ L[4] = {} /\ L[3] = NumsOf(msgq, num)
  BY <1>2 DEF Flow
<1>4. /\ NumsOf(evq, num) = NumsOf(evq', num) \union SlotOf(e, num)
      /\ InOrder(evq, num) => InOrder(evq', num) /\ Before(SlotOf(e, num), NumsOf(evq', num))
  BY <1>1, OrderTail
<1>5. InOrder(evq', num) /\ Before(SlotOf(e, num), NumsOf(evq', num))
  BY <1>4 DEF PartsOrdered
<1>6. \A k \in 1 .. 6 : L[k] \subseteq Int /\ M[k] \subseteq Int /\ N[k] \subseteq Int
  <2>1. \A k \in 1 .. 6 : L[k] \subseteq Int
    BY FlowTyped
  <2>2. SlotOf(e, num) \subseteq Int /\ NumsOf(evq', num) \subseteq Int
    BY PartNumbers
  <2> HIDE DEF L, e, num
  <2>3. QED
    BY <2>1, <2>2
<1>7. Before(L[3], L[5]) /\ Chain(L)
  BY <1>3 DEF PartsOrdered, Chain
<1> DEFINE X == SlotOf(e, num)
<1>8. X \in SUBSET L[5] /\ M[4] \subseteq L[4] \union X /\ M[5] \subseteq L[5] /\ Before(X, M[5])
  BY <1>3, <1>4, <1>5
<1>9. \A k \in (1 .. 6) \ {4, 5} : M[k] \subseteq L[k]
  OBVIOUS
<1>10. /\ X \in SUBSET M[4] /\ N[3] \subseteq M[3] \union X /\ N[4] \subseteq M[4] /\ Before(X, N[4])
       /\ \A k \in (1 .. 6) \ {3, 4} : N[k] \subseteq M[k]
  BY DEF Before
<1>11. Chain(M)
  <2> DEFINE j == 5
  <2>1. /\ DOMAIN L = 1 .. 6 /\ DOMAIN M = 1 .. 6 /\ 6 \in Nat /\ Chain(L)
        /\ \A k \in 1 .. 6 : L[k] \subseteq Int /\ M[k] \subseteq Int
        /\ j \in 2 .. 6 /\ X \in SUBSET L[j]
        /\ \A k \in (1 .. 6) \ {j - 1, j} : M[k] \subseteq L[k]
        /\ M[j - 1] \subseteq L[j - 1] \union X /\ Before(X, M[j])
        /\ M[j] \subseteq L[j] \/ (j = 6 /\ X # {})
    BY <1>3, <1>6, <1>7, <1>8, <1>9
  <2> HIDE DEF L, M, X, j
  <2>2. QED
    BY <2>1, ChainMove
<1>12. Chain(N)
  <2> DEFINE j == 4
  <2>1. /\ DOMAIN M = 1 .. 6 /\ DOMAIN N = 1 .. 6 /\ 6 \in Nat /\ Chain(M)
        /\ \A k \in 1 .. 6 : M[k] \subseteq Int /\ N[k] \subseteq Int
        /\ j \in 2 .. 6 /\ X \in SUBSET M[j]
        /\ \A k \in (1 .. 6) \ {j - 1, j} : N[k] \subseteq M[k]
        /\ N[j - 1] \subseteq M[j - 1] \union X /\ Before(X, N[j])
        /\ N[j] \subseteq M[j] \/ (j = 6 /\ X # {})
    BY <1>3, <1>6, <1>10, <1>11
  <2> HIDE DEF L, M, N, X, j
  <2>2. QED
    BY <2>1, ChainMove
<1>13. Submitted(M) = Submitted(L) /\ Submitted(N) = Submitted(L)
  BY <1>3, <1>4 DEF Submitted
<1>14. CASE msgq' = Append(msgq, e) /\ blocked' = blocked
  <2>1. Before(NumsOf(msgq, num), SlotOf(e, num))
    BY <1>3, <1>4, <1>7 DEF Before
  <2>2. /\ NumsOf(Append(msgq, e), num) = NumsOf(msgq, num) \union SlotOf(e, num)
        /\ InOrder(msgq, num) => InOrder(Append(msgq, e), num)
    <3> HIDE DEF e, num
    <3>1. QED
      BY <1>1, <2>1, OrderAppend
  <2>3. Flow(f)' = N
    BY <1>1, <1>2, <1>14, <2>2 DEF Flow
  <2>4. QED
    BY <1>1, <1>5, <1>12, <1>13, <1>14, <2>2, <2>3 DEF PartsOrdered
<1>15. CASE msgq' = msgq /\ blocked' = e
  <2>1. Flow(f)' = M
    BY <1>1, <1>15 DEF Flow
  <2>2. QED
    BY <1>1, <1>5, <1>11, <1>13, <1>15, <2>1 DEF PartsOrdered
<1>16. QED
  BY <1>1, <1>14, <1>15

(* The message that waited is put to the queue. *)
LEMMA PutOrdered ==
  ASSUME TypeOK, NEW f \in Files, PartsOrdered(f), PutResumes
  PROVE  PartsOrdered(f)'
<1> DEFINE num == PartOf(f)
           X == SlotOf(blocked, num)
           L == Flow(f)
           N == <<L[1], L[2], L[3] \union X, {}, L[5], L[6]>>
<1>1. /\ blocked \in Messages /\ msgq \in Seq(Messages)
      /\ msgq' = Append(msgq, blocked) /\ blocked' = NoMsg
      /\ UNCHANGED <<evq, thread, stored, sent, reported>>
  BY DEF PutResumes, TypeOK, card
<1>2. SlotOf(NoMsg, num) = {}
  BY PartNumbers
<1>3. /\ DOMAIN L = 1 .. 6 /\ DOMAIN N = 1 .. 6
      /\ L[4] = X /\ L[3] = NumsOf(msgq, num)
  BY DEF Flow
<1>4. Before(NumsOf(msgq, num), SlotOf(blocked, num)) /\ Chain(L)
  BY <1>3 DEF PartsOrdered, Chain
<1>5. /\ NumsOf(msgq', num) = NumsOf(msgq, num) \union SlotOf(blocked, num)
      /\ InOrder(msgq, num) => InOrder(msgq', num)
  BY <1>1, <1>4, OrderAppend
<1>6. Flow(f)' = N
  BY <1>1, <1>2, <1>5 DEF Flow
<1>7. \A k \in 1 .. 6 : L[k] \subseteq Int /\ N[k] \subseteq Int
  <2>1. \A k \in 1 .. 6 : L[k] \subseteq Int
    BY FlowTyped
  <2> HIDE DEF L
  <2>2. QED
    BY <1>3, <2>1
<1>8. Chain(N)
  <2>1. /\ X \in SUBSET L[4] /\ N[3] \subseteq L[3] \union X /\ N[4] \subseteq L[4] /\ Before(X, N[4])
        /\ \A k \in (1 .. 6) \ {3, 4} : N[k] \subseteq L[k]
    BY <1>3 DEF Before
  <2> DEFINE j == 4
  <2>2. /\ DOMAIN L = 1 .. 6 /\ DOMAIN N = 1 .. 6 /\ 6 \in Nat /\ Chain(L)
        /\ \A k \in 1 .. 6 : L[k] \subseteq Int /\ N[k] \subseteq Int
        /\ j \in 2 .. 6 /\ X \in SUBSET L[j]
        /\ \A k \in (1 .. 6) \ {j - 1, j} : N[k] \subseteq L[k]
        /\ N[j - 1] \subseteq L[j - 1] \union X /\ Before(X, N[j])
        /\ N[j] \subseteq L[j] \/ (j = 6 /\ X # {})
    BY <1>3, <1>4, <1>7, <2>1
  <2> HIDE DEF L, N, X, j
  <2>3. QED
    BY <2>2, ChainMove
<1>9. Submitted(N) = Submitted(L)
  BY <1>3 DEF Submitted
<1>10. QED
  BY <1>1, <1>5, <1>6, <1>8, <1>9 DEF PartsOrdered

(* The module thread takes a message: none of it is a part that it drops,  *)
(* unless an error was reported.                                           *)
LEMMA TakenOrdered ==
  ASSUME TypeOK, Unreported, NEW f \in Files, PartsOrdered(f), GetMessage
  PROVE  PartsOrdered(f)'
<1> DEFINE num == PartOf(f)
           m == Head(msgq)
           X == SlotOf(m, num)
           L == Flow(f)
           M == <<L[1], X, NumsOf(msgq', num), L[4], L[5], L[6]>>
           N == <<L[1], {}, NumsOf(msgq', num), L[4], L[5], L[6]>>
<1>1. /\ msgq # <<>> /\ msgq' = Tail(msgq) /\ m \in Messages /\ msgq \in Seq(Messages)
      /\ thread.msg = NoMsg /\ UNCHANGED <<evq, blocked, stored, sent, reported>>
  BY GetMessageCases DEF TypeOK
<1>2. SlotOf(thread.msg, num) = {} /\ SlotOf(NoMsg, num) = {}
  BY <1>1, PartNumbers
<1>3. /\ DOMAIN L = 1 .. 6 /\ DOMAIN M = 1 .. 6 /\ DOMAIN N = 1 .. 6
      /\ L[2] = {} /\ L[3] = NumsOf(msgq, num)
  BY <1>2 DEF Flow
<1>4. /\ NumsOf(msgq, num) = NumsOf(msgq', num) \union SlotOf(m, num)
      /\ InOrder(msgq, num) => InOrder(msgq', num) /\ Before(SlotOf(m, num), NumsOf(msgq', num))
  BY <1>1, OrderTail
<1>5. InOrder(msgq', num) /\ Before(X, NumsOf(msgq', num)) /\ Chain(L)
  BY <1>4 DEF PartsOrdered
<1>6. \A k \in 1 .. 6 : L[k] \subseteq Int /\ M[k] \subseteq Int
  <2>1. \A k \in 1 .. 6 : L[k] \subseteq Int
    BY FlowTyped
  <2>2. X \subseteq Int /\ NumsOf(msgq', num) \subseteq Int
    BY PartNumbers
  <2> HIDE DEF L, X, num
  <2>3. QED
    BY <2>1, <2>2
<1>7. Chain(M)
  <2> DEFINE j == 3
  <2>1. /\ DOMAIN L = 1 .. 6 /\ DOMAIN M = 1 .. 6 /\ 6 \in Nat /\ Chain(L)
        /\ \A k \in 1 .. 6 : L[k] \subseteq Int /\ M[k] \subseteq Int
        /\ j \in 2 .. 6 /\ X \in SUBSET L[j]
        /\ \A k \in (1 .. 6) \ {j - 1, j} : M[k] \subseteq L[k]
        /\ M[j - 1] \subseteq L[j - 1] \union X /\ Before(X, M[j])
        /\ M[j] \subseteq L[j] \/ (j = 6 /\ X # {})
    BY <1>3, <1>4, <1>5, <1>6
  <2> HIDE DEF L, M, X, j
  <2>2. QED
    BY <2>1, ChainMove
<1>8. Chain(N)
  <2>1. DOMAIN N = DOMAIN L /\ \A k \in DOMAIN L : N[k] \subseteq L[k]
    BY <1>3, <1>4
  <2> HIDE DEF L, N
  <2>2. QED
    BY <1>5, <2>1, ChainShrink
<1>9. Submitted(M) = Submitted(L) /\ Submitted(N) \union X = Submitted(L)
  BY <1>3, <1>4 DEF Submitted
<1>10. ASSUME NEW pc, At(pc, m) PROVE PartsOrdered(f)'
  <2>1. thread'.msg = m
    BY <1>10 DEF At
  <2>2. Flow(f)' = M
    BY <1>1, <2>1 DEF Flow
  <2>3. QED
    BY <1>1, <1>5, <1>7, <1>9, <2>2 DEF PartsOrdered
<1>11. CASE /\ ~(state = "INIT" /\ m = Ready) /\ ~(state = "READY" /\ m \in PartMsgs)
            /\ Finish(m)
  <2>1. thread'.msg = NoMsg
    BY <1>11 DEF Finish, Idle
  <2>2. Flow(f)' = N
    BY <1>1, <1>2, <2>1 DEF Flow
  <2>3. ~reported => X = {}
    <3> SUFFICES ASSUME ~reported PROVE X = {}
      OBVIOUS
    <3>1. state # "ERROR" /\ state # "INIT"
      BY <1>1, <1>11, NoMsgAssumption DEF Unreported, ReadyFirst, NoMsgAssumption, Messages
    <3>2. m \notin PartMsgs
      BY <1>11, <3>1 DEF TypeOK
    <3>3. QED
      BY <3>2, PartNumbers DEF SlotOf
  <2>4. ~reported => Submitted(N) = Submitted(L)
    BY <1>9, <2>3
  <2>5. QED
    BY <1>1, <1>5, <1>8, <2>2, <2>4 DEF PartsOrdered
<1>12. QED
  <2>1. CASE state = "INIT" /\ m = Ready
    BY <1>10, <2>1 DEF GetMessage, Ready
  <2>2. CASE state = "READY" /\ m \in PartMsgs
    <3>1. m.kind = "PART"
      BY <1>1, <2>2, MessageKinds
    <3>2. At("write", m)
      BY <2>2, <3>1 DEF GetMessage
    <3>3. QED
      BY <1>10, <3>2
  <2>3. CASE ~(state = "INIT" /\ m = Ready) /\ ~(state = "READY" /\ m \in PartMsgs)
    BY <1>10, <1>11, <2>3, GetMessageCases
  <2>4. QED
    BY <2>1, <2>2, <2>3

(* The card is set up, or not: the message was no part. *)
LEMMA SetupOrdered ==
  ASSUME TypeOK, RecoveryInv, Unreported, NEW f \in Files, PartsOrdered(f), Setup
  PROVE  PartsOrdered(f)'
<1> DEFINE num == PartOf(f)
           L == Flow(f)
           N == <<L[1], {}, L[3], L[4], L[5], L[6]>>
<1>1. /\ thread.pc = "setup" /\ thread'.msg = NoMsg
      /\ UNCHANGED <<blocked, msgq, stored, sent>>
      /\ evq' = evq \/ evq' = Append(evq, Error)
      /\ ~reported' => ~reported
  BY DEF Setup, Fail, Finish, Idle, card
<1>2. /\ NumsOf(evq', num) = NumsOf(evq, num) /\ InOrder(evq', num)
      /\ SlotOf(NoMsg, num) = {} /\ Chain(L)
  BY <1>1, ErrorUnnumbered, PartNumbers DEF PartsOrdered
<1>3. Flow(f)' = N /\ DOMAIN L = 1 .. 6 /\ DOMAIN N = 1 .. 6 /\ L[2] = SlotOf(thread.msg, num)
  BY <1>1, <1>2 DEF Flow
<1>4. Chain(N)
  <2>1. DOMAIN N = DOMAIN L /\ \A k \in DOMAIN L : N[k] \subseteq L[k]
    BY <1>3
  <2> HIDE DEF L, N
  <2>2. QED
    BY <1>2, <2>1, ChainShrink
<1>5. ~reported => Submitted(N) = Submitted(L)
  <2> SUFFICES ASSUME ~reported PROVE Submitted(N) = Submitted(L)
    OBVIOUS
  <2>1. thread.msg = Ready
    BY <1>1 DEF Unreported, RecoveryInv, SetupConsumes, TypeOK
  <2>2. L[2] = {}
    BY <1>3, <2>1, PartNumbers
  <2>3. QED
    BY <2>2 DEF Submitted
<1>6. QED
  BY <1>1, <1>2, <1>3, <1>4, <1>5 DEF PartsOrdered

(* A part is written to its file behind the others, or an error reported. *)
LEMMA WrittenOrdered ==
  ASSUME TypeOK, NEW f \in Files, PartsOrdered(f), Write
  PROVE  PartsOrdered(f)'
<1> DEFINE num == PartOf(f)
           m == thread.msg
           X == SlotOf(m, num)
           L == Flow(f)
           M == <<L[1] \union X, {}, L[3], L[4], L[5], L[6]>>
           N == <<L[1], {}, L[3], L[4], L[5], L[6]>>
<1>1. /\ m \in PartMsgs /\ thread'.msg = NoMsg /\ stored[f] \in Seq(Nat)
      /\ UNCHANGED <<blocked, msgq, sent>>
      /\ evq' = evq \/ evq' = Append(evq, Error)
      /\ Store(m) \/ stored' = stored
      /\ ~reported' => ~reported /\ Store(m)
  BY DEF Write, Fail, Finish, Idle, card, TypeOK
<1>2. /\ NumsOf(evq', num) = NumsOf(evq, num) /\ InOrder(evq', num)
      /\ SlotOf(NoMsg, num) = {} /\ Chain(L)
  BY <1>1, ErrorUnnumbered, PartNumbers DEF PartsOrdered
<1>3. m.part \in Nat /\ X = IF m.file = f THEN {m.part} ELSE {}
  BY <1>1, PartNumbers, MessageKinds DEF Messages
<1>4. /\ DOMAIN L = 1 .. 6 /\ DOMAIN M = 1 .. 6 /\ DOMAIN N = 1 .. 6
      /\ L[1] = NumsOf(stored[f], Own) /\ L[2] = X
  BY DEF Flow
<1>5. Before(L[1], L[2])
  <2>1. Chain(L) /\ 1 \in DOMAIN L /\ 2 \in DOMAIN L
    BY <1>2, <1>4
  <2> HIDE DEF L
  <2>2. QED
    BY <2>1 DEF Chain
<1>6. CASE stored'[f] = stored[f] /\ (reported' \/ X = {})
  <2>1. Flow(f)' = N
    BY <1>1, <1>2, <1>6 DEF Flow
  <2>2. Chain(N)
    <3>1. DOMAIN N = DOMAIN L /\ \A k \in DOMAIN L : N[k] \subseteq L[k]
      BY <1>4
    <3> HIDE DEF L, N
    <3>2. QED
      BY <1>2, <3>1, ChainShrink
  <2>3. X = {} => Submitted(N) = Submitted(L)
    BY <1>4 DEF Submitted
  <2>4. QED
    BY <1>1, <1>2, <1>6, <2>1, <2>2, <2>3 DEF PartsOrdered
<1>7. CASE m.file = f /\ stored'[f] = Append(stored[f], m.part)
  <2>1. SlotOf(m.part, Own) = X
    BY <1>3, <1>7 DEF SlotOf, Own
  <2>2. Before(NumsOf(stored[f], Own), SlotOf(m.part, Own))
    BY <1>4, <1>5, <2>1
  <2>3. /\ NumsOf(stored'[f], Own) = NumsOf(stored[f], Own) \union SlotOf(m.part, Own)
        /\ InOrder(stored[f], Own) => InOrder(stored'[f], Own)
    <3> HIDE DEF m
    <3>1. QED
      BY <1>1, <1>3, <1>7, <2>2, OrderAppend
  <2>4. Flow(f)' = M
    BY <1>1, <1>2, <2>1, <2>3 DEF Flow
  <2>5. \A k \in 1 .. 6 : L[k] \subseteq Int /\ M[k] \subseteq Int
    <3>1. \A k \in 1 .. 6 : L[k] \subseteq Int
      BY FlowTyped
    <3> HIDE DEF L, X
    <3>2. QED
      BY <1>4, <3>1
  <2>6. Chain(M)
    <3> DEFINE j == 2
    <3>1. /\ DOMAIN L = 1 .. 6 /\ DOMAIN M = 1 .. 6 /\ 6 \in Nat /\ Chain(L)
          /\ \A k \in 1 .. 6 : L[k] \subseteq Int /\ M[k] \subseteq Int
          /\ j \in 2 .. 6 /\ X \in SUBSET L[j]
          /\ \A k \in (1 .. 6) \ {j - 1, j} : M[k] \subseteq L[k]
          /\ M[j - 1] \subseteq L[j - 1] \union X /\ Before(X, M[j])
          /\ M[j] \subseteq L[j] \/ (j = 6 /\ X # {})
      BY <1>2, <1>4, <2>5 DEF Before
    <3> HIDE DEF L, M, X, j
    <3>2. QED
      BY <3>1, ChainMove
  <2>7. Submitted(M) = Submitted(L)
    BY <1>4 DEF Submitted
  <2>8. QED
    BY <1>1, <1>2, <2>3, <2>4, <2>6, <2>7 DEF PartsOrdered
<1>8. QED
  <2>1. CASE Store(m)
    <3>1. stored'[f] = IF m.file = f THEN Append(stored[f], m.part) ELSE stored[f]
      BY <2>1 DEF Store, TypeOK
    <3>2. QED
      BY <1>3, <1>6, <1>7, <3>1
  <2>2. CASE stored' = stored /\ ~Store(m)
    BY <1>1, <1>6, <2>2
  <2>3. QED
    BY <1>1, <2>1, <2>2

(* READY stays in front until the card is set up for it. *)
LEMMA UnreportedStep ==
  ASSUME TypeOK, RecoveryInv, Unreported, [Next]_vars
  PROVE  Unreported'
<1> SUFFICES ASSUME ~reported' PROVE (state # "ERROR" /\ (state = "INIT" => ReadyFirst))'
  BY DEF Unreported
<1>0. Ready \in Messages /\ Ready # NoMsg /\ Len(<<>>) = 0 /\ QueueLen \in Nat \ {0}
  BY NoMsgAssumption, FsAssumption DEF NoMsgAssumption, FsAssumption, Messages
<1>1. CASE UNCHANGED vars
  BY <1>1 DEF vars, card, Unreported, ReadyFirst
<1>2. ASSUME NEW g \in Files, Submit(g) PROVE Unreported'
  <2>1. PICK m : evq' = Append(evq, m) /\ UNCHANGED <<state, blocked, msgq, thread, reported>>
    BY <1>2 DEF Submit
  <2>2. evq # <<>> => evq' # <<>> /\ Head(evq') = Head(evq)
    BY <2>1 DEF TypeOK
  <2>3. QED
    BY <2>1, <2>2 DEF Unreported, ReadyFirst
<1>3. CASE HandleEvent
  <2>1. /\ evq # <<>> /\ blocked = NoMsg /\ UNCHANGED <<state, thread, reported>>
        /\ Head(evq) \in Messages
    BY <1>3, QueuesTyped DEF HandleEvent
  <2>2. CASE msgq # <<>>
    <3>1. msgq' = msgq \/ msgq' = Append(msgq, Head(evq))
      BY <1>3 DEF HandleEvent
    <3>2. msgq \in Seq(Messages)
      BY DEF TypeOK
    <3>3. msgq' # <<>> /\ Head(msgq') = Head(msgq)
      BY <2>1, <2>2, <3>1, <3>2
    <3>4. QED
      BY <2>1, <2>2, <3>3 DEF Unreported, ReadyFirst
  <2>3. CASE msgq = <<>>
    <3>1. msgq' = Append(<<>>, Head(evq))
      BY <1>0, <1>3, <2>3 DEF HandleEvent
    <3>2. msgq' # <<>> /\ Head(msgq') = Head(evq)
      BY <2>1, <3>1
    <3>3. QED
      BY <2>1, <2>3, <3>2 DEF Unreported, ReadyFirst
  <2>4. QED
    BY <2>2, <2>3
<1>4. CASE PutResumes
  <2>1. /\ blocked \in Messages /\ blocked # NoMsg /\ msgq' = Append(msgq, blocked)
        /\ UNCHANGED <<state, thread, reported>>
    BY <1>4 DEF PutResumes, TypeOK
  <2>2. msgq # <<>> => msgq' # <<>> /\ Head(msgq') = Head(msgq)
    BY <2>1 DEF TypeOK
  <2>3. QED
    BY <2>1, <2>2 DEF Unreported, ReadyFirst
<1>5. CASE GetMessage
  <2>1. /\ msgq # <<>> /\ thread.pc = "get" /\ thread.msg = NoMsg
        /\ UNCHANGED <<state, reported>>
    BY <1>5, GetMessageCases DEF TypeOK
  <2>2. ASSUME state = "INIT" PROVE ReadyFirst'
    <3>1. Head(msgq) = Ready
      BY <1>0, <2>1, <2>2 DEF Unreported, ReadyFirst
    <3>2. At("setup", Ready)
      BY <1>5, <2>2, <3>1 DEF GetMessage, Ready
    <3>3. QED
      BY <3>2 DEF At, ReadyFirst
  <2>3. QED
    BY <2>1, <2>2 DEF Unreported
<1>6. CASE Setup
  BY <1>6 DEF Setup, Fail
<1>7. CASE Write
  BY <1>7 DEF Write, Fail, TypeOK
<1>8. QED
  BY <1>1, <1>2, <1>3, <1>4, <1>5, <1>6, <1>7 DEF Next, Workqueue, ModuleThread, Unreported

LEMMA OrderInit == Init => OrderInv
<1> SUFFICES ASSUME Init PROVE OrderInv
  OBVIOUS
<1>1. Unreported
  BY DEF Init, Idle, Unreported, ReadyFirst
<1>2. ASSUME NEW f \in Files PROVE PartsOrdered(f)
  <2> DEFINE num == PartOf(f)
  <2>1. /\ stored[f] = <<>> /\ thread.msg = NoMsg /\ msgq = <<>> /\ blocked = NoMsg
        /\ evq = <<Ready>> /\ sent[f] = 0
    BY DEF Init, Idle
  <2>2. /\ NumsOf(stored[f], Own) = {} /\ InOrder(stored[f], Own)
        /\ NumsOf(msgq, num) = {} /\ InOrder(msgq, num)
    BY <2>1, OrderEmpty
  <2>3. SlotOf(NoMsg, num) = {} /\ SlotOf(Ready, num) = {}
    BY PartNumbers
  <2>4. NumsOf(evq, num) = {} /\ InOrder(evq, num)
    BY <2>1, <2>3, OrderOne
  <2>5. Flow(f) = <<{}, {}, {}, {}, {}, {1}>>
    BY <2>1, <2>2, <2>3, <2>4 DEF Flow
  <2>6. Chain(Flow(f)) /\ Submitted(Flow(f)) = 1 .. 0
    BY <2>5 DEF Chain, Before, Submitted
  <2>7. QED
    BY <2>1, <2>2, <2>4, <2>6 DEF PartsOrdered
<1>3. QED
  BY <1>1, <1>2 DEF OrderInv

LEMMA OrderStep == TypeOK /\ RecoveryInv /\ OrderInv /\ [Next]_vars => OrderInv'
<1> SUFFICES ASSUME TypeOK, RecoveryInv, OrderInv, [Next]_vars PROVE OrderInv'
  OBVIOUS
<1>1. Unreported /\ Unreported'
  BY UnreportedStep DEF OrderInv
<1>2. ASSUME NEW f \in Files PROVE PartsOrdered(f)'
  <2>1. PartsOrdered(f)
    BY DEF OrderInv
  <2>2. CASE UNCHANGED vars
    BY <2>1, <2>2 DEF vars, card, PartsOrdered, Flow
  <2>3. ASSUME NEW g \in Files, Submit(g) PROVE PartsOrdered(f)'
    BY <2>1, <2>3, SubmitOrdered
  <2>4. CASE Workqueue
    BY <2>1, <2>4, HandledOrdered, PutOrdered DEF Workqueue
  <2>5. CASE ModuleThread
    BY <1>1, <2>1, <2>5, TakenOrdered, SetupOrdered, WrittenOrdered DEF ModuleThread
  <2>6. QED
    BY <2>2, <2>3, <2>4, <2>5 DEF Next
<1>3. QED
  BY <1>1, <1>2 DEF OrderInv

(* The places put together are the path. *)
LEMMA PathOrdered ==
  ASSUME TypeOK, OrderInv
  PROVE  NothingLostSilently
<1> SUFFICES ASSUME NEW f \in Files
             PROVE  /\ \A i, j \in DOMAIN stored[f] : i < j => stored[f][i] < stored[f][j]
                    /\ Before(OnCard(f), NumsOf(Path, PartOf(f)))
                    /\ InOrder(Path, PartOf(f))
                    /\ ~reported => OnCard(f) \union NumsOf(Path, PartOf(f)) = 1 .. sent[f]
  BY DEF NothingLostSilently
<1> DEFINE T == Messages \union {NoMsg}
           num == PartOf(f)
           L == Flow(f)
           held == <<thread.msg>>
           put == <<blocked>>
           wait == put \o evq
           queued == msgq \o wait
<1>1. /\ held \in Seq(T) /\ msgq \in Seq(T) /\ put \in Seq(T) /\ evq \in Seq(T)
      /\ stored[f] \in Seq(Nat) /\ sent[f] \in Nat
  BY DEF TypeOK, ThreadType
<1>2. wait \in Seq(T) /\ queued \in Seq(T) /\ Path = held \o queued
  BY <1>1 DEF Path
<1>3. /\ Chain(L) /\ DOMAIN L = 1 .. 6
      /\ InOrder(stored[f], Own) /\ InOrder(msgq, num) /\ InOrder(evq, num)
      /\ ~reported => Submitted(L) = 1 .. sent[f]
  BY FlowTyped DEF OrderInv, PartsOrdered
<1>4. /\ L[1] = NumsOf(stored[f], Own) /\ L[2] = NumsOf(held, num)
      /\ L[3] = NumsOf(msgq, num) /\ L[4] = NumsOf(put, num) /\ L[5] = NumsOf(evq, num)
      /\ InOrder(held, num) /\ InOrder(put, num)
  BY OrderOne DEF Flow
<1>5. /\ NumsOf(stored[f], Own) = OnCard(f)
      /\ \A i, j \in DOMAIN stored[f] : i < j => stored[f][i] < stored[f][j]
  <2>1. \A i \in DOMAIN stored[f] : stored[f][i] \in DOMAIN Own /\ Own[stored[f][i]] = stored[f][i]
    BY <1>1 DEF Own
  <2>2. QED
    BY <1>3, <2>1 DEF NumsOf, OnCard, InOrder
<1> HIDE DEF L, T, num, held, put
<1>6. \A i, j \in 1 .. 5 : i < j => Before(L[i], L[j])
  BY <1>3 DEF Chain
<1>7. NumsOf(wait, num) = L[4] \union L[5] /\ InOrder(wait, num)
  <2>1. Before(NumsOf(put, num), NumsOf(evq, num)) /\ InOrder(put, num) /\ InOrder(evq, num)
    BY <1>3, <1>4, <1>6
  <2>2. put \in Seq(T) /\ evq \in Seq(T)
    BY <1>1, <1>2
  <2>3. /\ NumsOf(put \o evq, num) = NumsOf(put, num) \union NumsOf(evq, num)
        /\ InOrder(put \o evq, num)
    BY <2>1, <2>2, OrderConcat
  <2>4. QED
    BY <1>4, <2>3
<1> HIDE DEF wait
<1>8. NumsOf(queued, num) = L[3] \union L[4] \union L[5] /\ InOrder(queued, num)
  <2>1. Before(NumsOf(msgq, num), NumsOf(wait, num)) /\ InOrder(msgq, num) /\ InOrder(wait, num)
    BY <1>3, <1>4, <1>6, <1>7 DEF Before
  <2>2. msgq \in Seq(T) /\ wait \in Seq(T)
    BY <1>1, <1>2
  <2>3. /\ NumsOf(msgq \o wait, num) = NumsOf(msgq, num) \union NumsOf(wait, num)
        /\ InOrder(msgq \o wait, num)
    BY <2>1, <2>2, OrderConcat
  <2>4. QED
    BY <1>4, <1>7, <2>3
<1> HIDE DEF queued
<1>9. NumsOf(Path, num) = L[2] \union L[3] \union L[4] \union L[5] /\ InOrder(Path, num)
  <2>1. Before(NumsOf(held, num), NumsOf(queued, num)) /\ InOrder(held, num) /\ InOrder(queued, num)
    BY <1>4, <1>6, <1>8 DEF Before
  <2>2. held \in Seq(T) /\ queued \in Seq(T)
    BY <1>1, <1>2
  <2>3. /\ NumsOf(held \o queued, num) = NumsOf(held, num) \union NumsOf(queued, num)
        /\ InOrder(held \o queued, num)
    BY <2>1, <2>2, OrderConcat
  <2>4. QED
    BY <1>2, <1>4, <1>8, <2>3
<1>10. Before(L[1], L[2] \union L[3] \union L[4] \union L[5])
  BY <1>6 DEF Before
<1>11. QED
  BY <1>3, <1>4, <1>5, <1>9, <1>10 DEF Submitted, num

(***************************************************************************)
(* No part is lost without an error event, written twice or out of order:  *)
(* for every number of files and parts, and every length of the queues.    *)
(***************************************************************************)
THEOREM PartsCorrect == Spec => []NothingLostSilently
<1>1. TypeOK /\ OrderInv => NothingLostSilently
  BY PathOrdered
<1>2. QED
  BY <1>1, OrderInit, OrderStep, RecoveryInit, RecoveryStep, TypeCorrect, PTL DEF Spec

=============================================================================
