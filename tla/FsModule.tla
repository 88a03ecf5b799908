------------------------------ MODULE FsModule ------------------------------
(***************************************************************************)
(* The file module of the data collector, src/modules/fs/: it writes the   *)
(* parts of images and heat maps that control.c submits to the SD card.    *)
(*                                                                         *)
(* The system workqueue runs the event listener, which blocks when the     *)
(* module's message queue is full; the module thread takes the messages.   *)
(* Recovery from an error is driven by the module's own FS_EVT_ERROR, that *)
(* travels through both queues behind the parts that wait in them.         *)
(*                                                                         *)
(* Not here: FS_EVT_READ_FILE_REQ and FS_EVT_DELETE_FILE, which nothing    *)
(* submits, and the bytes of a part.                                       *)
(***************************************************************************)
EXTENDS Queues, Integers

CONSTANTS
  Files,       (* the names of the files                                   *)
  Parts,       (* the number of parts of each file                         *)
  NoMsg,       (* no message                                               *)
  QueueLen,    (* FS_QUEUE_ENTRY_COUNT                                     *)
  Handles,     (* open files the file system allows: FS_FATFS_NUM_FILES    *)
  MaxEvents    (* bound: parts waiting in the event manager                *)

ASSUME FsAssumption ==
  /\ Parts \in [Files -> Nat \ {0}]
  /\ QueueLen \in Nat \ {0}
  /\ Handles \in Nat \ {0}
  /\ MaxEvents \in Nat \ {0}

VARIABLES
  state,       (* static enum state_type state                             *)
  evq,         (* the event manager's queue, this module's events only     *)
  blocked,     (* the message the workqueue waits to put, or NoMsg         *)
  msgq,        (* msgq_fs                                                  *)
  thread,      (* the module thread: where it is, and its message          *)
  live,        (* payloads (dyndata) allocated and not freed               *)
  handles,     (* file objects that are free                               *)
  sent,        (* how many parts of each file control.c has submitted      *)
  stored,      (* the parts on the card, of each file, in their order      *)
  reported     (* ghost: an FS_EVT_ERROR has been submitted                *)

vars == <<state, evq, blocked, msgq, thread, live, handles, sent, stored, reported>>
card == <<handles, stored>>

Ready == [kind |-> "READY"]
Error == [kind |-> "ERROR"]
Part(f, n) == [kind |-> "PART", file |-> f, part |-> n]

PartMsgs == UNION {{Part(f, n) : n \in 1 .. Parts[f]} : f \in Files}
Messages == {Ready, Error} \union PartMsgs

ASSUME NoMsgAssumption == NoMsg \notin Messages

Payloads(m) == IF m # NoMsg /\ m.kind = "PART" THEN 1 ELSE 0

Idle == [pc |-> "get", msg |-> NoMsg]

(* SEND_ERROR, and the state that follows it. *)
Fail ==
  /\ evq' = Append(evq, Error)
  /\ state' = "ERROR"
  /\ reported' = TRUE

-----------------------------------------------------------------------------
(* The system workqueue *)

(***************************************************************************)
(* control.c submits the next part of a file: the first with               *)
(* FS_EVT_WRITE_FILE, the others with FS_EVT_APPEND_FILE.                  *)
(***************************************************************************)
Submit(f) ==
  /\ sent[f] < Parts[f]
  /\ Len(evq) < MaxEvents
  /\ sent' = [sent EXCEPT ![f] = @ + 1]
  /\ evq' = Append(evq, Part(f, sent[f] + 1))
  /\ UNCHANGED <<state, blocked, msgq, thread, live, card, reported>>

(* Mutant of HandleEvent: a message that finds the queue full is dropped. *)
HandleEventNoWait ==
  /\ blocked = NoMsg
  /\ evq # <<>>
  /\ evq' = Tail(evq)
  /\ IF Len(msgq) < QueueLen
     THEN /\ msgq' = Append(msgq, Head(evq))
          /\ live' = live + Payloads(Head(evq))
     ELSE UNCHANGED <<msgq, live>>
  /\ UNCHANGED <<state, blocked, thread, card, sent, reported>>

(***************************************************************************)
(* event_handler(): the payload of a part is copied to the heap, and       *)
(* k_msgq_put(..., K_FOREVER) appends the message or blocks.               *)
(***************************************************************************)
HandleEvent ==
  /\ blocked = NoMsg
  /\ evq # <<>>
  /\ evq' = Tail(evq)
  /\ live' = live + Payloads(Head(evq))
  /\ IF Len(msgq) < QueueLen
     THEN msgq' = Append(msgq, Head(evq)) /\ UNCHANGED blocked
     ELSE blocked' = Head(evq) /\ UNCHANGED msgq
  /\ UNCHANGED <<state, thread, card, sent, reported>>

PutResumes ==
  /\ blocked # NoMsg
  /\ Len(msgq) < QueueLen
  /\ msgq' = Append(msgq, blocked)
  /\ blocked' = NoMsg
  /\ UNCHANGED <<state, evq, thread, live, card, sent, reported>>

-----------------------------------------------------------------------------
(* The module thread *)

(* on_all_states(): the payload is freed, and the next message is taken. *)
Finish(m) ==
  /\ live' = live - Payloads(m)
  /\ thread' = Idle

At(pc, m) == thread' = [pc |-> pc, msg |-> m] /\ UNCHANGED live

(* module_get_next_msg() and the switch on the state. *)
GetMessage ==
  /\ thread.pc = "get"
  /\ msgq # <<>>
  /\ msgq' = Tail(msgq)
  /\ LET m == Head(msgq)
     IN  CASE state = "INIT" /\ m.kind = "READY"  -> At("setup", m)
           [] state = "ERROR" /\ m.kind = "ERROR" -> At("setup", m)
           [] state = "READY" /\ m.kind = "PART"  -> At("write", m)
           [] OTHER                               -> Finish(m)
  /\ UNCHANGED <<state, evq, blocked, card, sent, reported>>

(* Mutant of Setup: an error event only for the first failure. *)
SetupReportsOnce ==
  /\ thread.pc = "setup"
  /\ \/ state' = "READY" /\ UNCHANGED <<evq, reported>>
     \/ state = "INIT" /\ Fail
     \/ state = "ERROR" /\ UNCHANGED <<state, evq, reported>>
  /\ Finish(thread.msg)
  /\ UNCHANGED <<blocked, msgq, card, sent>>

(***************************************************************************)
(* init_fs_module(): the card is found, unmounted, mounted and listed, or  *)
(* one of these fails.  A file object that was not closed stays in use.    *)
(***************************************************************************)
Setup ==
  /\ thread.pc = "setup"
  /\ \/ state' = "READY" /\ UNCHANGED <<evq, reported>>
     \/ Fail
  /\ Finish(thread.msg)
  /\ UNCHANGED <<blocked, msgq, card, sent>>

Store(m) == stored' = [stored EXCEPT ![m.file] = Append(@, m.part)]

(* Mutant of Write: a file that cannot be opened is not reported. *)
WriteIgnoresOpen ==
  /\ thread.pc = "write"
  /\ \/ handles > 0 /\ Store(thread.msg) /\ UNCHANGED <<state, evq, reported, handles>>
     \/ UNCHANGED <<state, evq, reported, card>>
  /\ Finish(thread.msg)
  /\ UNCHANGED <<blocked, msgq, sent>>

(* Mutant of Write: the payload of a part that fails is not freed. *)
WriteLeaksOnError ==
  /\ thread.pc = "write"
  /\ \/ /\ handles > 0
        /\ Store(thread.msg)
        /\ Finish(thread.msg)
        /\ UNCHANGED <<state, evq, reported, handles>>
     \/ Fail /\ UNCHANGED card /\ thread' = Idle /\ UNCHANGED live
  /\ UNCHANGED <<blocked, msgq, sent>>

(***************************************************************************)
(* fs_helper_file_write(): the part is written; or the file cannot be      *)
(* opened, for want of a file object too; or it cannot be closed; or the   *)
(* write is short, of which something may be on the card, and the function *)
(* returns without closing the file.                                       *)
(***************************************************************************)
Write ==
  /\ thread.pc = "write"
  /\ \/ handles > 0 /\ Store(thread.msg) /\ UNCHANGED <<state, evq, reported, handles>>
     \/ Fail /\ UNCHANGED card
     \/ handles > 0 /\ Fail /\ Store(thread.msg) /\ UNCHANGED handles
     \/ /\ handles > 0
        /\ Fail
        /\ Store(thread.msg) \/ UNCHANGED stored
        /\ handles' = handles - 1
  /\ Finish(thread.msg)
  /\ UNCHANGED <<blocked, msgq, sent>>

-----------------------------------------------------------------------------
(* Specification *)

(* After the module thread has started; main() has submitted its READY. *)
Init ==
  /\ state = "INIT"
  /\ evq = <<Ready>>
  /\ blocked = NoMsg
  /\ msgq = <<>>
  /\ thread = Idle
  /\ live = 0
  /\ handles = Handles
  /\ sent = [f \in Files |-> 0]
  /\ stored = [f \in Files |-> <<>>]
  /\ reported = FALSE

Workqueue == HandleEvent \/ PutResumes

ModuleThread == GetMessage \/ Setup \/ Write

Next == (\E f \in Files : Submit(f)) \/ Workqueue \/ ModuleThread

Spec == Init /\ [][Next]_vars

(* The scheduler runs a ready thread eventually; control.c owes nothing. *)
FairSpec == Spec /\ WF_vars(Workqueue) /\ WF_vars(ModuleThread)

-----------------------------------------------------------------------------
(* Properties *)

ThreadType == [pc : {"get", "setup", "write"}, msg : Messages \union {NoMsg}]

(* The types of the variables of fs_module.c and of its queues, and which  *)
(* message the module thread has where it is.                              *)
TypeOK ==
  /\ state \in {"INIT", "READY", "ERROR"}
  /\ evq \in Seq(Messages)
  /\ blocked \in Messages \union {NoMsg}
  /\ msgq \in Seq(Messages)
  /\ Len(msgq) <= QueueLen
  /\ thread \in ThreadType
  /\ thread.pc = "get" <=> thread.msg = NoMsg
  /\ thread.pc = "write" => thread.msg \in PartMsgs /\ state = "READY"
  /\ live \in Int
  /\ handles \in 0 .. Handles
  /\ sent \in [Files -> Nat]
  /\ stored \in [Files -> Seq(Nat)]
  /\ reported \in BOOLEAN

One(m, S) == IF m \in S THEN 1 ELSE 0

(* The number of messages of S anywhere between EVENT_SUBMIT and Finish. *)
Underway(S) ==
  CountIn(evq, S) + One(blocked, S) + CountIn(msgq, S) + One(thread.msg, S)

(***************************************************************************)
(* The module is in its error state exactly as long as one FS_EVT_ERROR is *)
(* on its way to it, wherever it waits.  The event is the only thing that  *)
(* leads out of the state: with none the module would be stuck for good,   *)
(* with two it would set up the card again under open work.                *)
(***************************************************************************)
RecoveryUnderway == Underway({Error}) = IF state = "ERROR" THEN 1 ELSE 0

(* Every payload that event_handler() allocates is owned by one message    *)
(* that is queued, about to be queued or being handled, in every state.    *)
PayloadsAccounted ==
  live = One(blocked, PartMsgs) + CountIn(msgq, PartMsgs) + One(thread.msg, PartMsgs)

(* What is on its way to the card, the next first. *)
Path == <<thread.msg>> \o msgq \o <<blocked>> \o evq

(* The parts of a file, by their messages, and those on the card. *)
PartOf(f) == [m \in {p \in PartMsgs : p.file = f} |-> m.part]
OnCard(f) == {stored[f][i] : i \in DOMAIN stored[f]}

(***************************************************************************)
(* No part is lost silently, stored twice or out of order: what is on the  *)
(* card and on its way is in the order of submission, whatever failed and  *)
(* was dropped, and it is everything as long as no error was reported.     *)
(***************************************************************************)
NothingLostSilently ==
  \A f \in Files :
    /\ \A i, j \in DOMAIN stored[f] : i < j => stored[f][i] < stored[f][j]
    /\ Before(OnCard(f), NumsOf(Path, PartOf(f)))
    /\ InOrder(Path, PartOf(f))
    /\ ~reported => OnCard(f) \union NumsOf(Path, PartOf(f)) = 1 .. sent[f]

(* The card cannot be set up. *)
SetupFails == Setup /\ state' = "ERROR"

(***************************************************************************)
(* The module recovers: when the card can be set up from some time on, the *)
(* error state is left, although the event that leads out of it waits      *)
(* behind the parts of a workqueue that may itself be blocked.             *)
(***************************************************************************)
CardRecovers ==
  <>[][~SetupFails]_vars => (state = "ERROR" ~> state = "READY")

=============================================================================
