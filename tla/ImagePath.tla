------------------------------ MODULE ImagePath ------------------------------
(***************************************************************************)
(* The way of an image of the data collector: the work thread of           *)
(* camera_module.c reads it from the camera in parts, control.c names a    *)
(* file after the clock for each part and sends it over BLE, with a header *)
(* before the first and a zero byte after the last, and the companion app  *)
(* puts it together, while its user connects and disconnects.              *)
(*                                                                         *)
(* Bytes are numbered; a part is Chunk of them.  The queues between        *)
(* control.c and the card or the connection are those of FsModule and      *)
(* BtModule: here they keep their order, and the card does not fail.       *)
(*                                                                         *)
(* Not here: settings of the camera, which camera_module.c never takes     *)
(* (its state stays STATE_INIT), and heat maps.                            *)
(***************************************************************************)
EXTENDS Companion

CONSTANTS
  Sizes,        (* the sizes images may have                               *)
  Chunk,        (* CONFIG_CAMERA_IMAGE_CHUNCK_SIZE                         *)
  OldLen,       (* the length of the files an earlier run left behind      *)
  MaxImages,    (* bound: images taken                                     *)
  MaxTime,      (* bound: seconds                                          *)
  MaxAir,       (* bound: notifications on their way                       *)
  Budgets       (* bound: images, presses and seconds that go together     *)

VARIABLES
  now,          (* date_time_now() in seconds: the name of a file          *)
  taken,        (* the sizes of the images taken                           *)
  left,         (* mBytesLeftInCamera                                      *)
  reading,      (* takeImage() is in its loop                              *)
  evq,          (* the parts in the queue of the event manager             *)
  ble,          (* what the BLE module has to send                         *)
  files,        (* the card: the bytes of the file of each second          *)
  secs          (* ghost: the seconds the parts of an image were named for *)

devVars == <<now, taken, left, reading, evq, ble, files, secs>>
vars == <<appVars, devVars>>

Seconds == 0 .. MaxTime

ASSUME ImageAssumption ==
  /\ Sizes \subseteq Nat /\ Chunk \in Nat \ {0}
  /\ OldLen \in Nat /\ MaxImages \in Nat /\ MaxTime \in Nat /\ MaxAir \in Nat \ {0}
  /\ Budgets \subseteq [images : 0 .. MaxImages, presses : 0 .. MaxPresses, now : Seconds]

Within == \E b \in Budgets :
            Len(taken') <= b.images /\ presses' <= b.presses /\ now' <= b.now

(* The bytes of image k from the i-th to the j-th; image 0 is an old one. *)
Run(k, i, j) == [n \in 1 .. j - i + 1 |-> Byte(k, i + n - 1)]
Image(k) == Run(k, 1, taken[k])

-----------------------------------------------------------------------------
(* The camera module *)

(***************************************************************************)
(* takeImage() up to its loop: startSingleCapture() finds nothing left     *)
(* from the last image, or takes none.  An image may have no bytes.        *)
(***************************************************************************)
TakeImage ==
  /\ ~reading
  /\ IF left = 0
     THEN \E size \in Sizes :
            /\ taken' = Append(taken, size)
            /\ left' = size
            /\ reading' = (size # 0)
     ELSE UNCHANGED <<taken, left, reading>>
  /\ UNCHANGED <<appVars, now, evq, ble, files, secs>>

Part(bytes, size, isFirst, isLast) ==
  [bytes |-> bytes, image |-> Len(taken), size |-> size, isFirst |-> isFirst, isLast |-> isLast]

Lesser(a, b) == IF a < b THEN a ELSE b

(* Mutant of SendImageChunck: first and last by what is left afterwards. *)
SendImageChunckReadFirst ==
  /\ reading
  /\ left' = left - Lesser(left, Chunk)
  /\ LET size == Last(taken)
     IN  evq' = Append(evq, Part(Run(Len(taken), size - left + 1, size - left'), size,
                                 left' = size, left' <= Chunk))
  /\ reading' = (left' # 0)
  /\ UNCHANGED <<appVars, now, taken, ble, files, secs>>

(* sendImageChunck(), fillBuffer() and the condition of the loop. *)
SendImageChunck ==
  /\ reading
  /\ left' = left - Lesser(left, Chunk)
  /\ LET size == Last(taken)
     IN  evq' = Append(evq, Part(Run(Len(taken), size - left + 1, size - left'), size,
                                 left = size, left <= Chunk))
  /\ reading' = (left' # 0)
  /\ UNCHANGED <<appVars, now, taken, ble, files, secs>>

-----------------------------------------------------------------------------
(* control.c, the file and the BLE module *)

(* Mutant of Store: the file is opened to append for every part. *)
StoreAppends(file, part) == file \o part.bytes

(***************************************************************************)
(* fs_helper_file_write(): the first part is written over what the file    *)
(* has, whose tail stays; the others are appended.                         *)
(***************************************************************************)
Store(file, part) ==
  IF part.isFirst
  THEN part.bytes \o SubSeq(file, Len(part.bytes) + 1, Len(file))
  ELSE file \o part.bytes

(* handle_camera_module_data_event(), for the next part. *)
HandleCameraData ==
  /\ evq # <<>>
  /\ evq' = Tail(evq)
  /\ LET part == Head(evq)
     IN  /\ ble' = ble \o (IF part.isFirst THEN <<Header(part.image, part.size)>> ELSE <<>>)
                       \o part.bytes
                       \o (IF part.isLast THEN <<Zero>> ELSE <<>>)
         /\ files' = [files EXCEPT ![now] = Store(@, part)]
         /\ secs' = [secs EXCEPT ![part.image] = @ \union {now}]
  /\ UNCHANGED <<appVars, now, taken, left, reading>>

(***************************************************************************)
(* serialSend() to a peer: what nobody asked to be notified of is not sent *)
(* and does not wait.                                                      *)
(***************************************************************************)
Transmit ==
  /\ ble # <<>>
  /\ ble' = Tail(ble)
  /\ IF link \in {"up", "closing"} /\ notifying
     THEN Len(air) < MaxAir /\ air' = Append(air, Head(ble))
     ELSE UNCHANGED air
  /\ UNCHANGED <<now, taken, left, reading, evq, files, secs>>
  /\ UNCHANGED <<state, events, scanning, target, watching, link, calls, notifying,
                 text, images, counts>>

Tick ==
  /\ now' = now + 1
  /\ UNCHANGED <<appVars, taken, left, reading, evq, ble, files, secs>>

-----------------------------------------------------------------------------
(* Specification *)

Init ==
  /\ AppInit
  /\ now = 0 /\ taken = <<>> /\ left = 0 /\ reading = FALSE
  /\ evq = <<>> /\ ble = <<>>
  /\ files = [s \in Seconds |-> Run(0, 1, OldLen)]
  /\ secs = [k \in 1 .. MaxImages |-> {}]

Device == SendImageChunck \/ HandleCameraData \/ Transmit

Next ==
  \/ AppNext /\ UNCHANGED devVars /\ Within
  \/ (TakeImage \/ Tick) /\ Within
  \/ Device

Spec == Init /\ [][Next]_vars

(***************************************************************************)
(* The threads of the device run, and the app gets its events and          *)
(* notifications; neither the user, the camera nor the connection has to do anything.     *)
(***************************************************************************)
FairSpec ==
  /\ Spec
  /\ WF_vars(SendImageChunck) /\ WF_vars(HandleCameraData) /\ WF_vars(Transmit)
  /\ WF_vars(HandleAppEvent /\ UNCHANGED devVars) /\ WF_vars(Notified /\ UNCHANGED devVars)

-----------------------------------------------------------------------------
(* Properties *)

(* The types of the variables. *)
TypeOK ==
  /\ AppTypeOK
  /\ now \in Seconds
  /\ taken \in Seq(Sizes) /\ Len(taken) <= MaxImages
  /\ left \in Nat /\ reading = (left # 0)
  /\ reading => left <= Last(taken)
  /\ \A i \in DOMAIN evq : evq[i].image \in DOMAIN taken /\ evq[i].bytes # <<>>
  /\ Len(air) <= MaxAir
  /\ files \in [Seconds -> Seq([kind : {"byte"}, image : 0 .. MaxImages, num : Nat])]
  /\ secs \in [1 .. MaxImages -> SUBSET Seconds]

(***************************************************************************)
(* An image the app shows as received, with the size its header announced, *)
(* is one the camera took, whole and in order: connections that end in the *)
(* middle of an image never leave a mixture of two, nor of two copies.     *)
(***************************************************************************)
ReceivedIsTaken ==
  \A n \in DOMAIN images :
    Len(images[n].bytes) = images[n].size =>
      \E k \in DOMAIN taken : images[n].bytes = Image(k)

(* No other image used a second that a part of image k is named for. *)
Alone(k) == \A n \in DOMAIN taken \ {k} : secs[n] \intersect secs[k] = {}

(* So far, and the parts of image k are on the card. *)
OnCard(k) ==
  /\ reading => k # Len(taken)
  /\ \A i \in DOMAIN evq : evq[i].image # k
  /\ Alone(k)

(* Where the file of a second has bytes of image k, and which they are. *)
Places(k, s) == {i \in DOMAIN files[s] : files[s][i].image = k}
Held(k) == UNION {{files[s][i].num : i \in Places(k, s)} : s \in Seconds}

(* From one second to the next, and in each, they are in order, each once. *)
Ordered(k) ==
  \A s, t \in Seconds : \A i \in Places(k, s), j \in Places(k, t) :
    s < t \/ (s = t /\ i < j) => files[s][i].num < files[t][j].num

(***************************************************************************)
(* An image that shares its seconds with no other is on the card, in the   *)
(* files of those seconds put together: it is cut where the second changes *)
(* between two parts, and nothing but an older file stands around it.      *)
(***************************************************************************)
FilesHoldImage ==
  \A k \in DOMAIN taken :
    OnCard(k) =>
      /\ Held(k) = 1 .. taken[k] /\ Ordered(k)
      /\ \A s \in secs[k] : \A i \in DOMAIN files[s] : files[s][i].image \in {0, k}
      /\ \A s \in secs[k] :
           (\A t \in secs[k] : s <= t)
             => \A i \in 1 .. Lesser(Chunk, taken[k]) : files[s][i] = Byte(k, i)

(***************************************************************************)
(* A subscription that is not the last one is left listening only by a     *)
(* discovery that was abandoned while a call of it waited: each of those   *)
(* adds at most one listener, which then repeats what is collected.        *)
(***************************************************************************)
ListenersCounted == live + asking + enabling <= 1 + abandoned

(***************************************************************************)
(* Connected or discovering, the app knows its device, watches its state,  *)
(* and has it, or is about to learn that it is gone: what it asks of a     *)
(* device it asks of one, and it is not left connected to nothing.         *)
(***************************************************************************)
LossIsTold ==
  state \in {"Connected", "Discovering"} =>
    /\ target /\ watching
    /\ link = "up" \/ \E i \in DOMAIN events : events[i] = "disconnect"

(* One subscription listens and the connection stays. *)
Listening == live = 1 /\ notifying /\ link = "up"

(***************************************************************************)
(* With one subscription that goes on listening, an image whose first part *)
(* is still in the camera arrives whole, also when an earlier one was cut. *)
(***************************************************************************)
ImageArrives ==
  \A k \in 1 .. MaxImages :
    (Len(taken) = k /\ left = taken[k] /\ reading /\ Listening) ~>
      \/ ~Listening
      \/ /\ k \in DOMAIN taken
         /\ \E n \in DOMAIN images : images[n] = [size |-> taken[k], bytes |-> Image(k)]

=============================================================================
