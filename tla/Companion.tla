------------------------------ MODULE Companion ------------------------------
(***************************************************************************)
(* The companion app (heaty_companion/lib/logic/): its state machine, the  *)
(* calls into the Bluetooth library that it awaits while the machine goes  *)
(* on, and the text that it collects from notifications of the camera      *)
(* service, up to a zero byte, and takes an image from.                    *)
(*                                                                         *)
(* Dart handles the events that wait before it takes an input of the user  *)
(* or an answer of the library (flutter_blue), which answers every call of *)
(* a kind that waits with the next answer of the peripheral to a call of   *)
(* that kind.  Cancelling a subscription ends before the next event.       *)
(*                                                                         *)
(* Not here: heat maps, which are collected the same way without a header, *)
(* the settings that are written to the peripheral, and the views.         *)
(***************************************************************************)
EXTENDS Queues, Integers, SequencesExt

CONSTANT
  MaxPresses    (* bound: how often the user presses a button              *)

VARIABLES
  state,        (* _currentState of statemachine.dart                      *)
  events,       (* Events.eventHandler: the events to handle               *)
  scanning,     (* a scan runs, and its results are listened to            *)
  target,       (* targetDevice is not null                                *)
  watching,     (* stateSubscription: the state of the device is listened to *)
  link,         (* the connection, as the library has it                   *)
  services,     (* allServices is not empty                                *)
  asking,       (* calls of discoverServices() that wait                   *)
  enabling,     (* calls of setNotifyValue() that wait                     *)
  sub,          (* cameraImageTxSubscription: null, live, cancelled        *)
  live,         (* how many subscriptions get notifications                *)
  notifying,    (* the peripheral notifies (its CCC)                       *)
  air,          (* the notifications on their way                          *)
  text,         (* dataCameraImage.incommingData                           *)
  images,       (* the images decoded: with how many bytes they announced  *)
  presses,      (* the presses of the user so far                          *)
  abandoned     (* ghost: discoveries left before their calls returned     *)

appVars == <<state, events, scanning, target, watching, link, services, asking,
             enabling, sub, live, notifying, air, text, images, presses, abandoned>>
data == <<notifying, air, text, images>>
calls == <<services, asking, enabling, sub, live>>
counts == <<presses, abandoned>>

ASSUME AppAssumption == MaxPresses \in Nat

States == {"Init", "Idle", "Scanning", "Connecting", "Connected", "Discovering"}

-----------------------------------------------------------------------------
(* The state machine *)

Tr(trigger, from, to) == [trigger |-> trigger, from |-> from, to |-> to]

(* Mutant of Transitions: a loss while services are discovered is ignored. *)
TransitionsWithoutLoss ==
  <<Tr("reinit", "Init", "Init"), Tr("initialized", "Init", "Idle"),
    Tr("scan", "Idle", "Scanning"), Tr("found", "Scanning", "Idle"),
    Tr("connect", "Idle", "Connecting"), Tr("connect", "Scanning", "Connecting"),
    Tr("connected", "Connecting", "Connected"),
    Tr("discover", "Connected", "Discovering"),
    Tr("discovered", "Discovering", "Connected"),
    Tr("disconnect", "Connecting", "Idle"), Tr("disconnect", "Connected", "Idle")>>

(* The list of the transitions; nothing adds evDisconnected. *)
Transitions ==
  <<Tr("reinit", "Init", "Init"), Tr("initialized", "Init", "Idle"),
    Tr("scan", "Idle", "Scanning"), Tr("found", "Scanning", "Idle"),
    Tr("connect", "Idle", "Connecting"), Tr("connect", "Scanning", "Connecting"),
    Tr("connected", "Connecting", "Connected"),
    Tr("discover", "Connected", "Discovering"),
    Tr("discovered", "Discovering", "Connected"),
    Tr("disconnect", "Discovering", "Idle"), Tr("disconnect", "Connecting", "Idle"),
    Tr("disconnect", "Connected", "Idle")>>

Triggers == {Transitions[i].trigger : i \in DOMAIN Transitions} \union {"error"}

(* Adding to the stream of events. *)
Add(evs) == events' = evs

(* Mutant of Cancel: the field is cleared, and the subscription goes on. *)
CancelField ==
  /\ sub' = IF sub = "live" THEN "cancelled" ELSE sub
  /\ UNCHANGED live

(* cancelSubscription() of the field; other subscriptions are not known.   *)
Cancel ==
  /\ sub' = IF sub = "live" THEN "cancelled" ELSE sub
  /\ live' = IF sub = "live" THEN live - 1 ELSE live

(* Mutant of Forget: what was collected is kept for the next connection. *)
ForgetNoText == services' = FALSE /\ Cancel /\ UNCHANGED text

(* What the last connection left is cleared before services are asked for. *)
Forget == services' = FALSE /\ text' = <<>> /\ Cancel

(***************************************************************************)
(* onEnter() of the states, with the events that are left.  Without a      *)
(* target, connecting does nothing, and discovering ends in an exception.  *)
(***************************************************************************)
Enter(to, rest) ==
  CASE to = "Discovering" ->
         /\ Add(rest)
         /\ Forget
         /\ asking' = asking + (IF target THEN 1 ELSE 0)
         /\ UNCHANGED <<scanning, target, watching, link>>
    [] to = "Connected" ->
         /\ Add(IF services THEN rest ELSE Append(rest, "discover"))
         /\ UNCHANGED <<scanning, target, watching, link, services, asking, sub, live, text>>
    [] to = "Connecting" ->
         /\ Add(rest)
         /\ watching' = (watching \/ target)
         /\ link' = IF target /\ link = "down" THEN "connecting" ELSE link
         /\ UNCHANGED <<scanning, target, services, asking, sub, live, text>>
    [] to = "Scanning" ->
         /\ Add(rest)
         /\ scanning' = TRUE /\ target' = FALSE
         /\ UNCHANGED <<watching, link, services, asking, sub, live, text>>
    [] to = "Idle" ->
         /\ Add(rest)
         /\ UNCHANGED <<scanning, target, watching, link, services, asking, sub, live, text>>

(* onEnter() of Init asks whether Bluetooth is on. *)
IsOn(rest) == \E answer \in {"initialized", "error"} : Add(Append(rest, answer))

(***************************************************************************)
(* resetAll(), the transition to Idle on a disconnect and to Init: the     *)
(* device is told to disconnect, and the subscriptions the fields have are *)
(* cancelled.  What was collected stays, and so do calls that wait.        *)
(***************************************************************************)
ResetAll(to, rest) ==
  /\ link' = IF target /\ link \in {"connecting", "up"} THEN "closing" ELSE link
  /\ services' = FALSE
  /\ scanning' = FALSE /\ watching' = FALSE
  /\ Cancel
  /\ target' = FALSE
  /\ IF to = "Init" THEN IsOn(rest) ELSE Add(rest)
  /\ UNCHANGED <<asking, text>>

(***************************************************************************)
(* _handleEvent(): the transitions of the event from the state.  None      *)
(* leads to a state in which a later one of the list has the same event.   *)
(***************************************************************************)
HandleAppEvent ==
  /\ events # <<>>
  /\ LET ev == Head(events)
         rest == Tail(events)
         fits == {i \in DOMAIN Transitions :
                    Transitions[i].trigger = ev /\ Transitions[i].from = state}
     IN  IF fits = {}
         THEN /\ Add(rest)
              /\ UNCHANGED <<state, scanning, target, watching, link, calls, text, abandoned>>
         ELSE \E i \in fits :
                /\ state' = Transitions[i].to
                /\ IF ev \in {"disconnect", "reinit"}
                   THEN ResetAll(state', rest)
                   ELSE Enter(state', rest)
                /\ abandoned' =
                     IF state = "Discovering" /\ asking + enabling > 0
                     THEN abandoned + 1 ELSE abandoned
                /\ UNCHANGED enabling
  /\ UNCHANGED <<notifying, air, images, presses>>

(* No event waits. *)
Quiet == events = <<>>

(* Bluetooth was off two seconds ago. *)
Reinit ==
  /\ Quiet /\ state = "Init"
  /\ Add(<<"reinit">>)
  /\ UNCHANGED <<state, scanning, target, watching, link, calls, data, counts>>

(* The buttons of the views. *)
User ==
  /\ Quiet
  /\ presses < MaxPresses
  /\ presses' = presses + 1
  /\ \E ev \in {"scan", "connect", "disconnect"} : Add(<<ev>>)
  /\ UNCHANGED <<state, scanning, target, watching, link, calls, data, abandoned>>

-----------------------------------------------------------------------------
(* The Bluetooth library *)

(* A scan result has the name of the target, or the scan times out. *)
ScanEnds ==
  /\ Quiet
  /\ scanning
  /\ scanning' = FALSE
  /\ \/ target' = TRUE /\ Add(<<"found">>)
     \/ UNCHANGED <<target, events>>
  /\ UNCHANGED <<state, watching, link, calls, data, counts>>

(* The listener of stateSubscription adds an event. *)
Tell(ev) == Add(IF watching THEN <<ev>> ELSE <<>>)

Connect ==
  /\ Quiet
  /\ link = "connecting"
  /\ link' = "up"
  /\ Tell("connected")
  /\ UNCHANGED <<state, scanning, target, watching, calls, data, counts>>

(* The connection ends, asked for or not; what is on its way is lost. *)
Disconnect ==
  /\ Quiet
  /\ link \in {"connecting", "up", "closing"}
  /\ link' = "down"
  /\ notifying' = FALSE /\ air' = <<>>
  /\ Tell("disconnect")
  /\ UNCHANGED <<state, scanning, target, watching, calls, text, images, counts>>

(* The services of the peripheral: all the calls that wait go on. *)
Discovered ==
  /\ Quiet
  /\ link = "up"
  /\ asking > 0
  /\ services' = TRUE
  /\ asking' = 0 /\ enabling' = enabling + asking
  /\ UNCHANGED <<state, events, scanning, target, watching, link, sub, live, data, counts>>

(* The peripheral is told to notify; its answer is on its way. *)
Subscribe ==
  /\ Quiet
  /\ link = "up"
  /\ enabling > 0 /\ ~notifying
  /\ notifying' = TRUE
  /\ UNCHANGED <<state, events, scanning, target, watching, link, calls, air, text,
                 images, counts>>

(* Notifications are on: all the calls that wait listen to them. *)
Enabled ==
  /\ Quiet
  /\ link = "up"
  /\ enabling > 0 /\ notifying
  /\ sub' = "live" /\ live' = live + enabling
  /\ Add([i \in 1 .. enabling |-> "discovered"])
  /\ enabling' = 0
  /\ UNCHANGED <<state, scanning, target, watching, link, services, asking, data, counts>>

-----------------------------------------------------------------------------
(* The notifications *)

(* A notification: a header with the size of the image it announces, a     *)
(* byte of an image, or the zero byte; the first two are text.             *)
Header(k, n) == [kind |-> "header", image |-> k, num |-> n]
Byte(k, i) == [kind |-> "byte", image |-> k, num |-> i]
Zero == [kind |-> "zero"]

(* Where the headers are in a text. *)
Headers(t) == {i \in DOMAIN t : t[i].kind = "header"}

(***************************************************************************)
(* processCameraImageData(): the first header is cut out, and the rest     *)
(* decoded, which fails when there is another one.                         *)
(***************************************************************************)
Process ==
  IF \E i \in DOMAIN text : Headers(text) = {i}
  THEN \E i \in Headers(text) :
         images' = Append(images, [size |-> text[i].num, bytes |-> RemoveAt(text, i)])
  ELSE UNCHANGED images

(* handleCameraImageTx(), in each of the live subscriptions. *)
Notified ==
  /\ Quiet
  /\ air # <<>>
  /\ air' = Tail(air)
  /\ IF live = 0
     THEN UNCHANGED <<text, images>>
     ELSE IF Head(air) = Zero
     THEN Process /\ text' = <<>>
     ELSE /\ text' = text \o [i \in 1 .. live |-> Head(air)]
          /\ UNCHANGED images
  /\ UNCHANGED <<state, events, scanning, target, watching, link, calls, notifying, counts>>

-----------------------------------------------------------------------------
(* Specification *)

AppInit ==
  /\ state = "Init"
  /\ events \in {<<"initialized">>, <<"error">>}
  /\ scanning = FALSE /\ target = FALSE /\ watching = FALSE
  /\ link = "down"
  /\ services = FALSE /\ asking = 0 /\ enabling = 0
  /\ sub = "null" /\ live = 0
  /\ notifying = FALSE /\ air = <<>>
  /\ text = <<>> /\ images = <<>>
  /\ presses = 0 /\ abandoned = 0

AppTypeOK ==
  /\ state \in States
  /\ events \in Seq(Triggers)
  /\ {scanning, target, watching, services, notifying} \subseteq BOOLEAN
  /\ link \in {"down", "connecting", "up", "closing"}
  /\ asking \in Nat /\ enabling \in Nat
  /\ sub \in {"null", "live", "cancelled"} /\ live \in Nat
  /\ sub = "live" => live > 0
  /\ presses \in 0 .. MaxPresses /\ abandoned \in Nat

AppNext ==
  \/ Reinit \/ User \/ HandleAppEvent
  \/ ScanEnds \/ Connect \/ Disconnect \/ Discovered \/ Subscribe \/ Enabled
  \/ Notified

=============================================================================
