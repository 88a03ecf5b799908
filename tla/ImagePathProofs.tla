--------------------------- MODULE ImagePathProofs ---------------------------
(***************************************************************************)
(* What holds on the way of an image for every size of images and parts,   *)
(* and of the companion app for every number of presses: a Bluetooth       *)
(* library and a peripheral that answer as late as they like.              *)
(***************************************************************************)
EXTENDS ImagePath, SequenceTheorems, TLAPS

-----------------------------------------------------------------------------
(* The state machine of the app *)

(* The list of the transitions, written out. *)
LEMMA TransitionsListed ==
  ASSUME NEW i \in DOMAIN Transitions
  PROVE  LET t == Transitions[i]
         IN  \/ t.trigger = "reinit" /\ t.from = "Init" /\ t.to = "Init"
             \/ t.trigger = "initialized" /\ t.from = "Init" /\ t.to = "Idle"
             \/ t.trigger = "scan" /\ t.from = "Idle" /\ t.to = "Scanning"
             \/ t.trigger = "found" /\ t.from = "Scanning" /\ t.to = "Idle"
             \/ t.trigger = "connect" /\ t.from \in {"Idle", "Scanning"} /\ t.to = "Connecting"
             \/ t.trigger = "connected" /\ t.from = "Connecting" /\ t.to = "Connected"
             \/ t.trigger = "discover" /\ t.from = "Connected" /\ t.to = "Discovering"
             \/ t.trigger = "discovered" /\ t.from = "Discovering" /\ t.to = "Connected"
             \/ /\ t.trigger = "disconnect" /\ t.to = "Idle"
                /\ t.from \in {"Discovering", "Connecting", "Connected"}
<1>1. i \in 1 .. 12
  BY DEF Transitions
<1>2. CASE i \in 1 .. 6
  BY <1>2 DEF Transitions, Tr
<1>3. CASE i \in 7 .. 12
  BY <1>3 DEF Transitions, Tr
<1>4. QED
  BY <1>1, <1>2, <1>3

(* The events there are. *)
LEMMA TriggersListed ==
  Triggers = {"reinit", "initialized", "scan", "found", "connect", "connected", "discover",
              "discovered", "disconnect", "error"}
<1> DEFINE T == {"reinit", "initialized", "scan", "found", "connect", "connected", "discover",
                 "discovered", "disconnect", "error"}
<1>1. Triggers \subseteq T
  BY TransitionsListed DEF Triggers
<1>2. /\ DOMAIN Transitions = 1 .. 12
      /\ Transitions[1].trigger = "reinit" /\ Transitions[2].trigger = "initialized"
      /\ Transitions[3].trigger = "scan" /\ Transitions[4].trigger = "found"
      /\ Transitions[5].trigger = "connect" /\ Transitions[7].trigger = "connected"
      /\ Transitions[8].trigger = "discover" /\ Transitions[9].trigger = "discovered"
      /\ Transitions[10].trigger = "disconnect"
  BY DEF Transitions, Tr
<1>3. T \subseteq Triggers
  BY <1>2 DEF Triggers
<1>4. QED
  BY <1>1, <1>3

(* Events that are never ignored: a disconnect where there is something to *)
(* lose, and those that lead to a discovery.                               *)
Heeded(ev, from) ==
  \/ ev = "disconnect" /\ from \in {"Discovering", "Connecting", "Connected"}
  \/ ev = "connected" /\ from = "Connecting"
  \/ ev = "discover" /\ from = "Connected"

LEMMA HeededHandled ==
  ASSUME Heeded(Head(events), state)
  PROVE  \E i \in DOMAIN Transitions :
           Transitions[i].trigger = Head(events) /\ Transitions[i].from = state
<1>1. /\ {7, 8, 10, 11, 12} \subseteq DOMAIN Transitions
      /\ \A i \in {10, 11, 12} : Transitions[i].trigger = "disconnect"
      /\ Transitions[10].from = "Discovering"
      /\ Transitions[11].from = "Connecting"
      /\ Transitions[12].from = "Connected"
      /\ Transitions[7].trigger = "connected" /\ Transitions[7].from = "Connecting"
      /\ Transitions[8].trigger = "discover" /\ Transitions[8].from = "Connected"
  BY DEF Transitions, Tr
<1>2. QED
  BY <1>1 DEF Heeded

(* A transition on the next event. *)
Passes(ev, from, to) == Head(events) = ev /\ state = from /\ state' = to

(* The ways in which _handleEvent() deals with the next event. *)
LEMMA HandledCases ==
  ASSUME HandleAppEvent
  PROVE  /\ events # <<>> /\ UNCHANGED <<notifying, air, images, presses, enabling>>
         /\ \/ /\ ~Heeded(Head(events), state)
               /\ events' = Tail(events)
               /\ UNCHANGED <<state, scanning, target, watching, link, services, asking, sub, live,
                              text, abandoned>>
            \/ /\ abandoned' =
                    IF state = "Discovering" /\ asking + enabling > 0
                    THEN abandoned + 1 ELSE abandoned
               /\ \/ Passes("reinit", "Init", "Init") /\ ResetAll("Init", Tail(events))
                  \/ Passes("initialized", "Init", "Idle") /\ Enter("Idle", Tail(events))
                  \/ Passes("scan", "Idle", "Scanning") /\ Enter("Scanning", Tail(events))
                  \/ Passes("found", "Scanning", "Idle") /\ Enter("Idle", Tail(events))
                  \/ /\ state \in {"Idle", "Scanning"}
                     /\ Passes("connect", state, "Connecting") /\ Enter("Connecting", Tail(events))
                  \/ /\ Passes("connected", "Connecting", "Connected")
                     /\ Enter("Connected", Tail(events))
                  \/ /\ Passes("discover", "Connected", "Discovering")
                     /\ Enter("Discovering", Tail(events))
                  \/ /\ Passes("discovered", "Discovering", "Connected")
                     /\ Enter("Connected", Tail(events))
                  \/ /\ state \in {"Discovering", "Connecting", "Connected"}
                     /\ Passes("disconnect", state, "Idle") /\ ResetAll("Idle", Tail(events))
<1> DEFINE fits == {i \in DOMAIN Transitions :
                      Transitions[i].trigger = Head(events) /\ Transitions[i].from = state}
<1>1. events # <<>> /\ UNCHANGED <<notifying, air, images, presses>>
  BY DEF HandleAppEvent
<1>2. CASE fits = {}
  <2>1. /\ events' = Tail(events) /\ enabling' = enabling
        /\ UNCHANGED <<state, scanning, target, watching, link, services, asking, sub, live,
                       text, abandoned>>
    BY <1>2 DEF HandleAppEvent, Add, calls
  <2>2. ~Heeded(Head(events), state)
    BY <1>2, HeededHandled
  <2>3. QED
    BY <1>1, <2>1, <2>2
<1>3. CASE fits # {}
  <2>1. PICK i \in fits :
          /\ state' = Transitions[i].to
          /\ IF Head(events) \in {"disconnect", "reinit"}
             THEN ResetAll(state', Tail(events)) ELSE Enter(state', Tail(events))
          /\ abandoned' =
               IF state = "Discovering" /\ asking + enabling > 0
               THEN abandoned + 1 ELSE abandoned
          /\ enabling' = enabling
    BY <1>3 DEF HandleAppEvent
  <2>2. i \in DOMAIN Transitions /\ Transitions[i].trigger = Head(events) /\ Transitions[i].from = state
    OBVIOUS
  <2>3. QED
    BY <1>1, <2>1, <2>2, TransitionsListed DEF Passes
<1>4. QED
  BY <1>2, <1>3

(* What entering a state does. *)
LEMMA EnterCases ==
  ASSUME NEW rest
  PROVE  /\ Enter("Idle", rest) =>
              /\ events' = rest
              /\ UNCHANGED <<scanning, target, watching, link, services, asking, sub, live, text>>
         /\ Enter("Scanning", rest) =>
              /\ events' = rest /\ scanning' = TRUE /\ target' = FALSE
              /\ UNCHANGED <<watching, link, services, asking, sub, live, text>>
         /\ Enter("Connecting", rest) =>
              /\ events' = rest
              /\ watching' = (watching \/ target)
              /\ link' = IF target /\ link = "down" THEN "connecting" ELSE link
              /\ UNCHANGED <<scanning, target, services, asking, sub, live, text>>
         /\ Enter("Connected", rest) =>
              /\ events' = rest \/ events' = Append(rest, "discover")
              /\ UNCHANGED <<scanning, target, watching, link, services, asking, sub, live, text>>
         /\ Enter("Discovering", rest) =>
              /\ events' = rest /\ services' = FALSE
              /\ Cancel
              /\ asking' = asking + (IF target THEN 1 ELSE 0)
              /\ UNCHANGED <<scanning, target, watching, link>>
BY DEF Enter, Add, Forget

(* What resetting everything does. *)
LEMMA ResetCases ==
  ASSUME NEW to, NEW rest, ResetAll(to, rest)
  PROVE  /\ \/ events' = rest
            \/ events' = Append(rest, "initialized")
            \/ events' = Append(rest, "error")
         /\ link' = IF target /\ link \in {"connecting", "up"} THEN "closing" ELSE link
         /\ services' = FALSE /\ scanning' = FALSE /\ watching' = FALSE /\ target' = FALSE
         /\ Cancel
         /\ UNCHANGED <<asking, text>>
BY DEF ResetAll, IsOn, Add

(* A step of the app, or of the device, which leaves the app alone but for *)
(* what it puts on its way.                                                *)
LEMMA NextCases ==
  ASSUME [Next]_vars
  PROVE  \/ AppNext
         \/ UNCHANGED <<state, events, scanning, target, watching, link, services, asking,
                        enabling, sub, live, notifying, presses, abandoned>>
<1>1. CASE UNCHANGED vars
  BY <1>1 DEF vars, appVars
<1>2. CASE TakeImage \/ Tick \/ SendImageChunck \/ HandleCameraData
  BY <1>2 DEF TakeImage, Tick, SendImageChunck, HandleCameraData, appVars
<1>3. CASE Transmit
  BY <1>3 DEF Transmit, calls, counts
<1>4. QED
  BY <1>1, <1>2, <1>3 DEF Next, Device

-----------------------------------------------------------------------------
(* Types of the app *)

LEMMA AppTypeInit == AppInit => AppTypeOK
<1> SUFFICES ASSUME AppInit PROVE AppTypeOK
  OBVIOUS
<1>1. \A ev \in Triggers : <<ev>> \in Seq(Triggers)
  OBVIOUS
<1>2. "initialized" \in Triggers /\ "error" \in Triggers
  BY TriggersListed
<1>3. events \in Seq(Triggers)
  BY <1>1, <1>2 DEF AppInit
<1>4. presses \in 0 .. MaxPresses /\ abandoned \in Nat
  BY AppAssumption DEF AppInit, AppAssumption
<1>5. {scanning, target, watching, services, notifying} \subseteq BOOLEAN
  BY DEF AppInit
<1>6. QED
  BY <1>3, <1>4, <1>5 DEF AppInit, AppTypeOK, States

(* Cancelling what may be cancelled. *)
LEMMA CancelTyped ==
  ASSUME AppTypeOK, Cancel
  PROVE  /\ sub' \in {"null", "cancelled"} /\ live' \in Nat
         /\ live' = live - (IF sub = "live" THEN 1 ELSE 0)
BY DEF AppTypeOK, Cancel

LEMMA HandledTyped ==
  ASSUME AppTypeOK, HandleAppEvent
  PROVE  AppTypeOK'
<1>1. /\ Tail(events) \in Seq(Triggers)
      /\ \A ev \in Triggers : Append(Tail(events), ev) \in Seq(Triggers)
  BY HandledCases DEF AppTypeOK
<1>2. {"discover", "initialized", "error"} \subseteq Triggers
  BY TriggersListed
<1> USE DEF Passes
<1>3. events' \in Seq(Triggers) /\ state' \in States
  BY <1>1, <1>2, HandledCases, EnterCases, ResetCases DEF AppTypeOK, States
<1>4. /\ scanning' \in BOOLEAN /\ target' \in BOOLEAN /\ watching' \in BOOLEAN
      /\ services' \in BOOLEAN /\ notifying' \in BOOLEAN
      /\ link' \in {"down", "connecting", "up", "closing"}
  BY HandledCases, EnterCases, ResetCases DEF AppTypeOK
<1>5. asking' \in Nat /\ enabling' \in Nat /\ presses' \in 0 .. MaxPresses
  <2>1. enabling' = enabling /\ presses' = presses
    BY HandledCases
  <2>2. asking' = asking \/ asking' = asking + 1 \/ asking' = asking + 0
    BY HandledCases, EnterCases, ResetCases
  <2>3. QED
    BY <2>1, <2>2 DEF AppTypeOK
<1>6. abandoned' \in Nat
  BY HandledCases, AppAssumption DEF AppTypeOK, AppAssumption
<1>7. Cancel \/ UNCHANGED <<sub, live>>
  BY HandledCases, EnterCases, ResetCases
<1>8. sub' \in {"null", "live", "cancelled"} /\ live' \in Nat /\ (sub' = "live" => live' > 0)
  BY <1>7, CancelTyped DEF AppTypeOK
<1>9. QED
  BY <1>3, <1>4, <1>5, <1>6, <1>8 DEF AppTypeOK

LEMMA AppTypeStep ==
  ASSUME AppTypeOK, AppNext
  PROVE  AppTypeOK'
<1>1. /\ \A ev \in Triggers : <<ev>> \in Seq(Triggers)
      /\ <<>> \in Seq(Triggers)
      /\ {"reinit", "scan", "connect", "disconnect", "found", "connected", "discovered"}
           \subseteq Triggers
  BY TriggersListed
<1>2. CASE Reinit
  BY <1>1, <1>2 DEF Reinit, Add, AppTypeOK, calls, data, counts
<1>3. CASE User
  BY <1>1, <1>3, AppAssumption DEF User, Add, AppTypeOK, calls, data, AppAssumption
<1>4. CASE HandleAppEvent
  BY <1>4, HandledTyped
<1>5. CASE ScanEnds
  BY <1>1, <1>5 DEF ScanEnds, Add, AppTypeOK, calls, data, counts
<1>6. CASE Connect
  BY <1>1, <1>6 DEF Connect, Tell, Add, AppTypeOK, calls, data, counts
<1>7. CASE Disconnect
  BY <1>1, <1>7 DEF Disconnect, Tell, Add, AppTypeOK, calls, counts
<1>8. CASE Discovered
  BY <1>8 DEF Discovered, AppTypeOK, data, counts
<1>9. CASE Subscribe
  BY <1>9 DEF Subscribe, AppTypeOK, calls, counts
<1>10. CASE Enabled
  <2>1. events' \in Seq(Triggers)
    BY <1>1, <1>10 DEF Enabled, Add, AppTypeOK
  <2>2. sub' = "live" /\ live' \in Nat /\ live' > 0
    BY <1>10 DEF Enabled, AppTypeOK
  <2>3. QED
    BY <1>10, <2>1, <2>2 DEF Enabled, AppTypeOK, data, counts
<1>11. CASE Notified
  BY <1>11 DEF Notified, AppTypeOK, calls, counts
<1>12. QED
  BY <1>2, <1>3, <1>4, <1>5, <1>6, <1>7, <1>8, <1>9, <1>10, <1>11 DEF AppNext

-----------------------------------------------------------------------------
(* The connection *)

(***************************************************************************)
(* The strengthening: the app watches a device from the connection to its  *)
(* loss, and is told that it is connected in an event of its own, before   *)
(* anything else happens to the connection.                                *)
(***************************************************************************)
LossInv ==
  /\ watching => target /\ state \in {"Connecting", "Connected", "Discovering"}
  /\ \A i \in DOMAIN events : events[i] = "connected" => Len(events) = 1 /\ link = "up" /\ watching
  /\ LossIsTold

(* Events taken, and events added behind the others. *)
LEMMA EventsTaken ==
  ASSUME NEW T, NEW q \in Seq(T), q # <<>>
  PROVE  LET r == Tail(q) IN
         /\ r \in Seq(T) /\ Head(q) \in T
         /\ \A i \in DOMAIN r : i + 1 \in DOMAIN q /\ r[i] = q[i + 1] /\ Len(q) # 1
         /\ \A i \in DOMAIN q : q[i] = Head(q) \/ \E j \in DOMAIN r : r[j] = q[i]
<1> DEFINE r == Tail(q)
<1>1. /\ Len(q) \in Nat \ {0} /\ DOMAIN q = 1 .. Len(q) /\ DOMAIN r = 1 .. Len(q) - 1
      /\ \A i \in DOMAIN r : r[i] = q[i + 1]
      /\ Head(q) = q[1] /\ r \in Seq(T) /\ Head(q) \in T
  OBVIOUS
<1>2. \A i \in DOMAIN q : i = 1 \/ (i - 1 \in DOMAIN r /\ r[i - 1] = q[i])
  BY <1>1
<1>3. \A i \in DOMAIN q : q[i] = Head(q) \/ \E j \in DOMAIN r : r[j] = q[i]
  BY <1>1, <1>2
<1>4. \A i \in DOMAIN r : i + 1 \in DOMAIN q /\ Len(q) # 1
  BY <1>1
<1>5. QED
  BY <1>1, <1>3, <1>4

LEMMA EventsAdded ==
  ASSUME NEW T, NEW q \in Seq(T), NEW e \in T, NEW r, r = Append(q, e)
  PROVE  /\ r \in Seq(T)
         /\ \A i \in DOMAIN r : i \in DOMAIN q \/ r[i] = e
         /\ \A i \in DOMAIN q : i \in DOMAIN r /\ r[i] = q[i]
<1>1. DOMAIN q = 1 .. Len(q) /\ DOMAIN r = 1 .. Len(q) + 1 /\ r[Len(q) + 1] = e
      /\ Len(q) \in Nat /\ r \in Seq(T)
  OBVIOUS
<1>2. QED
  BY <1>1

LEMMA LossInit == Init => LossInv
BY DEF Init, AppInit, LossInv, LossIsTold

(* The next event is handled. *)
LEMMA LossHandled ==
  ASSUME AppTypeOK, LossInv, HandleAppEvent
  PROVE  LossInv'
<1> DEFINE Linked == {"Connected", "Discovering"}
           rest == Tail(events)
           told(q) == \E i \in DOMAIN q : q[i] = "disconnect"
           alone(q) == \A i \in DOMAIN q : q[i] # "connected"
<1>0. events \in Seq(Triggers) /\ events # <<>> /\ "discover" \in Triggers
      /\ "initialized" \in Triggers /\ "error" \in Triggers
  BY HandledCases, TriggersListed DEF AppTypeOK
<1>1. /\ rest \in Seq(Triggers)
      /\ alone(rest)
      /\ told(events) => Head(events) = "disconnect" \/ told(rest)
  <2> DEFINE r == rest
  <2>2. /\ r \in Seq(Triggers)
        /\ \A i \in DOMAIN r : i + 1 \in DOMAIN events /\ r[i] = events[i + 1] /\ Len(events) # 1
        /\ \A i \in DOMAIN events : events[i] = Head(events) \/ \E j \in DOMAIN r : r[j] = events[i]
    BY <1>0, EventsTaken
  <2> HIDE DEF r
  <2>3. alone(r)
    BY <2>2 DEF LossInv
  <2>4. told(events) => Head(events) = "disconnect" \/ told(r)
    BY <2>2
  <2>5. QED
    BY <2>2, <2>3, <2>4 DEF r
<1>2. \A e \in Triggers :
        /\ e # "connected" => alone(Append(rest, e))
        /\ told(rest) => told(Append(rest, e))
  <2> TAKE e \in Triggers
  <2> HIDE DEF rest
  <2>1. /\ \A i \in DOMAIN Append(rest, e) : i \in DOMAIN rest \/ Append(rest, e)[i] = e
        /\ \A i \in DOMAIN rest : i \in DOMAIN Append(rest, e) /\ Append(rest, e)[i] = rest[i]
    BY <1>1, EventsAdded
  <2>2. QED
    BY <1>1, <2>1
<1>3. \A e \in {"initialized", "error", "discover"} : alone(Append(rest, e))
  BY <1>0, <1>2
<1>4. state \in Linked => target /\ watching /\ (link = "up" \/ told(events))
  BY DEF LossInv, LossIsTold
<1> USE DEF Passes
<1>5. CASE events' = rest /\ UNCHANGED <<state, target, watching, link>>
           /\ ~Heeded(Head(events), state)
  <2>0. ~(Head(events) = "disconnect" /\ state \in {"Discovering", "Connecting", "Connected"})
    BY <1>5 DEF Heeded
  <2>1. state \in Linked => link = "up" \/ told(events')
    BY <1>1, <1>4, <1>5, <2>0
  <2>2. alone(events')
    BY <1>1, <1>5
  <2>3. QED
    BY <1>4, <1>5, <2>1, <2>2 DEF LossInv, LossIsTold
<1>6. CASE \E to \in {"Init", "Idle"} : state' = to /\ ResetAll(to, rest)
  <2>1. \/ events' = rest \/ events' = Append(rest, "initialized")
        \/ events' = Append(rest, "error")
    BY <1>6, ResetCases
  <2>2. alone(events')
    BY <1>1, <1>3, <2>1
  <2>3. ~watching' /\ state' \notin Linked
    BY <1>6, ResetCases
  <2>4. QED
    BY <2>2, <2>3 DEF LossInv, LossIsTold
<1>7. CASE \/ Passes("initialized", "Init", "Idle") /\ Enter("Idle", rest)
           \/ Passes("scan", "Idle", "Scanning") /\ Enter("Scanning", rest)
           \/ Passes("found", "Scanning", "Idle") /\ Enter("Idle", rest)
  <2>1. ~watching /\ watching' = watching /\ events' = rest /\ state' \notin Linked
    BY <1>7, EnterCases DEF LossInv
  <2>2. QED
    BY <1>1, <2>1 DEF LossInv, LossIsTold
<1>8. CASE state \in {"Idle", "Scanning"} /\ state' = "Connecting" /\ Enter("Connecting", rest)
  <2>1. ~watching /\ watching' = target /\ target' = target /\ events' = rest
    BY <1>8, EnterCases DEF LossInv, AppTypeOK
  <2>2. QED
    BY <1>1, <1>8, <2>1 DEF LossInv, LossIsTold
<1>9. CASE Passes("connected", "Connecting", "Connected") /\ Enter("Connected", rest)
  <2>1. link = "up" /\ watching /\ target
    BY <1>0, <1>9 DEF LossInv
  <2>2. /\ events' = rest \/ events' = Append(rest, "discover")
        /\ UNCHANGED <<target, watching, link>>
    BY <1>9, EnterCases
  <2>3. alone(events')
    BY <1>1, <1>3, <2>2
  <2>4. QED
    BY <1>9, <2>1, <2>2, <2>3 DEF LossInv, LossIsTold
<1>10. CASE \/ Passes("discover", "Connected", "Discovering") /\ Enter("Discovering", rest)
            \/ Passes("discovered", "Discovering", "Connected") /\ Enter("Connected", rest)
  <2>1. target /\ watching /\ (link = "up" \/ told(events)) /\ Head(events) # "disconnect"
    BY <1>4, <1>10
  <2>2. UNCHANGED <<target, watching, link>> /\ (events' = rest \/ events' = Append(rest, "discover"))
    BY <1>10, EnterCases
  <2>3. alone(events') /\ (told(rest) => told(events'))
    BY <1>0, <1>1, <1>2, <2>2
  <2>4. link' = "up" \/ told(events')
    BY <1>1, <2>1, <2>2, <2>3
  <2>5. QED
    BY <1>10, <2>1, <2>2, <2>3, <2>4 DEF LossInv, LossIsTold
<1>11. QED
  BY <1>5, <1>6, <1>7, <1>8, <1>9, <1>10, HandledCases

LEMMA LossStep == AppTypeOK /\ LossInv /\ [Next]_vars => LossInv'
<1> SUFFICES ASSUME AppTypeOK, LossInv, [Next]_vars PROVE LossInv'
  OBVIOUS
<1>1. CASE UNCHANGED <<state, events, target, watching, link>>
  BY <1>1 DEF LossInv, LossIsTold
<1>2. CASE HandleAppEvent
  BY <1>2, LossHandled
<1>3. CASE Quiet /\ UNCHANGED <<state, target, watching, link>>
           /\ \A i \in DOMAIN events' : events'[i] # "connected"
  BY <1>3 DEF Quiet, LossInv, LossIsTold
<1>4. CASE Reinit \/ User
  BY <1>3, <1>4 DEF Reinit, User, Add
<1>5. CASE ScanEnds
  <2>1. /\ Quiet /\ UNCHANGED <<state, watching, link>> /\ (target => target')
        /\ \A i \in DOMAIN events' : events'[i] # "connected"
    BY <1>5 DEF ScanEnds, Add, Quiet
  <2>2. QED
    BY <2>1 DEF Quiet, LossInv, LossIsTold
<1>6. CASE Connect
  <2>1. /\ Quiet /\ link' = "up" /\ events' = IF watching THEN <<"connected">> ELSE <<>>
        /\ UNCHANGED <<state, target, watching>>
    BY <1>6 DEF Connect, Tell, Add
  <2>2. QED
    BY <2>1 DEF LossInv, LossIsTold
<1>7. CASE Disconnect
  <2>1. /\ Quiet /\ events' = IF watching THEN <<"disconnect">> ELSE <<>>
        /\ UNCHANGED <<state, target, watching>>
    BY <1>7 DEF Disconnect, Tell, Add
  <2>2. watching => events'[1] = "disconnect" /\ 1 \in DOMAIN events'
    BY <2>1
  <2>3. \A i \in DOMAIN events' : events'[i] # "connected"
    BY <2>1
  <2>4. QED
    BY <2>1, <2>2, <2>3 DEF LossInv, LossIsTold
<1>8. CASE Discovered \/ Subscribe \/ Notified
  BY <1>1, <1>8 DEF Discovered, Subscribe, Notified
<1>9. CASE Enabled
  BY <1>3, <1>9 DEF Enabled, Add
<1>10. QED
  BY <1>1, <1>2, <1>4, <1>5, <1>6, <1>7, <1>8, <1>9, NextCases DEF AppNext

LEMMA AppTypeNext == AppTypeOK /\ [Next]_vars => AppTypeOK'
<1>1. AppTypeOK /\ AppNext => AppTypeOK'
  BY AppTypeStep
<1>2. ASSUME AppTypeOK,
             UNCHANGED <<state, events, scanning, target, watching, link, services, asking,
                         enabling, sub, live, notifying, presses, abandoned>>
      PROVE  AppTypeOK'
  BY <1>2 DEF AppTypeOK
<1>3. QED
  BY <1>1, <1>2, NextCases

LEMMA AppTyped == Spec => []AppTypeOK
<1>1. Init => AppTypeOK
  BY AppTypeInit DEF Init
<1>2. QED
  BY <1>1, AppTypeNext, PTL DEF Spec

(***************************************************************************)
(* The app is not left connected to nothing: whatever the user presses and *)
(* whenever the connection ends, the event that tells it is on its way.    *)
(***************************************************************************)
THEOREM LossTold == Spec => []LossIsTold
<1>1. LossInv => LossIsTold
  BY DEF LossInv
<1>2. QED
  BY <1>1, LossInit, LossStep, AppTyped, PTL DEF Spec

-----------------------------------------------------------------------------
(* The listeners *)

(***************************************************************************)
(* The strengthening: outside of a discovery, and after it, one listener   *)
(* more than were abandoned is one that the field can cancel.              *)
(***************************************************************************)
Counted(n) == live + asking + enabling <= abandoned + n

Cancelled == IF sub = "live" THEN 1 ELSE 0

ListenInv ==
  /\ state = "Discovering" => Counted(1)
  /\ state # "Discovering" \/ asking + enabling = 0 => Counted(Cancelled)

(* One listener is cancelled: c of them, as Cancelled counts. *)
LEMMA OneLess ==
  ASSUME NEW l \in Int, NEW a \in Int, NEW e \in Int, NEW b \in Int, NEW c \in Int,
         l + a + e <= b + c
  PROVE  l - c + a + e <= b + 0
OBVIOUS

LEMMA ListenStep == AppTypeOK /\ ListenInv /\ [Next]_vars => ListenInv'
<1> SUFFICES ASSUME AppTypeOK, ListenInv, [Next]_vars
             PROVE  /\ state' = "Discovering" => Counted(1)'
                    /\ state' # "Discovering" \/ asking' + enabling' = 0 => Counted(Cancelled)'
  BY DEF ListenInv
<1>0. /\ live \in Nat /\ asking \in Nat /\ enabling \in Nat /\ abandoned \in Nat
      /\ Cancelled \in 0 .. 1 /\ Cancelled' \in 0 .. 1
  BY AppAssumption DEF AppTypeOK, AppAssumption, Cancelled
<1>1. CASE UNCHANGED <<state, asking, enabling, sub, live, abandoned>>
  BY <1>1 DEF ListenInv, Counted, Cancelled
<1>2. CASE HandleAppEvent
  <2>1. Cancel => live' = live - Cancelled /\ Cancelled' = 0
    BY DEF Cancel, Cancelled, AppTypeOK
  <2>2. enabling' = enabling
    BY <1>2, HandledCases
  <2>3. CASE UNCHANGED <<state, asking, sub, live, abandoned>>
    BY <1>1, <2>2, <2>3
  <2> DEFINE waits == state = "Discovering" /\ asking + enabling > 0
  <2> HIDE DEF waits
  <2>4. CASE abandoned' = IF waits THEN abandoned + 1 ELSE abandoned
    <3>1. abandoned' = IF waits THEN abandoned + 1 ELSE abandoned
      BY <2>4
    <3>2. live + asking + enabling <= abandoned' + Cancelled
      BY <1>0, <3>1 DEF ListenInv, Counted, waits
    <3>3. CASE ResetAll(state', Tail(events)) /\ state' # "Discovering"
      <4>1. live' = live - Cancelled /\ Cancelled' = 0 /\ asking' = asking
        BY <2>1, <3>3, ResetCases
      <4>2. live - Cancelled + asking + enabling <= abandoned' + 0
        <5>1. /\ abandoned' \in Int /\ live \in Int /\ asking \in Int /\ enabling \in Int
              /\ Cancelled \in Int
          BY <1>0, <3>1
        <5>2. QED
          BY <3>2, <5>1, OneLess
      <4>3. QED
        BY <2>2, <3>3, <4>1, <4>2 DEF Counted
    <3>4. CASE UNCHANGED <<asking, sub, live>> /\ state' # "Discovering"
      BY <1>0, <2>2, <3>2, <3>4 DEF Counted, Cancelled
    <3>5. CASE Passes("discover", "Connected", "Discovering") /\ Enter("Discovering", Tail(events))
      <4>1. /\ live' = live - Cancelled /\ Cancelled' = 0 /\ target' = target
            /\ asking' = asking + (IF target THEN 1 ELSE 0)
        BY <2>1, <3>5, EnterCases
      <4>2. state' = "Discovering" /\ abandoned' = abandoned
        BY <3>1, <3>5 DEF Passes, waits
      <4>3. QED
        BY <1>0, <2>2, <3>2, <4>1, <4>2 DEF Counted
    <3>6. QED
      BY <1>2, <2>3, <3>3, <3>4, <3>5, HandledCases, EnterCases DEF Passes
  <2>5. QED
    BY <1>2, <2>3, <2>4, HandledCases DEF waits
<1>3. CASE Reinit \/ User \/ ScanEnds \/ Connect \/ Disconnect \/ Subscribe \/ Notified
  BY <1>1, <1>3 DEF Reinit, User, ScanEnds, Connect, Disconnect, Subscribe, Notified, calls, counts
<1>4. CASE Discovered
  BY <1>0, <1>4 DEF Discovered, counts, ListenInv, Counted, Cancelled
<1>5. CASE Enabled
  <2>1. /\ enabling > 0 /\ live' = live + enabling /\ enabling' = 0 /\ Cancelled' = 1
        /\ UNCHANGED <<state, asking, abandoned>>
    BY <1>5 DEF Enabled, counts, Cancelled
  <2>2. live + asking + enabling <= abandoned + 1
    BY <1>0, <2>1 DEF ListenInv, Counted
  <2>3. QED
    BY <1>0, <2>1, <2>2 DEF Counted
<1>6. QED
  BY <1>1, <1>2, <1>3, <1>4, <1>5, NextCases DEF AppNext

(***************************************************************************)
(* Listeners that were not cancelled come from abandoned discoveries only, *)
(* one from each, for any number of presses and of calls that wait.        *)
(***************************************************************************)
THEOREM ListenersCorrect == Spec => []ListenersCounted
<1>1. Init => ListenInv
  BY DEF Init, AppInit, ListenInv, Counted, Cancelled
<1>2. AppTypeOK /\ ListenInv => ListenersCounted
  BY DEF ListenInv, Counted, Cancelled, ListenersCounted, AppTypeOK
<1>3. QED
  BY <1>1, <1>2, ListenStep, AppTyped, PTL DEF Spec

-----------------------------------------------------------------------------
(* Types of the way of an image *)

(* What a file, a part and the air hold. *)
ByteSet == [kind : {"byte"}, image : 0 .. MaxImages, num : Nat]
Notes == ByteSet \union {Zero} \union {Header(k, n) : k \in 0 .. MaxImages, n \in Nat}
PartSet == [bytes : Seq(ByteSet), image : 1 .. MaxImages, size : Nat,
            isFirst : BOOLEAN, isLast : BOOLEAN]

(* The strengthening: what the queues hold between the threads, and that   *)
(* what is read is of an image that was taken.                             *)
QueuesOK ==
  /\ evq \in Seq(PartSet) /\ ble \in Seq(Notes) /\ air \in Seq(Notes)
  /\ reading => taken # <<>>

(* The bytes of an image. *)
LEMMA RunTyped ==
  ASSUME NEW k \in 0 .. MaxImages, NEW i \in Nat \ {0}, NEW j \in Int, i <= j + 1
  PROVE  /\ Run(k, i, j) \in Seq(ByteSet)
         /\ Len(Run(k, i, j)) = j - i + 1
<1> DEFINE n == j - i + 1
<1>1. n \in Nat
  OBVIOUS
<1>2. \A m \in 1 .. n : Byte(k, i + m - 1) \in ByteSet
  BY DEF Byte, ByteSet
<1>3. Run(k, i, j) = [m \in 1 .. n |-> Byte(k, i + m - 1)]
  BY DEF Run
<1> HIDE DEF n
<1>4. Run(k, i, j) \in Seq(ByteSet) /\ Len(Run(k, i, j)) = n
  BY <1>1, <1>2, <1>3
<1>5. QED
  BY <1>4 DEF n

(* A file that a part was written to. *)
LEMMA StoreTyped ==
  ASSUME NEW file \in Seq(ByteSet), NEW part \in PartSet
  PROVE  Store(file, part) \in Seq(ByteSet)
<1>1. part.bytes \in Seq(ByteSet)
  BY DEF PartSet
<1> DEFINE n == Len(part.bytes)
<1>2. n \in Nat
  BY <1>1
<1> HIDE DEF n
<1>3. SubSeq(file, n + 1, Len(file)) \in Seq(ByteSet)
  BY <1>2
<1>4. part.bytes \o SubSeq(file, n + 1, Len(file)) \in Seq(ByteSet)
  BY <1>1, <1>3
<1>5. file \o part.bytes \in Seq(ByteSet)
  BY <1>1
<1>6. QED
  BY <1>4, <1>5 DEF Store, n

LEMMA TypeInit == Init => TypeOK /\ QueuesOK
<1> SUFFICES ASSUME Init PROVE TypeOK /\ QueuesOK
  OBVIOUS
<1>1. AppTypeOK
  BY AppTypeInit DEF Init
<1>2. 0 \in 0 .. MaxImages /\ MaxImages \in Nat /\ OldLen \in Nat /\ MaxTime \in Nat /\ MaxAir \in Nat
  BY ImageAssumption DEF ImageAssumption
<1>3. Run(0, 1, OldLen) \in Seq(ByteSet)
  BY <1>2, RunTyped
<1>4. files \in [Seconds -> Seq(ByteSet)]
  BY <1>3 DEF Init
<1>5. /\ evq = <<>> /\ ble = <<>> /\ air = <<>> /\ taken = <<>>
      /\ now = 0 /\ left = 0 /\ reading = FALSE /\ secs = [k \in 1 .. MaxImages |-> {}]
  BY DEF Init, AppInit
<1>6. QueuesOK
  BY <1>5 DEF QueuesOK
<1>7. now \in Seconds /\ taken \in Seq(Sizes) /\ Len(taken) <= MaxImages /\ Len(air) <= MaxAir
  BY <1>2, <1>5 DEF Seconds
<1>8. secs \in [1 .. MaxImages -> SUBSET Seconds]
  BY <1>5
<1>9. left \in Nat /\ reading = (left # 0) /\ (reading => left <= Last(taken))
  BY <1>5
<1>10. \A i \in DOMAIN evq : evq[i].image \in DOMAIN taken /\ evq[i].bytes # <<>>
  <2>1. DOMAIN evq = {}
    BY <1>5
  <2>2. QED
    BY <2>1
<1>11. QED
  BY <1>1, <1>4, <1>6, <1>7, <1>8, <1>9, <1>10 DEF TypeOK, ByteSet

(* The bounds on what goes on. *)
LEMMA WithinBounds ==
  ASSUME Within
  PROVE  \E b \in Budgets : /\ b.images \in 0 .. MaxImages /\ b.now \in Seconds
                            /\ Len(taken') <= b.images /\ now' <= b.now
<1>1. PICK b \in Budgets : Len(taken') <= b.images /\ now' <= b.now
  BY DEF Within
<1>2. b \in [images : 0 .. MaxImages, presses : 0 .. MaxPresses, now : Seconds]
  BY ImageAssumption DEF ImageAssumption
<1>3. QED
  BY <1>1, <1>2

(* takeImage() starts. *)
LEMMA TypeTakeImage ==
  ASSUME TypeOK, QueuesOK, TakeImage, Within
  PROVE  TypeOK' /\ QueuesOK'
<1>1. /\ UNCHANGED <<evq, ble, files, secs, now, air>>
      /\ UNCHANGED <<state, events, scanning, target, watching, link, services, asking,
                        enabling, sub, live, notifying, presses, abandoned>>
  BY DEF TakeImage, appVars
<1>2. AppTypeOK'
  BY <1>1 DEF TypeOK, AppTypeOK
<1>3. Len(taken') <= MaxImages
  <2>1. PICK b \in Budgets : b.images \in 0 .. MaxImages /\ Len(taken') <= b.images
    BY WithinBounds
  <2>2. Len(taken') \in Nat
    BY DEF TakeImage, TypeOK
  <2>3. MaxImages \in Nat
    BY ImageAssumption DEF ImageAssumption
  <2>4. QED
    BY <2>1, <2>2, <2>3
<1>4. CASE UNCHANGED <<taken, left, reading>>
  BY <1>1, <1>2, <1>4 DEF TypeOK, QueuesOK
<1>5. ASSUME NEW size \in Sizes, taken' = Append(taken, size), left' = size, reading' = (size # 0)
      PROVE  TypeOK' /\ QueuesOK'
  <2>1. size \in Nat
    BY ImageAssumption DEF ImageAssumption
  <2>2. taken \in Seq(Sizes)
    BY DEF TypeOK
  <2>3. /\ taken' \in Seq(Sizes) /\ taken' # <<>>
        /\ Len(taken') = Len(taken) + 1 /\ taken'[Len(taken')] = size
        /\ DOMAIN taken \subseteq DOMAIN taken'
    BY <1>5, <2>2
  <2>4. left' \in Nat /\ reading' = (left' # 0) /\ left' <= Last(taken')
    BY <1>5, <2>1, <2>3 DEF Last
  <2>5. \A i \in DOMAIN evq' : evq'[i].image \in DOMAIN taken' /\ evq'[i].bytes # <<>>
    BY <1>1, <2>3 DEF TypeOK
  <2>6. QueuesOK'
    BY <1>1, <2>3 DEF QueuesOK
  <2>7. QED
    BY <1>1, <1>2, <1>3, <2>3, <2>4, <2>5, <2>6 DEF TypeOK
<1>6. QED
  BY <1>4, <1>5 DEF TakeImage

(* A part is read from the camera: what is left is of the last image. *)
LEMMA SendFacts ==
  ASSUME TypeOK, QueuesOK, SendImageChunck
  PROVE  /\ taken \in Seq(Sizes) /\ taken # <<>> /\ Len(taken) \in 1 .. MaxImages
         /\ Last(taken) = taken[Len(taken)] /\ Last(taken) \in Nat
         /\ left \in Nat \ {0} /\ left <= Last(taken)
         /\ left' \in Nat /\ left' < left /\ (left' = 0) = (left <= Chunk)
         /\ reading /\ reading' = (left' # 0)
<1>1. /\ reading /\ left' = left - Lesser(left, Chunk) /\ reading' = (left' # 0)
  BY DEF SendImageChunck
<1>2. left \in Nat \ {0} /\ left <= Last(taken) /\ Chunk \in Nat \ {0} /\ taken \in Seq(Sizes)
      /\ Sizes \subseteq Nat /\ MaxImages \in Nat /\ Len(taken) <= MaxImages
  BY <1>1, ImageAssumption DEF TypeOK, ImageAssumption
<1>3. left' \in Nat /\ left' < left /\ (left' = 0) = (left <= Chunk)
  BY <1>1, <1>2 DEF Lesser
<1>4. taken # <<>>
  BY <1>1 DEF QueuesOK
<1>5. Len(taken) \in 1 .. MaxImages
  BY <1>2, <1>4
<1>6. taken[Len(taken)] \in Nat
  <2>1. Len(taken) \in 1 .. Len(taken) /\ Len(taken) \in Nat
    BY <1>2, <1>5
  <2>2. taken[Len(taken)] \in Sizes
    BY <1>2, <2>1, ElementOfSeq
  <2>3. QED
    BY <1>2, <2>2
<1>7. Last(taken) = taken[Len(taken)]
  BY DEF Last
<1>8. QED
  BY <1>1, <1>2, <1>3, <1>4, <1>5, <1>6, <1>7

(* The numbers of the first and of the last byte of a part. *)
From(p) == p.bytes[1].num
To(p) == From(p) + Len(p.bytes) - 1

(* A part of an image that was taken. *)
PartOK(p) ==
  /\ p.image \in DOMAIN taken /\ p.size = taken[p.image]
  /\ From(p) \in Nat \ {0} /\ To(p) \in Nat /\ From(p) <= To(p) /\ To(p) <= p.size
  /\ p.bytes = Run(p.image, From(p), To(p))
  /\ p.isFirst = (From(p) = 1) /\ p.isLast = (To(p) = p.size)

(* What goes over the air last before a part and after it, and before what *)
(* is left in the camera.                                                  *)
PartBefore(p) == IF p.isFirst THEN Zero ELSE Byte(p.image, From(p) - 1)
PartAfter(p) == IF p.isLast THEN Zero ELSE Byte(p.image, To(p))
CameraBefore ==
  IF ~reading \/ left = Last(taken) THEN Zero ELSE Byte(Len(taken), Last(taken) - left)

(* The bytes from one to another. *)
LEMMA RunEnds ==
  ASSUME NEW k, NEW i \in Nat \ {0}, NEW j \in Nat, i <= j
  PROVE  /\ Run(k, i, j) # <<>> /\ Len(Run(k, i, j)) = j - i + 1
         /\ DOMAIN Run(k, i, j) = 1 .. j - i + 1
         /\ Run(k, i, j)[1] = Byte(k, i)
         /\ \A n \in 1 .. j - i + 1 : Run(k, i, j)[n] = Byte(k, i + n - 1)
<1> DEFINE m == j - i + 1
           r == [n \in 1 .. m |-> Byte(k, i + n - 1)]
<1>1. m \in Nat \ {0} /\ 1 \in 1 .. m /\ i + 1 - 1 = i
  OBVIOUS
<1> HIDE DEF m
<1> DEFINE S == {Byte(k, n) : n \in Nat}
<1>2. r \in Seq(S)
  <2>1. \A n \in 1 .. m : Byte(k, i + n - 1) \in S
    BY <1>1
  <2> HIDE DEF S
  <2>2. QED
    BY <1>1, <2>1
<1>3. DOMAIN r = 1 .. m /\ Len(r) = m /\ r # <<>>
  BY <1>1, <1>2
<1>4. \A n \in 1 .. m : r[n] = Byte(k, i + n - 1)
  OBVIOUS
<1>5. r[1] = Byte(k, i)
  BY <1>1, <1>4
<1>6. Run(k, i, j) = r
  BY DEF Run, m
<1> HIDE DEF r
<1>7. QED
  BY <1>3, <1>4, <1>5, <1>6 DEF m

(* The part that the camera sends. *)
LEMMA PartSent ==
  ASSUME TypeOK, QueuesOK, SendImageChunck
  PROVE  \E p : /\ evq' = Append(evq, p) /\ PartOK(p) /\ p \in PartSet
                /\ PartBefore(p) = CameraBefore /\ PartAfter(p) = CameraBefore'
                /\ p.image = Len(taken)
                /\ From(p) = Last(taken) - left + 1 /\ To(p) = Last(taken) - left'
                /\ p.isFirst => To(p) = Lesser(Chunk, Last(taken))
<1> DEFINE size == Last(taken)
           a == size - left + 1
           b == size - left'
           bytes == Run(Len(taken), a, b)
           p == Part(bytes, size, left = size, left <= Chunk)
<1>1. evq' = Append(evq, p) /\ taken' = taken
  BY DEF SendImageChunck
<1>2. /\ taken \in Seq(Sizes) /\ taken # <<>> /\ size = taken[Len(taken)] /\ size \in Nat
      /\ left \in Nat \ {0} /\ left <= size /\ left' \in Nat /\ left' < left
      /\ (left' = 0) = (left <= Chunk) /\ reading /\ reading' = (left' # 0)
      /\ Len(taken) \in 1 .. MaxImages
  BY SendFacts
<1> HIDE DEF size
<1>3. a \in Nat \ {0} /\ b \in Nat /\ a <= b /\ b <= size /\ (b = size) = (left' = 0)
      /\ (a = 1) = (left = size) /\ a - 1 = size - left /\ a + (b - a + 1) - 1 = b
  <2>1. \A l, m, z \in Nat : (l # 0 /\ l <= z /\ m < l)
          => LET c == z - l + 1
                 d == z - m
             IN  /\ c \in Nat \ {0} /\ d \in Nat /\ c <= d /\ d <= z
                 /\ (d = z <=> m = 0) /\ (c = 1 <=> l = z) /\ c - 1 = z - l
                 /\ c + (d - c + 1) - 1 = d
    OBVIOUS
  <2>2. QED
    BY <1>2, <2>1
<1> HIDE DEF a, b
<1>4. bytes # <<>> /\ Len(bytes) = b - a + 1 /\ bytes[1] = Byte(Len(taken), a)
  BY <1>3, RunEnds
<1> HIDE DEF bytes
<1>5. /\ p.image = Len(taken) /\ p.size = size /\ p.bytes = bytes
      /\ p.isFirst = (left = size) /\ p.isLast = (left <= Chunk)
  BY DEF Part
<1> HIDE DEF p
<1>6. From(p) = a /\ To(p) = b
  BY <1>3, <1>4, <1>5 DEF From, To, Byte
<1>7. Len(taken) \in DOMAIN taken
  BY <1>2
<1>8. p.isFirst = (From(p) = 1) /\ p.isLast = (To(p) = p.size)
  BY <1>2, <1>3, <1>5, <1>6
<1>9. PartOK(p)
  BY <1>2, <1>3, <1>5, <1>6, <1>7, <1>8 DEF PartOK, bytes
<1>10. PartBefore(p) = CameraBefore
  BY <1>2, <1>3, <1>5, <1>6 DEF PartBefore, CameraBefore, size
<1>11. PartAfter(p) = CameraBefore'
  <2>1. size = Last(taken') /\ Len(taken') = Len(taken)
    BY <1>1 DEF size
  <2>2. p.isLast = (left' = 0) /\ left' # size
    BY <1>2, <1>5
  <2>3. QED
    BY <1>2, <1>5, <1>6, <2>1, <2>2 DEF PartAfter, CameraBefore, b
<1>12. p \in PartSet
  <2>1. bytes \in Seq(ByteSet)
    <3>1. Len(taken) \in 0 .. MaxImages /\ a <= b + 1 /\ b \in Int
      BY <1>2, <1>3
    <3>2. QED
      BY <1>3, <3>1, RunTyped DEF bytes
  <2>2. p = [bytes |-> bytes, image |-> Len(taken), size |-> size,
             isFirst |-> (left = size), isLast |-> (left <= Chunk)]
    BY DEF p, Part
  <2>3. \A x, y, z, f, l : x \in Seq(ByteSet) /\ y \in 1 .. MaxImages /\ z \in Nat
                           /\ f \in BOOLEAN /\ l \in BOOLEAN
          => [bytes |-> x, image |-> y, size |-> z, isFirst |-> f, isLast |-> l] \in PartSet
    BY DEF PartSet
  <2> DEFINE first == left = size
             last == left <= Chunk
  <2>4. first \in BOOLEAN /\ last \in BOOLEAN
    OBVIOUS
  <2>5. p = [bytes |-> bytes, image |-> Len(taken), size |-> size,
             isFirst |-> first, isLast |-> last]
    BY <2>2
  <2> HIDE DEF first, last
  <2>6. QED
    BY <1>2, <2>1, <2>3, <2>4, <2>5
<1>13. p.isFirst => b = Lesser(Chunk, size)
  <2>1. left' = left - Lesser(left, Chunk) /\ Chunk \in Nat \ {0}
    BY ImageAssumption DEF SendImageChunck, ImageAssumption
  <2>2. p.isFirst => b = left - left' /\ left = size
    BY <1>5 DEF b
  <2>3. QED
    BY <1>2, <2>1, <2>2 DEF Lesser
<1>14. From(p) = Last(taken) - left + 1 /\ To(p) = Last(taken) - left' /\ p.image = Len(taken)
  BY <1>5, <1>6 DEF a, b, size
<1>15. QED
  BY <1>1, <1>6, <1>9, <1>10, <1>11, <1>12, <1>13, <1>14 DEF size

LEMMA TypeSend ==
  ASSUME TypeOK, QueuesOK, SendImageChunck
  PROVE  TypeOK' /\ QueuesOK'
<1>1. /\ UNCHANGED <<taken, ble, files, secs, now, air>>
      /\ UNCHANGED <<state, events, scanning, target, watching, link, services, asking,
                        enabling, sub, live, notifying, presses, abandoned>>
  BY DEF SendImageChunck, appVars
<1>2. AppTypeOK'
  BY <1>1 DEF TypeOK, AppTypeOK
<1>3. PICK p : evq' = Append(evq, p) /\ PartOK(p) /\ p \in PartSet
  BY PartSent
<1>4. p.image \in DOMAIN taken /\ p.bytes # <<>>
  <2>1. /\ p.image \in DOMAIN taken /\ p.bytes = Run(p.image, From(p), To(p))
        /\ From(p) \in Nat \ {0} /\ To(p) \in Nat /\ From(p) <= To(p)
    BY <1>3 DEF PartOK
  <2>2. Run(p.image, From(p), To(p)) # <<>>
    BY <2>1, RunEnds
  <2>3. QED
    BY <2>1, <2>2
<1>5. /\ evq' \in Seq(PartSet)
      /\ \A i \in DOMAIN evq' : evq'[i].image \in DOMAIN taken /\ evq'[i].bytes # <<>>
  <2>1. evq' \in Seq(PartSet)
    BY <1>3 DEF QueuesOK
  <2>2. \A i \in DOMAIN evq' : (i \in DOMAIN evq /\ evq'[i] = evq[i]) \/ evq'[i] = p
    BY <1>3 DEF QueuesOK
  <2>3. QED
    BY <1>4, <2>1, <2>2 DEF TypeOK
<1>6. left' \in Nat /\ reading' = (left' # 0) /\ left' <= Last(taken) /\ taken # <<>>
  BY SendFacts
<1>7. QED
  BY <1>1, <1>2, <1>5, <1>6 DEF TypeOK, QueuesOK

(* A part is handled: it goes to its file and to the BLE module. *)
LEMMA TypeHandle ==
  ASSUME TypeOK, QueuesOK, HandleCameraData
  PROVE  TypeOK' /\ QueuesOK'
<1> DEFINE part == Head(evq)
<1>1. /\ UNCHANGED <<taken, left, reading, now, air>>
      /\ UNCHANGED <<state, events, scanning, target, watching, link, services, asking,
                        enabling, sub, live, notifying, presses, abandoned>>
      /\ evq # <<>> /\ evq' = Tail(evq)
      /\ ble' = ble \o (IF part.isFirst THEN <<Header(part.image, part.size)>> ELSE <<>>)
                    \o part.bytes
                    \o (IF part.isLast THEN <<Zero>> ELSE <<>>)
      /\ files' = [files EXCEPT ![now] = Store(@, part)]
      /\ secs' = [secs EXCEPT ![part.image] = @ \union {now}]
  BY DEF HandleCameraData, appVars
<1>2. AppTypeOK'
  BY <1>1 DEF TypeOK, AppTypeOK
<1>3. /\ part \in PartSet /\ evq' \in Seq(PartSet)
      /\ \A i \in DOMAIN evq' : i + 1 \in DOMAIN evq /\ evq'[i] = evq[i + 1]
  BY <1>1 DEF QueuesOK
<1> HIDE DEF part
<1>4. /\ part.bytes \in Seq(Notes) /\ part.image \in 1 .. MaxImages /\ part.size \in Nat
  <2>1. part.bytes \in Seq(ByteSet) /\ part.image \in 1 .. MaxImages /\ part.size \in Nat
    BY <1>3 DEF PartSet
  <2>2. ByteSet \subseteq Notes
    BY DEF Notes
  <2>3. QED
    BY <2>1, <2>2
<1>5. ble' \in Seq(Notes)
  <2> DEFINE first == IF part.isFirst THEN <<Header(part.image, part.size)>> ELSE <<>>
             last == IF part.isLast THEN <<Zero>> ELSE <<>>
  <2>1. Header(part.image, part.size) \in Notes /\ Zero \in Notes
    BY <1>4, ImageAssumption DEF Notes, ImageAssumption
  <2>2. first \in Seq(Notes) /\ last \in Seq(Notes) /\ ble \in Seq(Notes)
    BY <2>1 DEF QueuesOK
  <2>3. ble' = ((ble \o first) \o part.bytes) \o last
    BY <1>1
  <2> HIDE DEF first, last
  <2>4. (ble \o first) \in Seq(Notes)
    BY <2>2
  <2>5. ((ble \o first) \o part.bytes) \in Seq(Notes)
    BY <1>4, <2>4
  <2>6. QED
    BY <2>2, <2>3, <2>5
<1>6. files' \in [Seconds -> Seq(ByteSet)]
  <2>1. files \in [Seconds -> Seq(ByteSet)] /\ now \in Seconds
    BY DEF TypeOK, ByteSet
  <2>2. Store(files[now], part) \in Seq(ByteSet)
    BY <1>3, <2>1, StoreTyped
  <2>3. QED
    BY <1>1, <2>1, <2>2
<1>7. secs' \in [1 .. MaxImages -> SUBSET Seconds]
  BY <1>1, <1>4 DEF TypeOK
<1>8. \A i \in DOMAIN evq' : evq'[i].image \in DOMAIN taken /\ evq'[i].bytes # <<>>
  BY <1>3 DEF TypeOK
<1>9. QED
  BY <1>1, <1>2, <1>3, <1>5, <1>6, <1>7, <1>8 DEF TypeOK, QueuesOK, ByteSet

LEMMA TypeNext == TypeOK /\ QueuesOK /\ [Next]_vars => TypeOK' /\ QueuesOK'
<1> SUFFICES ASSUME TypeOK, QueuesOK, [Next]_vars PROVE TypeOK' /\ QueuesOK'
  OBVIOUS
<1>0. MaxAir \in Nat \ {0} /\ air \in Seq(Notes) /\ ble \in Seq(Notes)
  BY ImageAssumption DEF ImageAssumption, QueuesOK
<1>1. CASE UNCHANGED vars
  BY <1>1 DEF vars, appVars, devVars, TypeOK, AppTypeOK, QueuesOK
<1>2. CASE AppNext /\ UNCHANGED devVars
  <2>1. AppTypeOK'
    BY <1>2, AppTypeStep DEF TypeOK
  <2>2. air' \in {air, <<>>} \/ (air # <<>> /\ air' = Tail(air))
    BY <1>2, HandledCases DEF AppNext, Reinit, User, ScanEnds, Connect, Disconnect, Discovered,
                              Subscribe, Enabled, Notified, data
  <2>3. air' \in Seq(Notes) /\ Len(air') <= MaxAir
    <3>1. <<>> \in Seq(Notes) /\ Len(<<>>) = 0
      OBVIOUS
    <3>2. air # <<>> => Tail(air) \in Seq(Notes) /\ Len(Tail(air)) = Len(air) - 1 /\ Len(air) \in Nat
      BY <1>0
    <3>3. Len(air) \in Nat /\ Len(air) <= MaxAir
      BY <1>0 DEF TypeOK
    <3>4. CASE air' = air
      BY <1>0, <3>3, <3>4
    <3>5. CASE air' = <<>>
      <4>1. Len(air') = 0
        BY <3>5
      <4>2. QED
        BY <1>0, <3>1, <3>5, <4>1
    <3>6. CASE air # <<>> /\ air' = Tail(air)
      <4>1. air' \in Seq(Notes) /\ Len(air') = Len(air) - 1
        BY <3>2, <3>6
      <4>2. QED
        BY <1>0, <3>3, <4>1
    <3>7. QED
      BY <2>2, <3>4, <3>5, <3>6
  <2>4. QED
    BY <1>2, <2>1, <2>3 DEF devVars, TypeOK, QueuesOK
<1>3. CASE TakeImage /\ Within
  BY <1>3, TypeTakeImage
<1>4. CASE Tick /\ Within
  <2>1. /\ UNCHANGED <<taken, left, reading, evq, ble, files, secs, air>>
        /\ UNCHANGED <<state, events, scanning, target, watching, link, services, asking,
                       enabling, sub, live, notifying, presses, abandoned>>
        /\ now' = now + 1
    BY <1>4 DEF Tick, appVars
  <2>2. now' \in Seconds
    <3>1. PICK b \in Budgets : b.now \in Seconds /\ now' <= b.now
      BY <1>4, WithinBounds
    <3>2. QED
      BY <2>1, <3>1, ImageAssumption DEF TypeOK, Seconds, ImageAssumption
  <2>3. AppTypeOK'
    BY <2>1 DEF TypeOK, AppTypeOK
  <2>4. QED
    BY <2>1, <2>2, <2>3 DEF TypeOK, QueuesOK
<1>5. CASE SendImageChunck
  BY <1>5, TypeSend
<1>6. CASE HandleCameraData
  BY <1>6, TypeHandle
<1>7. CASE Transmit
  <2>1. /\ UNCHANGED <<now, taken, left, reading, evq, files, secs>>
        /\ UNCHANGED <<state, events, scanning, target, watching, link, services, asking,
                       enabling, sub, live, notifying, presses, abandoned>>
        /\ ble # <<>> /\ ble' = Tail(ble)
        /\ air' = air \/ (Len(air) < MaxAir /\ air' = Append(air, Head(ble)))
    BY <1>7 DEF Transmit, calls, counts
  <2>2. ble' \in Seq(Notes) /\ air' \in Seq(Notes) /\ Len(air') <= MaxAir
    <3>1. ble' \in Seq(Notes) /\ Head(ble) \in Notes
      BY <1>0, <2>1
    <3>2. Append(air, Head(ble)) \in Seq(Notes) /\ Len(Append(air, Head(ble))) = Len(air) + 1
          /\ Len(air) \in Nat
      BY <1>0, <3>1
    <3>3. Len(air) <= MaxAir
      BY DEF TypeOK
    <3>4. CASE air' = air
      BY <1>0, <3>1, <3>3, <3>4
    <3>5. CASE Len(air) < MaxAir /\ air' = Append(air, Head(ble))
      <4>1. air' \in Seq(Notes) /\ Len(air') = Len(air) + 1
        BY <3>2, <3>5
      <4>2. QED
        BY <1>0, <3>1, <3>2, <3>5, <4>1
    <3>6. QED
      BY <2>1, <3>4, <3>5
  <2>3. AppTypeOK'
    BY <2>1 DEF TypeOK, AppTypeOK
  <2>4. QED
    BY <2>1, <2>2, <2>3 DEF TypeOK, QueuesOK
<1>8. QED
  BY <1>1, <1>2, <1>3, <1>4, <1>5, <1>6, <1>7 DEF Next, Device

(***************************************************************************)
(* Type correctness: no more is on its way than fits, what is left in the  *)
(* camera is of the last image, and no part is empty.                      *)
(***************************************************************************)
THEOREM TypeCorrect == Spec => []TypeOK
<1>1. QED
  BY TypeInit, TypeNext, PTL DEF Spec

-----------------------------------------------------------------------------
(* Connections and what was collected before them *)

(***************************************************************************)
(* The events around a connection: those that a discovery ends with come   *)
(* together, the others alone; a connection is that of a device that is    *)
(* watched, and nothing is notified without one.                           *)
(***************************************************************************)
Linked == {"Connected", "Discovering"}

EventsOK ==
  /\ \A i, j \in DOMAIN events :
       i < j => events[i] = "discovered" /\ events[j] \in {"discovered", "discover"}
  /\ \A i \in DOMAIN events : events[i] = "discover" => state = "Connected"
  /\ \A i \in DOMAIN events : events[i] = "connected" => state = "Connecting"

LinkOK ==
  /\ link = "connecting" => state = "Connecting"
  /\ link = "up" /\ state \notin Linked => state = "Connecting" /\ events = <<"connected">>
  /\ link \in {"connecting", "up"} => watching
  /\ services => state \in Linked
  /\ notifying => link \in {"up", "closing"}
  /\ ~notifying => air = <<>>

(***************************************************************************)
(* An app that may yet start to listen has nothing collected, or is about  *)
(* to discover services, and to clear it before.                           *)
(***************************************************************************)
Clearing == \E i \in DOMAIN events : events[i] \in {"connected", "discover"}

ClearOK == link = "up" /\ (live = 0 \/ ~notifying) => text = <<>> \/ Clearing

ConnInv == EventsOK /\ LinkOK /\ ClearOK

LEMMA ConnInit == Init => ConnInv
BY DEF Init, AppInit, ConnInv, EventsOK, LinkOK, ClearOK

(* The events behind the next one. *)
LEMMA EventsBehind ==
  ASSUME AppTypeOK, EventsOK, events # <<>>
  PROVE  LET r == Tail(events) IN
         /\ r \in Seq(Triggers)
         /\ \A i \in DOMAIN r : /\ Head(events) = "discovered" /\ r[i] \in {"discovered", "discover"}
                                /\ r[i] = "discover" => state = "Connected"
         /\ \A i, j \in DOMAIN r : i < j => r[i] = "discovered"
         /\ Head(events) = "discover" => state = "Connected"
         /\ \A i \in DOMAIN events : events[i] = Head(events) \/ \E j \in DOMAIN r : r[j] = events[i]
<1> DEFINE r == Tail(events)
<1>1. events \in Seq(Triggers)
  BY DEF AppTypeOK
<1>2. /\ r \in Seq(Triggers)
      /\ \A i \in DOMAIN r : i + 1 \in DOMAIN events /\ r[i] = events[i + 1] /\ Len(events) # 1
      /\ \A i \in DOMAIN events : events[i] = Head(events) \/ \E j \in DOMAIN r : r[j] = events[i]
  BY <1>1, EventsTaken
<1>3. /\ 1 \in DOMAIN events /\ Head(events) = events[1]
      /\ DOMAIN events \subseteq Nat /\ DOMAIN r = 1 .. Len(r) /\ Len(r) \in Nat
  BY <1>1, <1>2
<1> HIDE DEF r
<1>4. \A i \in DOMAIN r : 1 < i + 1 /\ i \in Nat
  BY <1>3
<1>5. \A i, j \in DOMAIN r : i < j => i + 1 < j + 1
  BY <1>4
<1>6. \A i \in DOMAIN r : /\ Head(events) = "discovered" /\ r[i] \in {"discovered", "discover"}
                          /\ r[i] = "discover" => state = "Connected"
  <2>1. \A i \in DOMAIN r : Head(events) = "discovered" /\ r[i] \in {"discovered", "discover"}
    BY <1>2, <1>3, <1>4 DEF EventsOK
  <2>2. \A i \in DOMAIN r : r[i] = "discover" => state = "Connected"
    BY <1>2 DEF EventsOK
  <2>3. QED
    BY <2>1, <2>2
<1>7. \A i, j \in DOMAIN r : i < j => r[i] = "discovered"
  BY <1>2, <1>5 DEF EventsOK
<1>8. Head(events) = "discover" => state = "Connected"
  BY <1>3 DEF EventsOK
<1>9. QED
  BY <1>2, <1>6, <1>7, <1>8 DEF r

(* Events that were added to none, or to those of a discovery. *)
LEMMA EventsAlone ==
  ASSUME NEW e
  PROVE  /\ \A i, j \in DOMAIN <<e>> : ~(i < j)
         /\ \A i \in DOMAIN <<e>> : <<e>>[i] = e
         /\ 1 \in DOMAIN <<e>>
OBVIOUS

LEMMA ConnHandled ==
  ASSUME AppTypeOK, LossInv, ConnInv, HandleAppEvent
  PROVE  ConnInv'
<1> DEFINE rest == Tail(events)
           ordered(q) == \A i, j \in DOMAIN q :
                           i < j => q[i] = "discovered" /\ q[j] \in {"discovered", "discover"}
           discovers(q) == \E i \in DOMAIN q : q[i] = "discover"
           connects(q) == \E i \in DOMAIN q : q[i] = "connected"
<1>0. events # <<>> /\ events \in Seq(Triggers) /\ UNCHANGED <<notifying, air, enabling>>
  BY HandledCases DEF AppTypeOK
<1>1. /\ rest \in Seq(Triggers)
      /\ \A i \in DOMAIN rest : /\ Head(events) = "discovered"
                                /\ rest[i] \in {"discovered", "discover"}
                                /\ rest[i] = "discover" => state = "Connected"
      /\ \A i, j \in DOMAIN rest : i < j => rest[i] = "discovered"
      /\ Head(events) = "discover" => state = "Connected"
      /\ \A i \in DOMAIN events :
           events[i] = Head(events) \/ \E j \in DOMAIN rest : rest[j] = events[i]
  BY <1>0, EventsBehind DEF ConnInv
<1>2. Head(events) # "discovered" => rest = <<>>
  BY <1>1
<1>3. ordered(rest) /\ (discovers(rest) => Head(events) = "discovered" /\ state = "Connected")
  BY <1>1
<1>4. Clearing => Head(events) \in {"connected", "discover"} \/ discovers(rest)
  BY <1>1 DEF Clearing
<1>5. link \in {"connecting", "up"} => watching /\ target /\ state \in Linked \union {"Connecting"}
  BY DEF ConnInv, LinkOK, LossInv, Linked
<1>6. Head(events) = "connected" => link = "up" /\ watching /\ state = "Connecting"
  <2>1. 1 \in DOMAIN events /\ events[1] = Head(events)
    BY <1>0
  <2>2. QED
    BY <2>1 DEF LossInv, ConnInv, EventsOK
<1> USE DEF Passes
<1>7. CASE events' = rest /\ ~Heeded(Head(events), state)
           /\ UNCHANGED <<state, watching, link, services, live, text>>
  <2>1. EventsOK'
    BY <1>3, <1>7 DEF ConnInv, EventsOK
  <2>2. LinkOK'
    <3>1. link = "up" => state \in Linked
      BY <1>0, <1>6, <1>7 DEF ConnInv, LinkOK, Heeded
    <3>2. QED
      BY <1>0, <1>7, <3>1 DEF ConnInv, LinkOK
  <2>3. Head(events) \notin {"connected", "discover"}
    BY <1>1, <1>6, <1>7 DEF Heeded
  <2>4. ClearOK'
    BY <1>0, <1>4, <1>7, <2>3 DEF ConnInv, ClearOK, Clearing
  <2>5. QED
    BY <2>1, <2>2, <2>4 DEF ConnInv
<1>8. CASE \E to \in {"Init", "Idle"} :
             /\ Passes("reinit", "Init", to) \/ Passes("disconnect", state, to)
             /\ ResetAll(to, rest)
  <2>1. rest = <<>> /\ link' \notin {"connecting", "up"} /\ ~services'
        /\ (link = "up" => link' = "closing") /\ (link = "closing" => link' = "closing")
    BY <1>2, <1>5, <1>8, ResetCases DEF AppTypeOK
  <2>2. events' = <<>> \/ events' = <<"initialized">> \/ events' = <<"error">>
    <3>1. \/ events' = rest \/ events' = Append(rest, "initialized")
          \/ events' = Append(rest, "error")
      BY <1>8, ResetCases
    <3> HIDE DEF rest
    <3>2. QED
      BY <2>1, <3>1
  <2>3. ordered(events') /\ ~discovers(events') /\ ~connects(events')
    BY <2>2, EventsAlone
  <2>4. notifying' => link' \in {"up", "closing"}
    BY <1>0, <2>1 DEF ConnInv, LinkOK
  <2>5. QED
    BY <1>0, <2>1, <2>3, <2>4 DEF ConnInv, EventsOK, LinkOK, ClearOK
<1>9. CASE \/ Passes("initialized", "Init", "Idle") /\ Enter("Idle", rest)
           \/ Passes("scan", "Idle", "Scanning") /\ Enter("Scanning", rest)
           \/ Passes("found", "Scanning", "Idle") /\ Enter("Idle", rest)
  <2>1. /\ events' = <<>> /\ UNCHANGED <<watching, link, services>>
        /\ state \notin Linked /\ state # "Connecting"
    BY <1>2, <1>9, EnterCases DEF Linked
  <2>2. QED
    BY <1>0, <1>5, <2>1 DEF ConnInv, EventsOK, LinkOK, ClearOK
<1>10. CASE state \in {"Idle", "Scanning"} /\ Passes("connect", state, "Connecting")
            /\ Enter("Connecting", rest)
  <2>1. /\ events' = <<>> /\ UNCHANGED <<target, services>>
        /\ watching' = (watching \/ target)
        /\ link' = IF target /\ link = "down" THEN "connecting" ELSE link
        /\ link \notin {"connecting", "up"} /\ ~services
    BY <1>2, <1>5, <1>10, EnterCases DEF ConnInv, LinkOK, Linked
  <2>3. link' # "up" /\ (link' = "connecting" => watching')
        /\ (notifying => link' \in {"up", "closing"})
    BY <2>1 DEF ConnInv, LinkOK
  <2>4. QED
    BY <1>0, <1>10, <2>1, <2>3 DEF ConnInv, EventsOK, LinkOK, ClearOK
<1>11. CASE Passes("connected", "Connecting", "Connected") /\ Enter("Connected", rest)
  <2>1. ~services /\ rest = <<>>
    BY <1>2, <1>11 DEF ConnInv, LinkOK, Linked
  <2>2. events' = <<"discover">> /\ UNCHANGED <<watching, link, services, live, text>>
    BY <1>11, <2>1 DEF Enter, Add
  <2>3. ordered(events') /\ ~connects(events') /\ Clearing'
    BY <2>2, EventsAlone DEF Clearing
  <2>4. EventsOK' /\ ClearOK'
    BY <1>11, <2>3 DEF EventsOK, ClearOK
  <2>5. QED
    BY <1>0, <1>6, <1>11, <2>1, <2>2, <2>4 DEF ConnInv, LinkOK, Linked
<1>12. CASE Passes("discover", "Connected", "Discovering") /\ Enter("Discovering", rest)
  <2>1. events' = <<>> /\ UNCHANGED <<watching, link>> /\ text' = <<>> /\ ~services'
    BY <1>2, <1>12 DEF Enter, Add, Forget
  <2>2. QED
    BY <1>0, <1>12, <2>1 DEF ConnInv, EventsOK, LinkOK, ClearOK, Linked
<1>13. CASE Passes("discovered", "Discovering", "Connected") /\ Enter("Connected", rest)
  <2>1. /\ events' = IF services THEN rest ELSE Append(rest, "discover")
        /\ UNCHANGED <<watching, link, services, live, text>>
    BY <1>13 DEF Enter, Add
  <2>2. \A i \in DOMAIN rest : rest[i] = "discovered"
    BY <1>1, <1>13
  <2>3. ordered(Append(rest, "discover"))
    <3>1. "discover" \in Triggers
      BY TriggersListed
    <3>2. DOMAIN rest = 1 .. Len(rest) /\ Len(rest) \in Nat
          /\ DOMAIN Append(rest, "discover") = 1 .. Len(rest) + 1
          /\ Append(rest, "discover")[Len(rest) + 1] = "discover"
          /\ \A i \in 1 .. Len(rest) : Append(rest, "discover")[i] = rest[i]
      BY <1>1, <3>1
    <3> HIDE DEF rest
    <3>3. \A i, j \in 1 .. Len(rest) + 1 : i < j => i \in 1 .. Len(rest)
      BY <3>2
    <3>4. QED
      BY <2>2, <3>2, <3>3
  <2>4. EventsOK'
    BY <1>3, <1>13, <2>1, <2>3 DEF EventsOK
  <2>5. ~Clearing
    BY <1>4, <1>13, <2>2
  <2>6. QED
    BY <1>0, <1>13, <2>1, <2>4, <2>5 DEF ConnInv, LinkOK, ClearOK, Linked
<1>14. QED
  BY <1>7, <1>8, <1>9, <1>10, <1>11, <1>12, <1>13, HandledCases

LEMMA ConnStep == AppTypeOK /\ LossInv /\ ConnInv /\ [Next]_vars => ConnInv'
<1> SUFFICES ASSUME AppTypeOK, LossInv, ConnInv, [Next]_vars PROVE ConnInv'
  OBVIOUS
<1> USE DEF ConnInv
<1>1. CASE HandleAppEvent
  BY <1>1, ConnHandled
<1>2. CASE UNCHANGED <<state, events, watching, link, services, live, text, notifying>>
           /\ (~notifying => air' = <<>>)
  BY <1>2 DEF EventsOK, LinkOK, ClearOK, Clearing
<1>3. CASE /\ Quiet
           /\ events' = <<>> \/ \E ev : events' = <<ev>> /\ ev \notin {"discover", "connected"}
           /\ UNCHANGED <<state, watching, link, services, live, text, notifying, air>>
  <2>1. EventsOK'
    BY <1>3, EventsAlone DEF EventsOK
  <2>2. link = "up" => state \in Linked
    BY <1>3 DEF Quiet, LinkOK
  <2>3. ~Clearing
    BY <1>3 DEF Quiet, Clearing
  <2>4. QED
    BY <1>3, <2>1, <2>2, <2>3 DEF LinkOK, ClearOK
<1>4. CASE Reinit \/ User \/ ScanEnds
  BY <1>3, <1>4 DEF Reinit, User, ScanEnds, Add, Quiet, calls, data
<1>5. CASE Connect
  <2>1. /\ Quiet /\ link = "connecting" /\ link' = "up"
        /\ events' = IF watching THEN <<"connected">> ELSE <<>>
        /\ UNCHANGED <<state, watching, services, live, text, notifying, air>>
    BY <1>5 DEF Connect, Tell, Add, calls, data
  <2>2. watching /\ events' = <<"connected">> /\ state = "Connecting" /\ ~services
    BY <2>1 DEF LinkOK, Linked
  <2>3. /\ \A i, j \in DOMAIN events' : ~(i < j)
        /\ \A i \in DOMAIN events' : events'[i] = "connected"
        /\ 1 \in DOMAIN events'
    BY <2>2, EventsAlone
  <2>4. EventsOK' /\ Clearing'
    BY <2>1, <2>2, <2>3 DEF EventsOK, Clearing
  <2>5. QED
    BY <2>1, <2>2, <2>4 DEF LinkOK, ClearOK
<1>6. CASE Disconnect
  <2>1. /\ link' = "down" /\ notifying' = FALSE /\ air' = <<>>
        /\ events' = <<"disconnect">> \/ events' = <<>>
        /\ UNCHANGED <<state, watching, services, live, text>>
    BY <1>6 DEF Disconnect, Tell, Add, calls
  <2>2. EventsOK'
    BY <2>1, EventsAlone DEF EventsOK
  <2>3. QED
    BY <2>1, <2>2 DEF LinkOK, ClearOK
<1>7. CASE Discovered
  <2>1. /\ Quiet /\ link = "up"
        /\ UNCHANGED <<state, events, watching, link, live, text, notifying, air>>
    BY <1>7 DEF Discovered, data
  <2>2. state \in Linked
    BY <2>1 DEF Quiet, LinkOK
  <2>3. QED
    BY <2>1, <2>2 DEF EventsOK, LinkOK, ClearOK, Clearing
<1>8. CASE Subscribe
  <2>1. /\ link = "up" /\ notifying' /\ ~notifying
        /\ UNCHANGED <<state, events, watching, link, services, live, air, text>>
    BY <1>8 DEF Subscribe, calls
  <2>2. QED
    BY <2>1 DEF EventsOK, LinkOK, ClearOK, Clearing
<1>9. CASE Enabled
  <2>1. /\ Quiet /\ enabling > 0 /\ notifying /\ live' = live + enabling
        /\ events' = [i \in 1 .. enabling |-> "discovered"]
        /\ UNCHANGED <<state, watching, link, services, text, notifying, air>>
    BY <1>9 DEF Enabled, Add, data
  <2>2. live' > 0
    BY <2>1 DEF AppTypeOK
  <2>3. EventsOK'
    BY <2>1 DEF EventsOK
  <2>4. link = "up" => state \in Linked
    BY <2>1 DEF Quiet, LinkOK
  <2>5. QED
    BY <2>1, <2>2, <2>3, <2>4 DEF LinkOK, ClearOK
<1>10. CASE Notified
  <2>1. /\ air # <<>> /\ air' = Tail(air)
        /\ live = 0 => text' = text
        /\ UNCHANGED <<state, events, watching, link, services, live, notifying>>
    BY <1>10 DEF Notified, calls
  <2>2. notifying
    BY <2>1 DEF LinkOK
  <2>3. QED
    BY <2>1, <2>2 DEF EventsOK, LinkOK, ClearOK, Clearing
<1>11. CASE UNCHANGED vars \/ TakeImage \/ Tick \/ SendImageChunck \/ HandleCameraData
  BY <1>2, <1>11 DEF LinkOK, vars, TakeImage, Tick, SendImageChunck, HandleCameraData, appVars
<1>12. CASE Transmit
  <2>1. /\ UNCHANGED <<state, events, watching, link, services, live, text, notifying>>
        /\ ~notifying => air' = air
    BY <1>12 DEF Transmit, calls
  <2>2. QED
    BY <1>2, <2>1 DEF LinkOK
<1>13. QED
  BY <1>1, <1>4, <1>5, <1>6, <1>7, <1>8, <1>9, <1>10, <1>11, <1>12 DEF Next, AppNext, Device

-----------------------------------------------------------------------------
(* The stream of an image: parts *)

(* Parts are of images that were taken, and each goes on where the one     *)
(* before it ended, the camera after the last one.                         *)
PartsInv ==
  \A i \in DOMAIN evq :
    /\ PartOK(evq[i])
    /\ PartAfter(evq[i]) = IF i = Len(evq) THEN CameraBefore ELSE PartBefore(evq[i + 1])

(* The sizes of the images taken stay. *)
LEMMA TakenStays ==
  ASSUME TypeOK, TakeImage
  PROVE  /\ ~reading /\ taken' \in Seq(Sizes)
         /\ \A k \in DOMAIN taken : k \in DOMAIN taken' /\ taken'[k] = taken[k]
         /\ reading' => left' = Last(taken')
<1>1. taken \in Seq(Sizes) /\ reading = (left # 0)
  BY DEF TypeOK
<1>2. ~reading
  BY DEF TakeImage
<1>3. CASE UNCHANGED <<taken, left, reading>>
  BY <1>1, <1>2, <1>3
<1>4. ASSUME NEW size \in Sizes, taken' = Append(taken, size), left' = size
      PROVE  /\ taken' \in Seq(Sizes)
             /\ \A k \in DOMAIN taken : k \in DOMAIN taken' /\ taken'[k] = taken[k]
             /\ left' = Last(taken')
  <2>1. /\ taken' \in Seq(Sizes) /\ taken'[Len(taken')] = size
        /\ \A k \in DOMAIN taken : k \in DOMAIN taken' /\ taken'[k] = taken[k]
    BY <1>1, <1>4
  <2>2. QED
    BY <1>4, <2>1 DEF Last
<1>5. QED
  BY <1>2, <1>3, <1>4 DEF TakeImage

LEMMA PartsInit == Init => PartsInv
<1>1. Init => DOMAIN evq = {}
  BY DEF Init
<1>2. QED
  BY <1>1 DEF PartsInv

LEMMA PartsStep == TypeOK /\ QueuesOK /\ PartsInv /\ [Next]_vars => PartsInv'
<1> SUFFICES ASSUME TypeOK, QueuesOK, PartsInv, [Next]_vars PROVE PartsInv'
  OBVIOUS
<1>0. evq \in Seq(PartSet) /\ Len(evq) \in Nat /\ DOMAIN evq = 1 .. Len(evq)
  BY DEF QueuesOK
<1>1. CASE UNCHANGED <<taken, left, reading, evq>>
  BY <1>1 DEF PartsInv, PartOK, PartBefore, PartAfter, CameraBefore
<1>2. CASE TakeImage
  <2>1. /\ evq' = evq /\ ~reading /\ (reading' => left' = Last(taken'))
        /\ \A k \in DOMAIN taken : k \in DOMAIN taken' /\ taken'[k] = taken[k]
    BY <1>2, TakenStays DEF TakeImage
  <2>2. CameraBefore' = Zero /\ CameraBefore = Zero
    BY <2>1 DEF CameraBefore
  <2>3. \A i \in DOMAIN evq : PartOK(evq[i])'
    BY <2>1 DEF PartsInv, PartOK
  <2>4. \A i \in DOMAIN evq : PartAfter(evq[i]) = IF i = Len(evq) THEN Zero ELSE PartBefore(evq[i + 1])
    BY <2>2 DEF PartsInv
  <2>5. QED
    BY <2>1, <2>2, <2>3, <2>4 DEF PartsInv, PartBefore, PartAfter
<1>3. CASE SendImageChunck
  <2>1. taken' = taken
    BY <1>3 DEF SendImageChunck
  <2>2. PICK p : /\ evq' = Append(evq, p) /\ PartOK(p)
                 /\ PartBefore(p) = CameraBefore /\ PartAfter(p) = CameraBefore'
    BY <1>3, PartSent
  <2> DEFINE n == Len(evq)
  <2>3. PICK r : r = evq'
    OBVIOUS
  <2>4. /\ Len(r) = n + 1 /\ DOMAIN r = 1 .. n + 1 /\ r[n + 1] = p
        /\ \A i \in 1 .. n : r[i] = evq[i]
    BY <1>0, <2>2, <2>3
  <2>5. n \in Nat /\ \A i \in 1 .. n :
          PartOK(evq[i]) /\ PartAfter(evq[i]) = IF i = n THEN CameraBefore ELSE PartBefore(evq[i + 1])
    BY <1>0 DEF PartsInv
  <2> HIDE DEF n
  <2>6. /\ \A i \in 1 .. n + 1 : i \in 1 .. n \/ i = n + 1
        /\ \A i \in 1 .. n : i # n + 1 /\ (i = n \/ i + 1 \in 1 .. n)
    BY <2>5
  <2>7. \A i \in 1 .. n : PartAfter(r[i]) = PartBefore(r[i + 1])
    BY <2>2, <2>4, <2>5, <2>6
  <2>8. \A i \in 1 .. n + 1 : PartOK(r[i])
    BY <2>2, <2>4, <2>5, <2>6
  <2>9. \A i \in 1 .. n + 1 :
          PartAfter(r[i]) = IF i = n + 1 THEN CameraBefore' ELSE PartBefore(r[i + 1])
    BY <2>2, <2>4, <2>6, <2>7
  <2>10. \A i \in DOMAIN r :
           /\ PartOK(r[i])
           /\ PartAfter(r[i]) = IF i = Len(r) THEN CameraBefore' ELSE PartBefore(r[i + 1])
    BY <2>4, <2>8, <2>9
  <2>11. QED
    BY <2>1, <2>3, <2>10 DEF PartsInv, PartOK, PartBefore, PartAfter
<1>4. CASE HandleCameraData
  <2>1. evq # <<>> /\ evq' = Tail(evq) /\ UNCHANGED <<taken, left, reading>>
    BY <1>4 DEF HandleCameraData
  <2>2. /\ Len(evq') = Len(evq) - 1 /\ DOMAIN evq' = 1 .. Len(evq) - 1
        /\ \A i \in 1 .. Len(evq) - 1 : evq'[i] = evq[i + 1]
    BY <1>0, <2>1
  <2>3. \A i \in 1 .. Len(evq) - 1 : /\ i + 1 \in DOMAIN evq
                                     /\ i + 1 = Len(evq) <=> i = Len(evq) - 1
                                     /\ i # Len(evq) - 1 => i + 1 \in 1 .. Len(evq) - 1
    <3>1. \A n \in Nat : \A i \in 1 .. n - 1 : /\ i + 1 \in 1 .. n
                                             /\ i + 1 = n <=> i = n - 1
                                             /\ i # n - 1 => i + 1 \in 1 .. n - 1
      OBVIOUS
    <3> DEFINE n == Len(evq)
    <3>2. n \in Nat /\ DOMAIN evq = 1 .. n
      BY <1>0
    <3> HIDE DEF n
    <3>3. \A i \in 1 .. n - 1 : /\ i + 1 \in DOMAIN evq
                               /\ i + 1 = n <=> i = n - 1
                               /\ i # n - 1 => i + 1 \in 1 .. n - 1
      BY <3>1, <3>2
    <3>4. QED
      BY <3>3 DEF n
  <2>4. ASSUME NEW i \in DOMAIN evq'
        PROVE  /\ PartOK(evq'[i])
               /\ PartAfter(evq'[i]) = IF i = Len(evq') THEN CameraBefore
                                                        ELSE PartBefore(evq'[i + 1])
    <3>1. /\ PartOK(evq[i + 1])
          /\ PartAfter(evq[i + 1]) = IF i + 1 = Len(evq) THEN CameraBefore
                                                         ELSE PartBefore(evq[i + 1 + 1])
      BY <2>2, <2>3 DEF PartsInv
    <3>2. QED
      BY <2>2, <2>3, <3>1
  <2>5. QED
    BY <2>1, <2>4 DEF PartsInv, PartOK, PartBefore, PartAfter, CameraBefore
<1>5. CASE AppNext /\ UNCHANGED devVars
  BY <1>1, <1>5 DEF devVars
<1>6. CASE UNCHANGED vars \/ Tick \/ Transmit
  BY <1>1, <1>6 DEF vars, devVars, Tick, Transmit
<1>7. QED
  BY <1>2, <1>3, <1>4, <1>5, <1>6 DEF Next, Device

-----------------------------------------------------------------------------
(* The stream of an image: notifications *)

(* Of an image that was taken. *)
Genuine(a) ==
  \/ a = Zero
  \/ \E k \in DOMAIN taken : \/ a = Header(k, taken[k])
                             \/ \E i \in 1 .. taken[k] : a = Byte(k, i)

(* b comes right after a. *)
Goes(a, b) ==
  \/ a.kind = "header" /\ b = Byte(a.image, 1)
  \/ a.kind = "byte" /\ b = IF a.num = taken[a.image] THEN Zero ELSE Byte(a.image, a.num + 1)
  \/ a.kind = "zero" /\ b.kind = "header"

(* Notifications without a gap, up to the last one. *)
Streams(q, last) ==
  \A i \in DOMAIN q : /\ Genuine(q[i])
                      /\ IF i = Len(q) THEN q[i] = last ELSE Goes(q[i], q[i + 1])

(* What is sent and not received, and what the first of the parts goes on from. *)
Wire == air \o ble
QueueBefore == IF evq = <<>> THEN CameraBefore ELSE PartBefore(Head(evq))

WireInv == Streams(Wire, QueueBefore)

(* A stream that another one goes on from. *)
LEMMA StreamConcat ==
  ASSUME NEW T, NEW q \in Seq(T), NEW r \in Seq(T), NEW e, NEW d, r # <<>>,
         Streams(q, e), Streams(r, d), Goes(e, r[1])
  PROVE  Streams(q \o r, d) /\ q \o r \in Seq(T) /\ q \o r # <<>>
<1> DEFINE s == q \o r
           n == Len(q)
           m == Len(r)
<1>1. /\ n \in Nat /\ m \in Nat \ {0} /\ s \in Seq(T) /\ Len(s) = n + m /\ DOMAIN s = 1 .. n + m
      /\ \A i \in 1 .. n : s[i] = q[i]
      /\ \A i \in 1 .. m : s[n + i] = r[i]
  OBVIOUS
<1>2. /\ \A i \in 1 .. n : Genuine(q[i]) /\ IF i = n THEN q[i] = e ELSE Goes(q[i], q[i + 1])
      /\ \A i \in 1 .. m : Genuine(r[i]) /\ IF i = m THEN r[i] = d ELSE Goes(r[i], r[i + 1])
  BY DEF Streams
<1> HIDE DEF s, n, m
<1>3. SUFFICES ASSUME NEW i \in 1 .. n + m
               PROVE  Genuine(s[i]) /\ IF i = n + m THEN s[i] = d ELSE Goes(s[i], s[i + 1])
  <2>1. s # <<>>
    BY <1>1
  <2>2. QED
    BY <1>1, <2>1 DEF Streams, s
<1>4. CASE i \in 1 .. n
  <2>1. s[i] = q[i] /\ i # n + m
    BY <1>1, <1>4
  <2>2. CASE i = n
    <3>1. s[n + 1] = r[1] /\ 1 \in 1 .. m
      BY <1>1
    <3>2. QED
      BY <1>2, <1>4, <2>1, <2>2, <3>1
  <2>3. CASE i # n
    <3>1. i + 1 \in 1 .. n
      BY <1>1, <1>4, <2>3
    <3>2. QED
      BY <1>1, <1>2, <1>4, <2>1, <2>3, <3>1
  <2>4. QED
    BY <2>2, <2>3
<1>5. CASE i \notin 1 .. n
  <2>1. PICK j \in 1 .. m : i = n + j /\ (i = n + m <=> j = m) /\ (j # m => j + 1 \in 1 .. m)
    <3>1. i - n \in 1 .. m /\ i = n + (i - n) /\ (i = n + m <=> i - n = m)
          /\ (i - n # m => (i - n) + 1 \in 1 .. m)
      BY <1>1, <1>5
    <3>2. QED
      BY <3>1
  <2>2. s[i] = r[j]
    BY <1>1, <2>1
  <2>3. CASE j = m
    BY <1>2, <2>1, <2>2, <2>3
  <2>4. CASE j # m
    <3>1. s[n + (j + 1)] = r[j + 1] /\ i + 1 = n + (j + 1)
      BY <1>1, <2>1, <2>4
    <3>2. QED
      BY <1>2, <2>1, <2>2, <2>4, <3>1
  <2>5. QED
    BY <2>3, <2>4
<1>6. QED
  BY <1>4, <1>5

(* The end of a stream. *)
LEMMA StreamBehind ==
  ASSUME NEW T, NEW q \in Seq(T), NEW r \in Seq(T), NEW e, Streams(q \o r, e)
  PROVE  Streams(r, e)
<1> DEFINE s == q \o r
           n == Len(q)
           m == Len(r)
<1>1. /\ n \in Nat /\ m \in Nat /\ Len(s) = n + m /\ DOMAIN s = 1 .. n + m
      /\ \A i \in 1 .. m : s[n + i] = r[i]
      /\ DOMAIN r = 1 .. m
  OBVIOUS
<1>2. \A i \in 1 .. n + m : Genuine(s[i]) /\ IF i = n + m THEN s[i] = e ELSE Goes(s[i], s[i + 1])
  BY <1>1 DEF Streams
<1> HIDE DEF s, n, m
<1>3. SUFFICES ASSUME NEW i \in 1 .. m
               PROVE  Genuine(r[i]) /\ IF i = m THEN r[i] = e ELSE Goes(r[i], r[i + 1])
  BY <1>1 DEF Streams, m
<1>4. n + i \in 1 .. n + m /\ (n + i = n + m <=> i = m) /\ (i # m => i + 1 \in 1 .. m)
      /\ (n + i) + 1 = n + (i + 1)
  BY <1>1
<1>5. s[n + i] = r[i] /\ (i # m => s[(n + i) + 1] = r[i + 1])
  BY <1>1, <1>4
<1>6. QED
  BY <1>2, <1>4, <1>5

(* One notification. *)
LEMMA StreamOne ==
  ASSUME NEW e, Genuine(e)
  PROVE  Streams(<<e>>, e) /\ <<e>> # <<>> /\ <<e>>[1] = e
BY DEF Streams

(* The sizes of the images taken are numbers. *)
LEMMA TakenSizes ==
  ASSUME TypeOK, NEW k \in DOMAIN taken
  PROVE  taken[k] \in Nat
<1>1. taken \in Seq(Sizes) /\ Sizes \subseteq Nat
  BY ImageAssumption DEF TypeOK, ImageAssumption
<1>2. k \in 1 .. Len(taken)
  BY <1>1
<1>3. taken[k] \in Sizes
  BY <1>1, <1>2, ElementOfSeq
<1>4. QED
  BY <1>1, <1>3

(* The bytes of an image, from one to another. *)
LEMMA StreamRun ==
  ASSUME NEW k \in DOMAIN taken, taken[k] \in Nat, NEW i \in Nat \ {0}, NEW j \in Nat,
         i <= j, j <= taken[k]
  PROVE  Streams(Run(k, i, j), Byte(k, j))
<1> DEFINE r == Run(k, i, j)
           m == j - i + 1
<1>1. /\ Len(r) = m /\ DOMAIN r = 1 .. m
      /\ \A n \in 1 .. m : r[n] = Byte(k, i + n - 1)
  BY RunEnds
<1> HIDE DEF r
<1>2. SUFFICES ASSUME NEW n \in 1 .. m
               PROVE  Genuine(r[n]) /\ IF n = m THEN r[n] = Byte(k, j) ELSE Goes(r[n], r[n + 1])
  BY <1>1 DEF Streams, r
<1>3. /\ i + n - 1 \in 1 .. taken[k] /\ (n = m => i + n - 1 = j)
      /\ n # m => n + 1 \in 1 .. m /\ i + n - 1 # taken[k] /\ i + (n + 1) - 1 = (i + n - 1) + 1
  OBVIOUS
<1> HIDE DEF m
<1>4. Genuine(r[n])
  BY <1>1, <1>3 DEF Genuine
<1>5. CASE n = m
  BY <1>1, <1>3, <1>4, <1>5
<1>6. CASE n # m
  <2>1. r[n] = Byte(k, i + n - 1) /\ r[n + 1] = Byte(k, (i + n - 1) + 1)
    BY <1>1, <1>3, <1>6
  <2>2. QED
    BY <1>3, <1>4, <1>6, <2>1 DEF Goes, Byte
<1>7. QED
  BY <1>5, <1>6

(* What goes over the air for a part, behind what comes before it. *)
Announced(p) == IF p.isFirst THEN <<Header(p.image, p.size)>> ELSE <<>>
Concluded(p) == IF p.isLast THEN <<Zero>> ELSE <<>>

LEMMA PartStream ==
  ASSUME TypeOK, NEW p \in PartSet, PartOK(p), NEW q \in Seq(Notes), Streams(q, PartBefore(p))
  PROVE  LET s == ((q \o Announced(p)) \o p.bytes) \o Concluded(p) IN
         /\ Streams(s, PartAfter(p)) /\ s \in Seq(Notes) /\ s # <<>>
         /\ q = <<>> => Goes(PartBefore(p), s[1])
<1> DEFINE k == p.image
           e == IF p.isFirst THEN Header(k, p.size) ELSE PartBefore(p)
           s1 == q \o Announced(p)
           s2 == s1 \o p.bytes
           s3 == s2 \o Concluded(p)
<1>1. /\ k \in DOMAIN taken /\ p.size = taken[k] /\ taken[k] \in Nat
      /\ From(p) \in Nat \ {0} /\ To(p) \in Nat /\ From(p) <= To(p) /\ To(p) <= p.size
      /\ p.bytes = Run(k, From(p), To(p))
      /\ p.isFirst = (From(p) = 1) /\ p.isLast = (To(p) = p.size)
  <2>1. k \in DOMAIN taken
    BY DEF PartOK
  <2>2. taken[k] \in Nat
    BY <2>1, TakenSizes
  <2>3. QED
    BY <2>1, <2>2 DEF PartOK
<1>2. /\ p.bytes \in Seq(Notes) /\ p.bytes # <<>> /\ p.bytes[1] = Byte(k, From(p))
      /\ Streams(p.bytes, Byte(k, To(p)))
  <2>1. p.bytes \in Seq(ByteSet) /\ ByteSet \subseteq Notes
    BY DEF PartSet, Notes
  <2>2. p.bytes \in Seq(Notes)
    BY <2>1
  <2>3. Streams(Run(k, From(p), To(p)), Byte(k, To(p)))
    BY <1>1, StreamRun
  <2>4. Run(k, From(p), To(p)) # <<>> /\ Run(k, From(p), To(p))[1] = Byte(k, From(p))
    BY <1>1, RunEnds
  <2>5. QED
    BY <1>1, <2>2, <2>3, <2>4
<1>3. Header(k, p.size) \in Notes /\ Zero \in Notes
  <2>1. k \in 0 .. MaxImages /\ p.size \in Nat
    BY DEF PartSet
  <2>2. QED
    BY <2>1 DEF Notes
<1> HIDE DEF k
<1>4. /\ Streams(s1, e) /\ s1 \in Seq(Notes) /\ Goes(e, p.bytes[1])
      /\ q = <<>> /\ s1 # <<>> => Goes(PartBefore(p), s1[1])
      /\ q = <<>> /\ s1 = <<>> => e = PartBefore(p)
  <2>1. CASE p.isFirst
    <3>1. Genuine(e) /\ Goes(PartBefore(p), e) /\ e = Header(k, p.size)
      BY <1>1, <2>1 DEF Genuine, Goes, PartBefore, Header, Zero, k
    <3>2. Goes(e, p.bytes[1])
      BY <1>1, <1>2, <2>1, <3>1 DEF Goes, Header
    <3>3. Announced(p) = <<e>> /\ Announced(p) \in Seq(Notes)
      BY <1>3, <2>1 DEF Announced, k
    <3>4. Streams(<<e>>, e) /\ <<e>> # <<>> /\ <<e>>[1] = e
      BY <3>1, StreamOne
    <3> HIDE DEF e
    <3>5. Streams(q \o <<e>>, e) /\ q \o <<e>> \in Seq(Notes) /\ q \o <<e>> # <<>>
      BY <3>1, <3>3, <3>4, StreamConcat
    <3>6. q = <<>> => s1 = <<e>>
      BY <3>3
    <3>7. QED
      BY <3>1, <3>2, <3>3, <3>4, <3>5, <3>6
  <2>2. CASE ~p.isFirst
    <3>1. Announced(p) = <<>> /\ s1 = q
      BY <2>2 DEF Announced
    <3>2. e = Byte(k, From(p) - 1) /\ e = PartBefore(p)
      BY <2>2 DEF PartBefore, k
    <3>3. From(p) - 1 # taken[k] /\ (From(p) - 1) + 1 = From(p)
      BY <1>1
    <3>4. Goes(e, p.bytes[1])
      BY <1>2, <3>2, <3>3 DEF Goes, Byte
    <3>5. QED
      BY <3>1, <3>2, <3>4
  <2>3. QED
    BY <2>1, <2>2
<1> HIDE DEF e, s1
<1>5. /\ Streams(s2, Byte(k, To(p))) /\ s2 \in Seq(Notes) /\ s2 # <<>>
      /\ q = <<>> => Goes(PartBefore(p), s2[1])
  <2>1. Streams(s2, Byte(k, To(p))) /\ s2 \in Seq(Notes) /\ s2 # <<>>
    BY <1>2, <1>4, StreamConcat
  <2>2. CASE s1 = <<>>
    <3>1. s2 = p.bytes
      BY <1>2, <2>2
    <3>2. QED
      BY <1>4, <2>1, <2>2, <3>1
  <2>3. CASE s1 # <<>>
    <3>1. s2[1] = s1[1]
      BY <1>2, <1>4, <2>3
    <3>2. QED
      BY <1>4, <2>1, <2>3, <3>1
  <2>4. QED
    BY <2>2, <2>3
<1> HIDE DEF s2
<1>6. /\ Streams(s3, PartAfter(p)) /\ s3 \in Seq(Notes) /\ s3 # <<>>
      /\ s3[1] = s2[1]
  <2>1. CASE p.isLast
    <3>1. Concluded(p) = <<Zero>> /\ PartAfter(p) = Zero /\ <<Zero>> \in Seq(Notes)
      BY <1>3, <2>1 DEF Concluded, PartAfter
    <3>2. Genuine(Zero) /\ Goes(Byte(k, To(p)), Zero)
      BY <1>1, <2>1 DEF Genuine, Goes, Byte
    <3>3. Streams(<<Zero>>, Zero) /\ <<Zero>> # <<>> /\ <<Zero>>[1] = Zero
      BY <3>2, StreamOne
    <3>4. Streams(s2 \o <<Zero>>, Zero) /\ s2 \o <<Zero>> \in Seq(Notes) /\ s2 \o <<Zero>> # <<>>
      BY <1>5, <3>1, <3>2, <3>3, StreamConcat
    <3>5. (s2 \o <<Zero>>)[1] = s2[1]
      BY <1>5, <3>1
    <3>6. QED
      BY <3>1, <3>4, <3>5
  <2>2. CASE ~p.isLast
    <3>1. Concluded(p) = <<>> /\ PartAfter(p) = Byte(k, To(p)) /\ s3 = s2
      BY <1>5, <2>2 DEF Concluded, PartAfter, k
    <3>2. QED
      BY <1>5, <3>1
  <2>3. QED
    BY <2>1, <2>2
<1>7. QED
  BY <1>5, <1>6 DEF s1, s2

LEMMA WireInit == Init => WireInv
<1> SUFFICES ASSUME Init PROVE WireInv
  OBVIOUS
<1>1. air = <<>> /\ ble = <<>>
  BY DEF Init, AppInit
<1>2. DOMAIN Wire = {}
  BY <1>1 DEF Wire
<1>3. QED
  BY <1>2 DEF WireInv, Streams

(* What is on its way goes on from what it went on from. *)
LEMMA GenuineStays ==
  ASSUME TypeOK, TakeImage
  PROVE  \A a : Genuine(a) => /\ Genuine(a)'
                              /\ \A b : Goes(a, b) => Goes(a, b)'
<1> SUFFICES ASSUME NEW a, Genuine(a), NEW b
             PROVE  Genuine(a)' /\ (Goes(a, b) => Goes(a, b)')
  OBVIOUS
<1>1. \A k \in DOMAIN taken : k \in DOMAIN taken' /\ taken'[k] = taken[k]
  BY TakenStays
<1>2. CASE a = Zero
  BY <1>2 DEF Genuine, Goes, Zero
<1>3. CASE \E k \in DOMAIN taken : a = Header(k, taken[k])
  BY <1>1, <1>3 DEF Genuine, Goes, Header
<1>4. CASE \E k \in DOMAIN taken : \E i \in 1 .. taken[k] : a = Byte(k, i)
  BY <1>1, <1>4 DEF Genuine, Goes, Byte
<1>5. QED
  BY <1>2, <1>3, <1>4 DEF Genuine

(* The next part is as before, unless it is handled. *)
LEMMA QueueStays ==
  ASSUME TypeOK, QueuesOK, PartsInv, TakeImage \/ SendImageChunck
  PROVE  QueueBefore' = QueueBefore
<1>1. CASE TakeImage
  <2>1. evq' = evq /\ ~reading /\ (reading' => left' = Last(taken'))
    BY <1>1, TakenStays DEF TakeImage
  <2>2. CameraBefore' = Zero /\ CameraBefore = Zero
    BY <2>1 DEF CameraBefore
  <2>3. QED
    BY <2>1, <2>2 DEF QueueBefore, PartBefore
<1>2. CASE SendImageChunck
  <2>1. PICK p : evq' = Append(evq, p) /\ p \in PartSet /\ PartBefore(p) = CameraBefore
    BY <1>2, PartSent
  <2>2. evq' # <<>> /\ Head(evq') = IF evq = <<>> THEN p ELSE Head(evq)
    BY <2>1 DEF QueuesOK
  <2>3. QED
    BY <2>1, <2>2 DEF QueueBefore, PartBefore
<1>3. QED
  BY <1>1, <1>2

(* What is on its way, from a part that is handled on. *)
LEMMA HandledStream ==
  ASSUME TypeOK, QueuesOK, PartsInv, WireInv, HandleCameraData
  PROVE  /\ Streams(Wire', QueueBefore') /\ Wire' # <<>>
         /\ Wire = <<>> => Goes(QueueBefore, Wire'[1])
         /\ Wire # <<>> => Wire'[1] = Wire[1]
<1> DEFINE p == Head(evq)
           A == Announced(p)
           B == p.bytes
           C == Concluded(p)
<1>1. /\ evq # <<>> /\ evq' = Tail(evq) /\ UNCHANGED <<taken, left, reading, air>>
      /\ ble' = ((ble \o A) \o B) \o C
  BY DEF HandleCameraData, Announced, Concluded, appVars
<1>2. evq \in Seq(PartSet) /\ ble \in Seq(Notes) /\ air \in Seq(Notes)
  BY DEF QueuesOK
<1>3. 1 \in DOMAIN evq /\ p = evq[1] /\ p \in PartSet
      /\ (Len(evq) = 1 => evq' = <<>>) /\ (Len(evq) # 1 => evq' # <<>> /\ Head(evq') = evq[1 + 1])
  <2>1. 1 \in DOMAIN evq /\ p = evq[1] /\ p \in PartSet
    BY <1>1, <1>2
  <2>2. /\ evq' \in Seq(PartSet) /\ Len(evq') = Len(evq) - 1
        /\ \A i \in 1 .. Len(evq) - 1 : evq'[i] = evq[i + 1]
    BY <1>1, <1>2
  <2>3. CASE Len(evq) = 1
    BY <2>1, <2>2, <2>3
  <2>4. CASE Len(evq) # 1
    <3>1. Len(evq') # 0 /\ 1 \in 1 .. Len(evq) - 1
      BY <1>1, <1>2, <2>2, <2>4
    <3>2. evq' # <<>> /\ Head(evq') = evq'[1]
      BY <2>2, <3>1
    <3>3. QED
      BY <2>1, <2>2, <2>4, <3>1, <3>2
  <2>5. QED
    BY <2>3, <2>4
<1>4. PartOK(p) /\ QueueBefore = PartBefore(p)
  BY <1>1, <1>3 DEF PartsInv, QueueBefore
<1>5. QueueBefore' = PartAfter(p)
  <2>1. PartAfter(p) = IF Len(evq) = 1 THEN CameraBefore ELSE PartBefore(evq[1 + 1])
    BY <1>3 DEF PartsInv
  <2>2. CameraBefore' = CameraBefore
    BY <1>1 DEF CameraBefore
  <2>3. QED
    BY <1>1, <1>3, <2>1, <2>2 DEF QueueBefore, PartBefore
<1> HIDE DEF p
<1>6. A \in Seq(Notes) /\ B \in Seq(Notes) /\ C \in Seq(Notes)
  <2>1. Header(p.image, p.size) \in Notes /\ Zero \in Notes /\ B \in Seq(ByteSet)
        /\ ByteSet \subseteq Notes
    <3>1. p.image \in 0 .. MaxImages /\ p.size \in Nat /\ B \in Seq(ByteSet)
      BY <1>3 DEF PartSet
    <3>2. QED
      BY <3>1 DEF Notes
  <2>2. B \in Seq(Notes)
    BY <2>1
  <2>3. QED
    BY <2>1, <2>2 DEF Announced, Concluded
<1> HIDE DEF A, B, C
<1>7. Wire' = ((Wire \o A) \o B) \o C /\ Wire \in Seq(Notes)
  <2>1. ble \o A \in Seq(Notes) /\ (ble \o A) \o B \in Seq(Notes) /\ air \o ble \in Seq(Notes)
    BY <1>2, <1>6
  <2>2. \A x, y, z \in Seq(Notes) : (x \o y) \o z = x \o (y \o z)
    BY ConcatAssociative
  <2>3. air \o (ble \o A) = (air \o ble) \o A
    BY <1>2, <1>6, <2>2, Zenon
  <2>4. air \o ((ble \o A) \o B) = (air \o (ble \o A)) \o B
    BY <1>2, <1>6, <2>1, <2>2, Zenon
  <2>5. air \o (((ble \o A) \o B) \o C) = (air \o ((ble \o A) \o B)) \o C
    BY <1>2, <1>6, <2>1, <2>2, Zenon
  <2>6. QED
    BY <1>1, <2>1, <2>3, <2>4, <2>5, Zenon DEF Wire
<1>8. Streams(Wire, PartBefore(p))
  BY <1>4 DEF WireInv
<1> DEFINE s == ((Wire \o A) \o B) \o C
<1>9. /\ Streams(s, PartAfter(p)) /\ s # <<>>
      /\ Wire = <<>> => Goes(PartBefore(p), s[1])
  BY <1>3, <1>4, <1>7, <1>8, PartStream DEF A, B, C
<1>10. Wire # <<>> => s[1] = Wire[1]
  BY <1>6, <1>7
<1>11. Wire' = s
  BY <1>7
<1> HIDE DEF s
<1>12. QED
  BY <1>4, <1>5, <1>9, <1>10, <1>11

(* The next notification is sent, or left out where nobody asked for it. *)
LEMMA TransmitCases ==
  ASSUME TypeOK, QueuesOK, ConnInv, Transmit
  PROVE  /\ UNCHANGED <<taken, notifying, live, text, images>> /\ QueueBefore' = QueueBefore
         /\ notifying => Wire' = Wire
         /\ ~notifying => Wire # <<>> /\ Wire' = Tail(Wire)
<1>1. /\ ble # <<>> /\ ble' = Tail(ble)
      /\ IF link \in {"up", "closing"} /\ notifying THEN air' = Append(air, Head(ble)) ELSE air' = air
      /\ UNCHANGED <<taken, left, reading, evq, notifying, live, text, images>>
  BY DEF Transmit, calls
<1>2. QueueBefore' = QueueBefore
  BY <1>1 DEF QueueBefore, CameraBefore, PartBefore
<1>3. (notifying => link \in {"up", "closing"}) /\ (~notifying => air = <<>>)
  BY DEF ConnInv, LinkOK
<1>4. air \in Seq(Notes) /\ ble \in Seq(Notes)
  BY DEF QueuesOK
<1>5. CASE notifying
  <2>1. Append(air, Head(ble)) \o Tail(ble) = air \o ble
    <3>1. Head(ble) \in Notes /\ ble = <<Head(ble)>> \o Tail(ble) /\ Tail(ble) \in Seq(Notes)
      BY <1>1, <1>4
    <3>2. Append(air, Head(ble)) = air \o <<Head(ble)>> /\ <<Head(ble)>> \in Seq(Notes)
      BY <1>4, <3>1
    <3>3. \A x, y, z \in Seq(Notes) : (x \o y) \o z = x \o (y \o z)
      BY ConcatAssociative
    <3>4. (air \o <<Head(ble)>>) \o Tail(ble) = air \o (<<Head(ble)>> \o Tail(ble))
      BY <1>4, <3>1, <3>2, <3>3
    <3>5. QED
      BY <3>1, <3>2, <3>4
  <2>2. QED
    BY <1>1, <1>2, <1>3, <1>5, <2>1 DEF Wire
<1>6. CASE ~notifying
  <2>1. air' = <<>> /\ air = <<>>
    BY <1>1, <1>3, <1>6
  <2>2. Wire = ble /\ Wire' = Tail(ble)
    BY <1>1, <1>4, <2>1 DEF Wire
  <2>3. QED
    BY <1>1, <1>2, <1>6, <2>2
<1>7. QED
  BY <1>5, <1>6

(* A stream without its first notification. *)
LEMMA StreamTail ==
  ASSUME NEW q \in Seq(Notes), q # <<>>, NEW e, Streams(q, e)
  PROVE  Streams(Tail(q), e) /\ Tail(q) \in Seq(Notes)
         /\ Genuine(q[1]) /\ IF Tail(q) = <<>> THEN q[1] = e ELSE Goes(q[1], Tail(q)[1])
<1> DEFINE r == Tail(q)
<1>1. q = <<Head(q)>> \o r /\ <<Head(q)>> \in Seq(Notes)
  OBVIOUS
<1>2. /\ r \in Seq(Notes) /\ Len(r) = Len(q) - 1 /\ Len(q) \in Nat \ {0}
      /\ \A i \in 1 .. Len(r) : r[i] = q[i + 1]
  BY HeadTailProperties
<1>3. 1 \in DOMAIN q
  OBVIOUS
<1> HIDE DEF r
<1>4. Streams(r, e)
  BY <1>1, <1>2, StreamBehind
<1>5. r = <<>> <=> Len(r) = 0
  BY <1>2
<1>6. (1 = Len(q) <=> r = <<>>) /\ (r # <<>> => r[1] = q[1 + 1])
  BY <1>2, <1>5
<1>7. Genuine(q[1]) /\ IF 1 = Len(q) THEN q[1] = e ELSE Goes(q[1], q[1 + 1])
  BY <1>3 DEF Streams
<1>8. Genuine(q[1]) /\ IF r = <<>> THEN q[1] = e ELSE Goes(q[1], r[1])
  BY <1>6, <1>7
<1>9. QED
  BY <1>2, <1>4, <1>8 DEF r

LEMMA WireStep ==
  TypeOK /\ QueuesOK /\ ConnInv /\ PartsInv /\ WireInv /\ [Next]_vars => WireInv'
<1> SUFFICES ASSUME TypeOK, QueuesOK, ConnInv, PartsInv, WireInv, [Next]_vars PROVE WireInv'
  OBVIOUS
<1>0. air \in Seq(Notes) /\ ble \in Seq(Notes) /\ Wire \in Seq(Notes)
  BY DEF QueuesOK, Wire
<1>1. CASE QueueBefore' = QueueBefore /\ taken' = taken /\ (Wire' = Wire \/ Streams(Wire', QueueBefore))
  <2>1. Streams(Wire', QueueBefore')
    BY <1>1 DEF WireInv
  <2>2. QED
    BY <1>1, <2>1 DEF WireInv, Streams, Genuine, Goes
<1>2. CASE UNCHANGED <<air, devVars>>
  BY <1>1, <1>2 DEF devVars, Wire, QueueBefore, CameraBefore, PartBefore
<1>3. CASE UNCHANGED devVars /\ air' = <<>>
  <2>1. QueueBefore' = QueueBefore /\ taken' = taken
    BY <1>3 DEF devVars, QueueBefore, CameraBefore, PartBefore
  <2>2. Wire' = ble
    BY <1>0, <1>3 DEF Wire, devVars
  <2>3. Streams(ble, QueueBefore)
    BY <1>0, StreamBehind DEF WireInv, Wire
  <2>4. QED
    BY <1>1, <2>1, <2>2, <2>3
<1>4. CASE UNCHANGED devVars /\ air # <<>> /\ air' = Tail(air)
  <2>1. QueueBefore' = QueueBefore /\ taken' = taken
    BY <1>4 DEF devVars, QueueBefore, CameraBefore, PartBefore
  <2>2. Wire # <<>> /\ Wire' = Tail(Wire)
    BY <1>0, <1>4 DEF Wire, devVars
  <2>3. Streams(Wire', QueueBefore)
    BY <1>0, <2>2, StreamTail DEF WireInv
  <2>4. QED
    BY <1>1, <2>1, <2>3
<1>5. CASE AppNext /\ UNCHANGED devVars
  <2>1. air' \in {air, <<>>} \/ (air # <<>> /\ air' = Tail(air))
    BY <1>5, HandledCases DEF AppNext, Reinit, User, ScanEnds, Connect, Disconnect, Discovered,
                              Subscribe, Enabled, Notified, data
  <2>2. QED
    BY <1>2, <1>3, <1>4, <1>5, <2>1
<1>6. CASE UNCHANGED vars \/ Tick
  BY <1>1, <1>6 DEF vars, appVars, devVars, Tick, Wire, QueueBefore, CameraBefore, PartBefore
<1>7. CASE TakeImage
  <2>1. QueueBefore' = QueueBefore /\ Wire' = Wire
    BY <1>7, QueueStays DEF TakeImage, appVars, Wire
  <2>2. \A i \in DOMAIN Wire : /\ Genuine(Wire[i])'
                               /\ Goes(Wire[i], Wire[i + 1]) => Goes(Wire[i], Wire[i + 1])'
    <3>1. PICK q : q = Wire
      OBVIOUS
    <3>2. \A i \in DOMAIN q : /\ Genuine(q[i])'
                              /\ Goes(q[i], q[i + 1]) => Goes(q[i], q[i + 1])'
      BY <1>7, <3>1, GenuineStays DEF WireInv, Streams
    <3>3. QED
      BY <2>1, <3>1, <3>2 DEF Genuine, Goes
  <2>3. QED
    BY <2>1, <2>2 DEF WireInv, Streams
<1>8. CASE SendImageChunck
  <2>1. QueueBefore' = QueueBefore /\ Wire' = Wire /\ taken' = taken
    BY <1>8, QueueStays DEF SendImageChunck, appVars, Wire
  <2>2. QED
    BY <1>1, <2>1
<1>9. CASE HandleCameraData
  <2>1. Streams(Wire', QueueBefore') /\ taken' = taken
    BY <1>9, HandledStream DEF HandleCameraData
  <2>2. QED
    BY <2>1 DEF WireInv, Streams, Genuine, Goes
<1>10. CASE Transmit
  <2>1. QueueBefore' = QueueBefore /\ taken' = taken /\ (Wire' = Wire \/ (Wire # <<>> /\ Wire' = Tail(Wire)))
    BY <1>10, TransmitCases
  <2>2. CASE Wire # <<>> /\ Wire' = Tail(Wire)
    <3>1. Streams(Wire', QueueBefore)
      BY <1>0, <2>2, StreamTail DEF WireInv
    <3>2. QED
      BY <1>1, <2>1, <3>1
  <2>3. QED
    BY <1>1, <2>1, <2>2
<1>11. QED
  BY <1>5, <1>6, <1>7, <1>8, <1>9, <1>10 DEF Next, Device

-----------------------------------------------------------------------------
(* What the app has collected *)

(* The place of a notification in its image: the header's is before all. *)
Place(a) == IF a.kind = "header" THEN 0 ELSE a.num

(***************************************************************************)
(* What is collected is of one image, headers come before its bytes, and   *)
(* the places grow by one at most: a subscription too many repeats some,   *)
(* none is left out.                                                       *)
(***************************************************************************)
Collects(t) ==
  /\ t \in Seq(Notes)
  /\ \A i \in DOMAIN t : Genuine(t[i]) /\ t[i] # Zero
  /\ \A i, j \in DOMAIN t :
       i <= j => /\ t[i].image = t[j].image
                 /\ Place(t[j]) <= Place(t[i]) + (j - i)
                 /\ t[j].kind = "header" => t[i].kind = "header"

(* What is on its way to an app that listens goes on from what it has. *)
Attached ==
  notifying /\ live > 0 /\ text # <<>> =>
    IF Wire = <<>> THEN Last(text) = QueueBefore ELSE Goes(Last(text), Wire[1])

TextInv == Collects(text) /\ Attached

(* Notifications but the zero byte. *)
LEMMA GenuineParts ==
  ASSUME TypeOK, NEW a, Genuine(a), a # Zero
  PROVE  /\ a.image \in DOMAIN taken /\ Place(a) \in Nat /\ Place(a) <= taken[a.image]
         /\ \/ a.kind = "header" /\ a = Header(a.image, taken[a.image])
            \/ a.kind = "byte" /\ a = Byte(a.image, Place(a)) /\ Place(a) = a.num /\ a.num # 0
<1>1. CASE \E k \in DOMAIN taken : a = Header(k, taken[k])
  <2>1. PICK k \in DOMAIN taken : a = Header(k, taken[k])
    BY <1>1
  <2>2. taken[k] \in Nat
    BY TakenSizes
  <2>3. QED
    BY <2>1, <2>2 DEF Header, Place
<1>2. CASE \E k \in DOMAIN taken : \E i \in 1 .. taken[k] : a = Byte(k, i)
  <2>1. PICK k \in DOMAIN taken : \E i \in 1 .. taken[k] : a = Byte(k, i)
    BY <1>2
  <2>2. taken[k] \in Nat
    BY TakenSizes
  <2>3. PICK i \in 1 .. taken[k] : a = Byte(k, i)
    BY <2>1
  <2>4. QED
    BY <2>1, <2>2, <2>3 DEF Byte, Place
<1>3. QED
  BY <1>1, <1>2 DEF Genuine

(* A notification that each of some subscriptions adds. *)
LEMMA CollectsMore ==
  ASSUME TypeOK, NEW t, Collects(t), NEW n \in Nat \ {0}, NEW a \in Notes, Genuine(a), a # Zero,
         t # <<>> => Goes(Last(t), a)
  PROVE  LET r == t \o [i \in 1 .. n |-> a] IN Collects(r) /\ r # <<>> /\ Last(r) = a
<1> DEFINE m == Len(t)
           c == [i \in 1 .. n |-> a]
           r == t \o c
<1>1. /\ m \in Nat /\ r \in Seq(Notes) /\ Len(r) = m + n /\ DOMAIN r = 1 .. m + n
      /\ t \in Seq(Notes) /\ DOMAIN t = 1 .. m
      /\ \A i \in 1 .. m : r[i] = t[i]
      /\ \A i \in (1 .. m + n) \ (1 .. m) : r[i] = a
  <2>1. t \in Seq(Notes) /\ m \in Nat /\ DOMAIN t = 1 .. m
    BY DEF Collects
  <2>2. c \in Seq(Notes) /\ Len(c) = n /\ \A i \in 1 .. n : c[i] = a
    OBVIOUS
  <2> HIDE DEF c
  <2>3. /\ r \in Seq(Notes) /\ Len(r) = m + n
        /\ \A i \in 1 .. m + n : r[i] = IF i <= m THEN t[i] ELSE c[i - m]
    BY <2>1, <2>2, ConcatProperties
  <2> HIDE DEF r, m
  <2>4. \A i \in (1 .. m + n) \ (1 .. m) : ~(i <= m) /\ i - m \in 1 .. n
    BY <2>1
  <2>5. \A i \in 1 .. m : i \in 1 .. m + n /\ i <= m
    BY <2>1
  <2>6. DOMAIN r = 1 .. m + n
    BY <2>1, <2>3
  <2>7. QED
    BY <2>1, <2>2, <2>3, <2>4, <2>5, <2>6
<1> HIDE DEF r, c
<1>2. Last(t) = t[m]
  BY DEF Last
<1> HIDE DEF m
<1>3. /\ \A i \in 1 .. m : Genuine(t[i]) /\ t[i] # Zero /\ Place(t[i]) \in Nat
      /\ \A i, j \in 1 .. m :
           i <= j => /\ t[i].image = t[j].image
                     /\ Place(t[j]) <= Place(t[i]) + (j - i)
                     /\ t[j].kind = "header" => t[i].kind = "header"
  BY <1>1, GenuineParts DEF Collects
<1>4. t # <<>> => /\ a.image = t[m].image /\ Place(a) = Place(t[m]) + 1 /\ a.kind = "byte"
                  /\ m \in 1 .. m
  <2> SUFFICES ASSUME t # <<>>
               PROVE  /\ a.image = t[m].image /\ Place(a) = Place(t[m]) + 1 /\ a.kind = "byte"
                      /\ m \in 1 .. m
    OBVIOUS
  <2>1. m \in 1 .. m
    BY <1>1 DEF m
  <2>2. Goes(t[m], a) /\ Genuine(t[m]) /\ t[m] # Zero
    BY <1>2, <1>3, <2>1
  <2>3. t[m].kind \in {"header", "byte"} /\ (t[m].kind = "byte" => Place(t[m]) = t[m].num)
    BY <2>2, GenuineParts
  <2>4. a = IF t[m].kind = "header" THEN Byte(t[m].image, 1) ELSE Byte(t[m].image, t[m].num + 1)
    BY <2>2, <2>3 DEF Goes
  <2>5. QED
    BY <2>1, <2>3, <2>4 DEF Byte, Place
<1>5. Place(a) \in Nat
  BY GenuineParts
<1>6. \A i \in 1 .. m + n : Genuine(r[i]) /\ r[i] # Zero
  BY <1>1, <1>3
<1>7. ASSUME NEW i \in 1 .. m + n, NEW j \in 1 .. m + n, i <= j
      PROVE  /\ r[i].image = r[j].image
             /\ Place(r[j]) <= Place(r[i]) + (j - i)
             /\ r[j].kind = "header" => r[i].kind = "header"
  <2>1. CASE j \in 1 .. m
    <3>1. i \in 1 .. m
      BY <1>1, <1>7, <2>1
    <3>2. QED
      BY <1>1, <1>3, <1>7, <2>1, <3>1
  <2>2. CASE j \notin 1 .. m /\ i \notin 1 .. m
    <3>1. r[i] = a /\ r[j] = a
      BY <1>1, <2>2
    <3>2. QED
      BY <1>5, <1>7, <3>1
  <2>3. CASE j \notin 1 .. m /\ i \in 1 .. m
    <3>1. r[i] = t[i] /\ r[j] = a /\ t # <<>>
      BY <1>1, <2>3
    <3>2. t[i].image = t[m].image /\ Place(t[m]) <= Place(t[i]) + (m - i)
      <4>1. i <= m /\ m \in 1 .. m
        BY <1>1, <2>3
      <4>2. QED
        BY <1>3, <2>3, <4>1
    <3>3. Place(t[i]) \in Nat /\ Place(t[m]) \in Nat /\ m < j
      BY <1>1, <1>3, <1>4, <2>3, <3>1
    <3>4. Place(a) <= Place(t[i]) + (j - i)
      BY <1>1, <1>4, <3>1, <3>2, <3>3
    <3>5. QED
      BY <1>4, <3>1, <3>2, <3>4
  <2>4. QED
    BY <2>1, <2>2, <2>3
<1>8. Collects(r)
  BY <1>1, <1>6, <1>7 DEF Collects
<1>9. r # <<>> /\ Last(r) = a
  <2>1. m + n \in (1 .. m + n) \ (1 .. m)
    BY <1>1
  <2>2. r[m + n] = a /\ Len(r) = m + n
    BY <1>1, <2>1
  <2>3. QED
    BY <1>1, <2>1, <2>2 DEF Last
<1>10. QED
  BY <1>8, <1>9 DEF r, c

LEMMA TextInit == Init => TextInv
<1> SUFFICES ASSUME Init PROVE TextInv
  OBVIOUS
<1>1. text = <<>>
  BY DEF Init, AppInit
<1>2. QED
  BY <1>1 DEF TextInv, Collects, Attached

(* A notification is on its way only to an app that asked for it. *)
LEMMA NotifiedCases ==
  ASSUME TypeOK, QueuesOK, ConnInv, WireInv, TextInv, Notified, UNCHANGED devVars
  PROVE  /\ notifying /\ Wire # <<>> /\ Wire' = Tail(Wire) /\ Wire[1] = Head(air)
         /\ Head(air) \in Notes /\ Genuine(Head(air))
         /\ IF Wire' = <<>> THEN Head(air) = QueueBefore ELSE Goes(Head(air), Wire'[1])
         /\ live > 0 /\ text # <<>> => Goes(Last(text), Head(air))
         /\ QueueBefore' = QueueBefore /\ UNCHANGED <<taken, live, notifying>>
         /\ \/ live = 0 /\ UNCHANGED <<text, images>>
            \/ live > 0 /\ Head(air) = Zero /\ Process /\ text' = <<>>
            \/ /\ live > 0 /\ Head(air) # Zero
               /\ text' = text \o [i \in 1 .. live |-> Head(air)]
               /\ images' = images
<1>1. /\ air # <<>> /\ air' = Tail(air) /\ UNCHANGED <<live, notifying>>
      /\ IF live = 0
         THEN UNCHANGED <<text, images>>
         ELSE IF Head(air) = Zero
         THEN Process /\ text' = <<>>
         ELSE /\ text' = text \o [i \in 1 .. live |-> Head(air)]
              /\ UNCHANGED images
  BY DEF Notified, calls
<1>2. notifying
  BY <1>1 DEF ConnInv, LinkOK
<1>3. air \in Seq(Notes) /\ ble \in Seq(Notes) /\ live \in Nat
  BY DEF QueuesOK, TypeOK, AppTypeOK
<1>4. Wire \in Seq(Notes) /\ Wire # <<>> /\ Wire[1] = Head(air) /\ Head(air) \in Notes
  BY <1>1, <1>3 DEF Wire
<1>5. Tail(Wire) = Tail(air) \o ble
  BY <1>1, <1>3 DEF Wire
<1>6. Genuine(Wire[1]) /\ IF Tail(Wire) = <<>> THEN Wire[1] = QueueBefore ELSE Goes(Wire[1], Tail(Wire)[1])
  BY <1>4, StreamTail DEF WireInv
<1>7. live > 0 /\ text # <<>> => Goes(Last(text), Head(air))
  BY <1>2, <1>4 DEF TextInv, Attached
<1>8. live = 0 \/ live > 0
  BY <1>3
<1>9. Wire' = Tail(Wire) /\ QueueBefore' = QueueBefore /\ taken' = taken
  BY <1>1, <1>5 DEF Wire, devVars, QueueBefore, CameraBefore, PartBefore
<1>10. QED
  BY <1>1, <1>2, <1>4, <1>6, <1>7, <1>8, <1>9

(* The text of an app that may yet start to listen. *)
LEMMA NothingYet ==
  ASSUME ConnInv, Quiet, link = "up", live = 0 \/ ~notifying
  PROVE  text = <<>>
<1>1. ~Clearing
  BY DEF Quiet, Clearing
<1>2. QED
  BY <1>1 DEF ConnInv, ClearOK

LEMMA TextStep ==
  TypeOK /\ QueuesOK /\ ConnInv /\ PartsInv /\ WireInv /\ TextInv /\ [Next]_vars => TextInv'
<1> SUFFICES ASSUME TypeOK, QueuesOK, ConnInv, PartsInv, WireInv, TextInv, [Next]_vars
             PROVE  TextInv'
  OBVIOUS
<1>0. live \in Nat /\ enabling \in Nat /\ Wire \in Seq(Notes)
  BY DEF TypeOK, AppTypeOK, QueuesOK, Wire
<1>1. CASE text' = <<>>
  BY <1>1 DEF TextInv, Collects, Attached
<1>2. CASE /\ text' = text /\ taken' = taken
           /\ notifying' /\ live' > 0 /\ text # <<>> =>
                /\ notifying /\ live > 0 /\ Wire' = Wire /\ QueueBefore' = QueueBefore
  <2>1. Collects(text)'
    BY <1>2 DEF TextInv, Collects, Genuine
  <2>2. Attached'
    BY <1>2 DEF TextInv, Attached, Goes
  <2>3. QED
    BY <2>1, <2>2 DEF TextInv
<1>3. CASE UNCHANGED devVars /\ AppNext
  <2>0. UNCHANGED air => UNCHANGED <<taken, Wire, QueueBefore>>
    BY <1>3 DEF devVars, Wire, QueueBefore, CameraBefore, PartBefore
  <2>1. CASE HandleAppEvent
    <3>1. UNCHANGED <<notifying, air>>
      BY <2>1, HandledCases
    <3>2. text' = <<>> \/ (text' = text /\ (live' = live \/ Cancel))
      BY <2>1, HandledCases, EnterCases, ResetCases DEF Enter, Forget
    <3>3. Cancel => live' = live \/ live' = live - 1
      BY DEF Cancel
    <3>4. text' = text => (live' > 0 => live > 0) \/ text' = <<>>
      BY <1>0, <3>2, <3>3
    <3>5. QED
      BY <1>1, <1>2, <2>0, <3>1, <3>2, <3>4
  <2>2. CASE Reinit \/ User \/ ScanEnds \/ Connect \/ Discovered
    <3>1. UNCHANGED <<notifying, air, text, live>>
      BY <2>2 DEF Reinit, User, ScanEnds, Connect, Discovered, calls, data
    <3>2. QED
      BY <1>2, <2>0, <3>1
  <2>3. CASE Disconnect
    <3>1. ~notifying' /\ text' = text /\ taken' = taken
      BY <1>3, <2>3 DEF Disconnect, devVars
    <3>2. QED
      BY <1>2, <3>1
  <2>4. CASE Subscribe
    <3>1. Quiet /\ link = "up" /\ ~notifying /\ text' = text
      BY <2>4 DEF Subscribe
    <3>2. QED
      BY <1>1, <3>1, NothingYet
  <2>5. CASE Enabled
    <3>1. Quiet /\ link = "up" /\ notifying /\ UNCHANGED <<notifying, air, text>>
      BY <2>5 DEF Enabled, data
    <3>2. CASE live = 0
      BY <1>1, <3>1, <3>2, NothingYet
    <3>3. CASE live > 0
      BY <1>2, <2>0, <3>1, <3>3
    <3>4. QED
      BY <1>0, <3>2, <3>3
  <2>6. CASE Notified
    <3>1. /\ UNCHANGED <<taken, live, notifying>> /\ QueueBefore' = QueueBefore
          /\ Head(air) \in Notes /\ Genuine(Head(air))
          /\ IF Wire' = <<>> THEN Head(air) = QueueBefore ELSE Goes(Head(air), Wire'[1])
          /\ live > 0 /\ text # <<>> => Goes(Last(text), Head(air))
      BY <1>3, <2>6, NotifiedCases
    <3>2. CASE live = 0 /\ text' = text
      BY <1>2, <3>1, <3>2
    <3>3. CASE text' = <<>>
      BY <1>1, <3>3
    <3>4. CASE live > 0 /\ Head(air) # Zero /\ text' = text \o [i \in 1 .. live |-> Head(air)]
      <4>1. Collects(text') /\ text' # <<>> /\ Last(text') = Head(air)
        <5>1. live \in Nat \ {0} /\ (text # <<>> => Goes(Last(text), Head(air))) /\ Collects(text)
          BY <1>0, <3>1, <3>4 DEF TextInv
        <5> DEFINE a == Head(air)
        <5>2. a \in Notes /\ Genuine(a) /\ a # Zero
          BY <3>1, <3>4
        <5> HIDE DEF a
        <5>3. LET r == text \o [i \in 1 .. live |-> a]
              IN  Collects(r) /\ r # <<>> /\ Last(r) = a
          BY <5>1, <5>2, CollectsMore DEF a
        <5>4. QED
          BY <3>4, <5>3 DEF a
      <4>2. Collects(text)'
        BY <3>1, <4>1 DEF Collects, Genuine
      <4>3. Attached'
        BY <3>1, <4>1 DEF Attached, Goes
      <4>4. QED
        BY <4>2, <4>3 DEF TextInv
    <3>5. QED
      BY <1>3, <2>6, <3>2, <3>3, <3>4, NotifiedCases
  <2>7. QED
    BY <1>3, <2>1, <2>2, <2>3, <2>4, <2>5, <2>6 DEF AppNext
<1>4. CASE UNCHANGED vars \/ Tick
  BY <1>2, <1>4 DEF vars, appVars, devVars, Tick, Wire, QueueBefore, CameraBefore, PartBefore
<1>5. CASE TakeImage
  <2>1. UNCHANGED <<text, notifying, live, Wire>> /\ QueueBefore' = QueueBefore
    BY <1>5, QueueStays DEF TakeImage, appVars, Wire
  <2>2. \A a : Genuine(a) => Genuine(a)' /\ \A b : Goes(a, b) => Goes(a, b)'
    BY <1>5, GenuineStays
  <2>3. Collects(text)'
    <3>1. PICK t : t = text
      OBVIOUS
    <3>2. \A i \in DOMAIN t : Genuine(t[i])'
      BY <2>2, <3>1 DEF TextInv, Collects
    <3>3. QED
      BY <2>1, <3>1, <3>2 DEF TextInv, Collects, Genuine
  <2>4. Attached'
    <3>1. PICK t, w : t = text /\ w = Wire
      OBVIOUS
    <3>2. t # <<>> => Genuine(Last(t))
      <4>1. t \in Seq(Notes)
        BY <3>1 DEF TextInv, Collects
      <4>2. t # <<>> => Len(t) \in DOMAIN t
        BY <4>1
      <4>3. QED
        BY <3>1, <4>2 DEF TextInv, Collects, Last
    <3>3. t # <<>> => (Goes(Last(t), w[1]) => Goes(Last(t), w[1])')
      BY <2>2, <3>2
    <3>4. QED
      BY <2>1, <3>1, <3>3 DEF TextInv, Attached, Goes
  <2>5. QED
    BY <2>3, <2>4 DEF TextInv
<1>6. CASE SendImageChunck
  <2>1. UNCHANGED <<text, notifying, live, Wire, taken>> /\ QueueBefore' = QueueBefore
    BY <1>6, QueueStays DEF SendImageChunck, appVars, Wire
  <2>2. QED
    BY <1>2, <2>1
<1>7. CASE HandleCameraData
  <2>1. /\ UNCHANGED <<text, notifying, live, taken>> /\ Wire' # <<>>
        /\ IF Wire = <<>> THEN Goes(QueueBefore, Wire'[1]) ELSE Wire'[1] = Wire[1]
    BY <1>7, HandledStream DEF HandleCameraData, appVars
  <2>2. Collects(text)'
    BY <2>1 DEF TextInv, Collects, Genuine
  <2>3. Attached'
    BY <2>1 DEF TextInv, Attached, Goes
  <2>4. QED
    BY <2>2, <2>3 DEF TextInv
<1>8. CASE Transmit
  <2>1. /\ UNCHANGED <<taken, notifying, live, text>> /\ QueueBefore' = QueueBefore
        /\ notifying => Wire' = Wire
    BY <1>8, TransmitCases
  <2>2. QED
    BY <1>2, <2>1
<1>9. QED
  BY <1>3, <1>4, <1>5, <1>6, <1>7, <1>8 DEF Next, Device

(***************************************************************************)
(* A text with one header that the zero byte ends has all the places of    *)
(* its image; with as many bytes as the header announced it has each of    *)
(* them once.                                                              *)
(***************************************************************************)
LEMMA TextTaken ==
  ASSUME TypeOK, Collects(text), text # <<>>, Goes(Last(text), Zero),
         NEW i \in DOMAIN text, Headers(text) = {i}
  PROVE  LET b == RemoveAt(text, i) IN
         /\ b \in Seq(Notes) /\ text[i].num \in Nat
         /\ Len(b) = text[i].num => \E k \in DOMAIN taken : b = Image(k)
<1> DEFINE n == Len(text)
           b == RemoveAt(text, i)
           k == text[1].image
<1>1. /\ text \in Seq(Notes) /\ n \in Nat /\ n # 0 /\ DOMAIN text = 1 .. n
      /\ 1 \in 1 .. n /\ n \in 1 .. n
  BY DEF Collects
<1>2. /\ \A j \in 1 .. n : Genuine(text[j]) /\ text[j] # Zero
      /\ \A j, m \in 1 .. n :
           j <= m => /\ text[j].image = text[m].image
                     /\ Place(text[m]) <= Place(text[j]) + (m - j)
                     /\ text[m].kind = "header" => text[j].kind = "header"
  BY <1>1 DEF Collects
<1>3. i = 1 /\ text[1].kind = "header" /\ \A j \in 1 .. n : text[j].kind = "header" => j = 1
  <2>1. i \in 1 .. n /\ text[i].kind = "header"
    BY <1>1 DEF Headers
  <2>2. text[1].kind = "header"
    BY <1>1, <1>2, <2>1
  <2>3. QED
    BY <1>1, <2>1, <2>2 DEF Headers
<1> HIDE DEF n
<1>4. /\ k \in DOMAIN taken /\ taken[k] \in Nat /\ text[1] = Header(k, taken[k])
      /\ \A j \in 1 .. n : /\ Place(text[j]) \in Nat /\ text[j].image = k
                           /\ j # 1 => text[j] = Byte(k, Place(text[j])) /\ text[j].kind = "byte"
                                       /\ Place(text[j]) = text[j].num
  <2>1. \A j \in 1 .. n : 1 <= j
    BY <1>1
  <2>2. \A j \in 1 .. n : text[j].image = k
    BY <1>1, <1>2, <2>1
  <2>3. \A j \in 1 .. n :
          /\ text[j].image \in DOMAIN taken /\ Place(text[j]) \in Nat
          /\ \/ text[j].kind = "header" /\ text[j] = Header(text[j].image, taken[text[j].image])
             \/ text[j].kind = "byte" /\ text[j] = Byte(text[j].image, Place(text[j]))
                /\ Place(text[j]) = text[j].num
    BY <1>2, GenuineParts
  <2>4. k \in DOMAIN taken /\ text[1] = Header(k, taken[k])
    BY <1>1, <1>3, <2>3 DEF Header
  <2>5. taken[k] \in Nat
    BY <2>4, TakenSizes
  <2>6. QED
    BY <1>3, <2>2, <2>3, <2>4, <2>5
<1>5. Place(text[1]) = 0 /\ text[1].num = taken[k]
  BY <1>4 DEF Place, Header
<1>6. n # 1 /\ Place(text[n]) = taken[k]
  <2>1. Last(text) = text[n]
    BY DEF Last, n
  <2>2. text[n].kind = "byte" /\ text[n].num = taken[text[n].image]
    <3>1. text[n].kind # "zero"
      BY <1>1, <1>3, <1>4
    <3>2. ~(text[n].kind = "header")
      BY <2>1 DEF Goes, Zero, Byte
    <3>3. QED
      BY <2>1, <3>1, <3>2 DEF Goes, Zero, Byte
  <2>3. n # 1
    BY <1>3, <2>2
  <2>4. QED
    BY <1>1, <1>4, <2>2, <2>3
<1>7. /\ b \in Seq(Notes) /\ Len(b) = n - 1
      /\ \A j \in 1 .. n - 1 : b[j] = text[j + 1]
  <2>1. SubSeq(text, 1, 0) = <<>>
    BY <1>1
  <2>2. b = SubSeq(text, 1, i - 1) \o SubSeq(text, i + 1, Len(text))
    BY DEF RemoveAt
  <2>3. b = <<>> \o SubSeq(text, 2, n)
    BY <1>3, <2>1, <2>2 DEF n
  <2> DEFINE s == SubSeq(text, 2, n)
  <2>4. s \in Seq(Notes) /\ Len(s) = n - 1 /\ \A j \in 1 .. n - 1 : s[j] = text[j + 1]
    BY <1>1, <1>6 DEF n
  <2> HIDE DEF s
  <2>5. b = s
    BY <2>3, <2>4 DEF s
  <2>6. QED
    BY <2>4, <2>5
<1> HIDE DEF b
<1>8. ASSUME Len(b) = taken[k]
      PROVE  b = Image(k)
  <2>1. n = taken[k] + 1
    BY <1>1, <1>7, <1>8
  <2>2. ASSUME NEW j \in 1 .. taken[k]
        PROVE  b[j] = Byte(k, 1 + j - 1)
    <3>1. j + 1 \in 1 .. n /\ j + 1 # 1 /\ j \in 1 .. n - 1 /\ 1 <= j + 1 /\ j + 1 <= n
      BY <1>4, <2>1
    <3>2. Place(text[j + 1]) <= 0 + ((j + 1) - 1)
      BY <1>1, <1>2, <1>5, <3>1
    <3>3. taken[k] <= Place(text[j + 1]) + (n - (j + 1))
      BY <1>1, <1>2, <1>6, <3>1
    <3>4. Place(text[j + 1]) \in Nat
      BY <1>4, <3>1
    <3>5. Place(text[j + 1]) = 1 + j - 1
      BY <1>4, <2>1, <3>2, <3>3, <3>4
    <3>6. text[j + 1] = Byte(k, Place(text[j + 1]))
      BY <1>4, <3>1
    <3>7. QED
      BY <1>7, <3>1, <3>5, <3>6
  <2>3. DOMAIN b = 1 .. taken[k] /\ b = [j \in DOMAIN b |-> b[j]]
    BY <1>7, <1>8
  <2>4. Image(k) = [j \in 1 .. taken[k] |-> Byte(k, 1 + j - 1)]
    <3>1. taken[k] - 1 + 1 = taken[k]
      BY <1>4
    <3>2. QED
      BY <3>1 DEF Image, Run
  <2>5. QED
    BY <2>2, <2>3, <2>4
<1>9. QED
  BY <1>3, <1>4, <1>5, <1>7, <1>8 DEF b

-----------------------------------------------------------------------------
(* What the app received *)

(* The strengthening of ReceivedIsTaken, with all that it rests on. *)
ImagesOK == images \in Seq([size : Nat, bytes : Seq(Notes)])

StreamInv == /\ TypeOK /\ QueuesOK /\ LossInv /\ ConnInv /\ PartsInv /\ WireInv /\ TextInv
             /\ ImagesOK /\ ReceivedIsTaken

LEMMA ReceivedStep == StreamInv /\ [Next]_vars => ImagesOK' /\ ReceivedIsTaken'
<1> SUFFICES ASSUME StreamInv, [Next]_vars PROVE ImagesOK' /\ ReceivedIsTaken'
  OBVIOUS
<1> USE DEF StreamInv
<1>1. CASE UNCHANGED <<images, taken>>
  BY <1>1 DEF ImagesOK, ReceivedIsTaken, Image
<1>2. CASE TakeImage
  <2>1. images' = images /\ \A k \in DOMAIN taken : k \in DOMAIN taken' /\ taken'[k] = taken[k]
    BY <1>2, TakenStays DEF TakeImage, appVars
  <2>2. \A k \in DOMAIN taken : Image(k)' = Image(k)
    BY <2>1 DEF Image
  <2>3. QED
    BY <2>1, <2>2 DEF ImagesOK, ReceivedIsTaken
<1>3. CASE UNCHANGED devVars /\ AppNext
  <2>1. taken' = taken
    BY <1>3 DEF devVars
  <2>2. CASE images' = images
    BY <1>1, <2>1, <2>2
  <2>3. CASE Notified /\ Process /\ live > 0 /\ Head(air) = Zero /\ images' # images
    <3>1. PICK i \in DOMAIN text : Headers(text) = {i}
      BY <2>3 DEF Process
    <3> DEFINE m == [size |-> text[i].num, bytes |-> RemoveAt(text, i)]
    <3>2. images' = Append(images, m)
      BY <2>3, <3>1 DEF Process
    <3>3. text # <<>> /\ Goes(Last(text), Zero) /\ Collects(text)
      <4>1. text # <<>>
        BY <3>1
      <4>2. QED
        BY <1>3, <2>3, <4>1, NotifiedCases DEF TextInv
    <3>4. /\ m.bytes \in Seq(Notes) /\ m.size \in Nat
          /\ Len(m.bytes) = m.size => \E k \in DOMAIN taken : m.bytes = Image(k)
      BY <3>1, <3>3, TextTaken
    <3>5. m = [size |-> m.size, bytes |-> m.bytes]
      OBVIOUS
    <3> HIDE DEF m
    <3>6. m \in [size : Nat, bytes : Seq(Notes)]
      BY <3>4, <3>5
    <3>7. /\ ImagesOK'
          /\ \A n \in DOMAIN images' : (n \in DOMAIN images /\ images'[n] = images[n]) \/ images'[n] = m
      BY <3>2, <3>6 DEF ImagesOK
    <3>8. \A k : Image(k)' = Image(k)
      BY <2>1 DEF Image
    <3>9. QED
      BY <2>1, <3>4, <3>7, <3>8 DEF ReceivedIsTaken
  <2>4. CASE Notified
    BY <1>3, <2>2, <2>3, <2>4, NotifiedCases
  <2>5. CASE ~Notified
    BY <1>3, <2>2, <2>5, HandledCases DEF AppNext, Reinit, User, ScanEnds, Connect, Disconnect,
                                         Discovered, Subscribe, Enabled, data
  <2>6. QED
    BY <2>4, <2>5
<1>4. CASE UNCHANGED vars \/ Tick \/ SendImageChunck \/ HandleCameraData \/ Transmit
  BY <1>1, <1>4 DEF vars, appVars, devVars, Tick, SendImageChunck, HandleCameraData, Transmit
<1>5. QED
  BY <1>2, <1>3, <1>4 DEF Next, Device

(***************************************************************************)
(* An image that the app shows as received is one that the camera took,    *)
(* for every size of images and parts and every number of them: whatever   *)
(* the user presses, wherever connections end, however late the library    *)
(* answers, and however many subscriptions repeat what is notified.        *)
(***************************************************************************)
THEOREM ReceivedCorrect == Spec => []ReceivedIsTaken
<1>1. Init => StreamInv
  <2>1. Init => ImagesOK /\ ReceivedIsTaken
    <3>1. Init => images = <<>>
      BY DEF Init, AppInit
    <3>2. QED
      BY <3>1 DEF ImagesOK, ReceivedIsTaken
  <2>2. QED
    BY <2>1, TypeInit, LossInit, ConnInit, PartsInit, WireInit, TextInit DEF StreamInv
<1>2. StreamInv /\ [Next]_vars => StreamInv'
  <2>1. TypeOK => AppTypeOK
    BY DEF TypeOK
  <2>2. QED
    BY <2>1, TypeNext, LossStep, ConnStep, PartsStep, WireStep, TextStep, ReceivedStep DEF StreamInv
<1>3. StreamInv => ReceivedIsTaken
  BY DEF StreamInv
<1>4. QED
  BY <1>1, <1>2, <1>3, PTL DEF Spec

-----------------------------------------------------------------------------
(* The files of an image *)

(* The bytes of an image that are still in the camera, and those that have *)
(* not reached the card.                                                   *)
InCamera(k) == IF k = Len(taken) THEN Last(taken) - left + 1 .. Last(taken) ELSE {}
Coming(k, n) ==
  \/ n \in InCamera(k)
  \/ \E i \in DOMAIN evq : evq[i].image = k /\ n \in From(evq[i]) .. To(evq[i])

(* The parts of an image wait in their order, before what is in the        *)
(* camera, and a first part is as long as parts are.                       *)
QueueOrder ==
  \A i \in DOMAIN evq :
    /\ evq[i].image = Len(taken) => To(evq[i]) <= Last(taken) - left
    /\ evq[i].isFirst => To(evq[i]) = Lesser(Chunk, evq[i].size)
    /\ \A j \in DOMAIN evq :
         i < j /\ evq[i].image = evq[j].image => To(evq[i]) < From(evq[j])

LEMMA QueueInit == Init => QueueOrder
<1>1. Init => DOMAIN evq = {}
  BY DEF Init
<1>2. QED
  BY <1>1 DEF QueueOrder

LEMMA QueueStep == TypeOK /\ QueuesOK /\ PartsInv /\ QueueOrder /\ [Next]_vars => QueueOrder'
<1> SUFFICES ASSUME TypeOK, QueuesOK, PartsInv, QueueOrder, [Next]_vars PROVE QueueOrder'
  OBVIOUS
<1>0. evq \in Seq(PartSet) /\ Len(evq) \in Nat /\ DOMAIN evq = 1 .. Len(evq)
  BY DEF QueuesOK
<1>1. CASE UNCHANGED <<taken, left, reading, evq>>
  BY <1>1 DEF QueueOrder
<1>2. CASE TakeImage
  <2>1. CASE UNCHANGED <<taken, left, reading>>
    BY <1>1, <1>2, <2>1 DEF TakeImage
  <2>2. ASSUME NEW size \in Sizes, taken' = Append(taken, size)
        PROVE  QueueOrder'
    <3>1. evq' = evq
      BY <1>2 DEF TakeImage
    <3>2. taken \in Seq(Sizes) /\ Len(taken) \in Nat /\ DOMAIN taken = 1 .. Len(taken)
      BY DEF TypeOK
    <3>3. Len(taken') = Len(taken) + 1
      BY <2>2, <3>2
    <3>4. \A i \in DOMAIN evq : evq[i].image # Len(taken')
      BY <3>2, <3>3 DEF PartsInv, PartOK
    <3>5. QED
      BY <3>1, <3>4 DEF QueueOrder
  <2>3. QED
    BY <1>2, <2>1, <2>2 DEF TakeImage
<1>3. CASE SendImageChunck
  <2>1. taken' = taken
    BY <1>3 DEF SendImageChunck
  <2>2. PICK p : /\ evq' = Append(evq, p) /\ PartOK(p) /\ p.image = Len(taken)
                 /\ From(p) = Last(taken) - left + 1 /\ To(p) = Last(taken) - left'
                 /\ p.isFirst => To(p) = Lesser(Chunk, Last(taken))
    BY <1>3, PartSent
  <2>3. p.size = Last(taken) /\ Last(taken) \in Nat /\ left \in Nat /\ left' \in Nat /\ left' < left
    BY <1>3, <2>2, SendFacts DEF PartOK
  <2> DEFINE n == Len(evq)
             z == Last(taken) - left
  <2>4. PICK r : r = evq'
    OBVIOUS
  <2>5. /\ DOMAIN r = 1 .. n + 1 /\ r[n + 1] = p
        /\ \A i \in 1 .. n : r[i] = evq[i]
    BY <1>0, <2>2, <2>4
  <2>6. n \in Nat /\ DOMAIN evq = 1 .. n /\ z \in Int /\ From(p) = z + 1 /\ z <= Last(taken) - left'
    BY <1>0, <2>2, <2>3
  <2>7. \A i \in 1 .. n : To(evq[i]) \in Nat
    BY <2>6 DEF PartsInv, PartOK
  <2>8. \A i \in 1 .. n : evq[i].image = p.image => To(evq[i]) < From(p) /\ To(evq[i]) <= z
    BY <2>2, <2>6, <2>7 DEF QueueOrder
  <2>9. \A i \in 1 .. n : evq[i].image = p.image => To(evq[i]) <= Last(taken) - left'
    BY <2>3, <2>6, <2>7, <2>8
  <2> HIDE DEF n, z
  <2>10. \A i, j \in 1 .. n + 1 : i < j => i \in 1 .. n /\ (j \in 1 .. n \/ j = n + 1)
    BY <2>6
  <2>11. \A i, j \in 1 .. n + 1 : i < j /\ r[i].image = r[j].image => To(r[i]) < From(r[j])
    <3> SUFFICES ASSUME NEW i \in 1 .. n + 1, NEW j \in 1 .. n + 1, i < j, r[i].image = r[j].image
                 PROVE  To(r[i]) < From(r[j])
      OBVIOUS
    <3>1. i \in 1 .. n /\ (j \in 1 .. n \/ j = n + 1)
      BY <2>10
    <3>2. CASE j \in 1 .. n
      BY <2>5, <2>6, <3>1, <3>2 DEF QueueOrder
    <3>3. CASE j = n + 1
      BY <2>5, <2>8, <3>1, <3>3
    <3>4. QED
      BY <3>1, <3>2, <3>3
  <2>12. \A i \in 1 .. n + 1 : i \in 1 .. n \/ i = n + 1
    BY <2>6
  <2>13. \A i \in 1 .. n + 1 :
           /\ r[i].image = Len(taken) => To(r[i]) <= Last(taken) - left'
           /\ r[i].isFirst => To(r[i]) = Lesser(Chunk, r[i].size)
    <3> SUFFICES ASSUME NEW i \in 1 .. n + 1
                 PROVE  /\ r[i].image = Len(taken) => To(r[i]) <= Last(taken) - left'
                        /\ r[i].isFirst => To(r[i]) = Lesser(Chunk, r[i].size)
      OBVIOUS
    <3>1. CASE i \in 1 .. n
      BY <2>2, <2>5, <2>6, <2>9, <3>1 DEF QueueOrder
    <3>2. CASE i = n + 1
      BY <2>2, <2>3, <2>5, <3>2
    <3>3. QED
      BY <2>12, <3>1, <3>2
  <2>14. QED
    BY <2>1, <2>4, <2>5, <2>11, <2>13 DEF QueueOrder
<1>4. CASE HandleCameraData
  <2>1. evq # <<>> /\ evq' = Tail(evq) /\ UNCHANGED <<taken, left, reading>>
    BY <1>4 DEF HandleCameraData
  <2>2. PICK r : r = evq'
    OBVIOUS
  <2>3. \A i \in DOMAIN r : i + 1 \in DOMAIN evq /\ r[i] = evq[i + 1]
    BY <1>0, <2>1, <2>2
  <2>4. \A i, j \in DOMAIN r : i < j => i + 1 < j + 1
    BY <1>0, <2>1, <2>2
  <2>5. QED
    BY <2>1, <2>2, <2>3, <2>4 DEF QueueOrder
<1>5. CASE AppNext /\ UNCHANGED devVars
  BY <1>1, <1>5 DEF devVars
<1>6. CASE UNCHANGED vars \/ Tick \/ Transmit
  BY <1>1, <1>6 DEF vars, devVars, Tick, Transmit
<1>7. QED
  BY <1>2, <1>3, <1>4, <1>5, <1>6 DEF Next, Device

(* A part that leaves the queue takes its bytes from what is to come, and  *)
(* the others of its image come after it.                                  *)
LEMMA ComingHandled ==
  ASSUME TypeOK, QueuesOK, PartsInv, QueueOrder, HandleCameraData
  PROVE  LET p == Head(evq) IN
         /\ PartOK(p) /\ p \in PartSet /\ (p.isFirst => To(p) = Lesser(Chunk, p.size))
         /\ \A n \in From(p) .. To(p) : Coming(p.image, n)
         /\ \A k, n : Coming(k, n)' => Coming(k, n) /\ (k = p.image => n \in Nat /\ To(p) < n)
         /\ \A k, n : Coming(k, n) => Coming(k, n)' \/ (k = p.image /\ n \in From(p) .. To(p))
<1>0. evq \in Seq(PartSet) /\ Len(evq) \in Nat /\ DOMAIN evq = 1 .. Len(evq)
  BY DEF QueuesOK
<1>1. evq # <<>> /\ evq' = Tail(evq) /\ UNCHANGED <<taken, left, reading>>
  BY DEF HandleCameraData
<1> DEFINE p == Head(evq)
<1>2. PICK r : r = evq'
  OBVIOUS
<1>3. /\ p = evq[1] /\ 1 \in DOMAIN evq /\ p \in PartSet
      /\ \A i \in DOMAIN r : i + 1 \in DOMAIN evq /\ r[i] = evq[i + 1] /\ 1 < i + 1
      /\ \A i \in DOMAIN evq : i = 1 \/ (i - 1 \in DOMAIN r /\ r[i - 1] = evq[i])
  BY <1>0, <1>1, <1>2
<1> HIDE DEF p
<1>4. PartOK(p) /\ (p.isFirst => To(p) = Lesser(Chunk, p.size))
  BY <1>3 DEF PartsInv, QueueOrder
<1>5. \A n \in From(p) .. To(p) : Coming(p.image, n)
  BY <1>3 DEF Coming
<1>6. \A k : InCamera(k)' = InCamera(k)
  BY <1>1 DEF InCamera
<1>7. ASSUME NEW k, NEW n, Coming(k, n)'
      PROVE  Coming(k, n) /\ (k = p.image => n \in Nat /\ To(p) < n)
  <2>1. CASE n \in InCamera(k)
    <3>1. Coming(k, n)
      BY <2>1 DEF Coming
    <3>2. ASSUME k = p.image PROVE n \in Nat /\ To(p) < n
      <4>1. k = Len(taken) /\ n \in Last(taken) - left + 1 .. Last(taken)
        BY <2>1 DEF InCamera
      <4>2. To(p) <= Last(taken) - left /\ To(p) \in Nat /\ left \in Nat
        BY <1>3, <1>4, <3>2, <4>1 DEF QueueOrder, PartOK, TypeOK
      <4>3. Last(taken) \in Nat
        <5>1. k \in DOMAIN taken /\ p.size = taken[k] /\ p.size \in Nat
          BY <1>3, <1>4, <3>2 DEF PartOK, PartSet
        <5>2. QED
          BY <4>1, <5>1 DEF Last
      <4>4. QED
        BY <4>1, <4>2, <4>3
    <3>3. QED
      BY <3>1, <3>2
  <2>2. ASSUME NEW i \in DOMAIN r, r[i].image = k, n \in From(r[i]) .. To(r[i])
        PROVE  Coming(k, n) /\ (k = p.image => n \in Nat /\ To(p) < n)
    <3>1. i + 1 \in DOMAIN evq /\ r[i] = evq[i + 1] /\ 1 < i + 1
      BY <1>3
    <3>2. PartOK(r[i])
      BY <3>1 DEF PartsInv
    <3>3. k = p.image => To(p) < From(r[i])
      BY <1>3, <2>2, <3>1 DEF QueueOrder
    <3>4. n \in Nat /\ (k = p.image => To(p) < n)
      BY <1>4, <2>2, <3>2, <3>3 DEF PartOK
    <3>5. QED
      BY <2>2, <3>1, <3>4 DEF Coming
  <2>3. QED
    BY <1>2, <1>6, <1>7, <2>1, <2>2 DEF Coming
<1>8. ASSUME NEW k, NEW n, Coming(k, n)
      PROVE  Coming(k, n)' \/ (k = p.image /\ n \in From(p) .. To(p))
  <2>1. CASE n \in InCamera(k)
    BY <1>6, <2>1 DEF Coming
  <2>2. ASSUME NEW i \in DOMAIN evq, evq[i].image = k, n \in From(evq[i]) .. To(evq[i])
        PROVE  Coming(k, n)' \/ (k = p.image /\ n \in From(p) .. To(p))
    <3>1. CASE i = 1
      BY <1>3, <2>2, <3>1
    <3>2. CASE i # 1
      <4>1. i - 1 \in DOMAIN r /\ r[i - 1] = evq[i]
        BY <1>3, <3>2
      <4>2. QED
        BY <1>2, <2>2, <4>1 DEF Coming
    <3>3. QED
      BY <3>1, <3>2
  <2>3. QED
    BY <1>8, <2>1, <2>2 DEF Coming
<1>9. QED
  BY <1>3, <1>4, <1>5, <1>7, <1>8 DEF p

(* A part that enters the queue was to come, as what is left is.           *)
LEMMA ComingSent ==
  ASSUME TypeOK, QueuesOK, SendImageChunck
  PROVE  \A k, n : Coming(k, n)' <=> Coming(k, n)
<1>1. taken' = taken
  BY DEF SendImageChunck
<1>2. PICK p : /\ evq' = Append(evq, p) /\ p.image = Len(taken)
               /\ From(p) = Last(taken) - left + 1 /\ To(p) = Last(taken) - left'
  BY PartSent
<1>3. Last(taken) \in Nat /\ left \in Nat /\ left' \in Nat /\ left' < left /\ left <= Last(taken)
  BY SendFacts
<1>4. PICK r : r = evq'
  OBVIOUS
<1>5. /\ DOMAIN evq \subseteq DOMAIN r
      /\ \A i \in DOMAIN evq : r[i] = evq[i]
      /\ \E i \in DOMAIN r : r[i] = p
      /\ \A i \in DOMAIN r : r[i] = p \/ (i \in DOMAIN evq /\ r[i] = evq[i])
  <2>1. evq \in Seq(PartSet)
    BY DEF QueuesOK
  <2>2. /\ DOMAIN r = 1 .. Len(evq) + 1 /\ DOMAIN evq = 1 .. Len(evq) /\ Len(evq) \in Nat
        /\ r[Len(evq) + 1] = p /\ \A i \in 1 .. Len(evq) : r[i] = evq[i]
    BY <1>2, <1>4, <2>1
  <2>3. QED
    BY <2>2
<1>6. \A n : n \in Last(taken) - left + 1 .. Last(taken)
               <=> n \in From(p) .. To(p) \/ n \in Last(taken) - left' + 1 .. Last(taken)
  BY <1>2, <1>3
<1>7. \A k, n : n \in InCamera(k) <=> n \in InCamera(k)' \/ (k = p.image /\ n \in From(p) .. To(p))
  BY <1>1, <1>2, <1>6 DEF InCamera
<1>8. \A k, n : (\E i \in DOMAIN r : r[i].image = k /\ n \in From(r[i]) .. To(r[i]))
                  <=> \/ k = p.image /\ n \in From(p) .. To(p)
                      \/ \E i \in DOMAIN evq : evq[i].image = k /\ n \in From(evq[i]) .. To(evq[i])
  BY <1>5
<1>9. QED
  BY <1>4, <1>7, <1>8 DEF Coming

(* The bytes of a new image come; those of the others came.                *)
LEMMA ComingTaken ==
  ASSUME TypeOK, QueuesOK, PartsInv, TakeImage
  PROVE  /\ \A k \in DOMAIN taken : \A n : Coming(k, n)' <=> Coming(k, n)
         /\ \A k \in DOMAIN taken' \ DOMAIN taken : \A n \in 1 .. taken'[k] : Coming(k, n)'
<1>1. evq' = evq /\ left \in Nat /\ reading = (left # 0) /\ ~reading /\ left = 0
  BY DEF TakeImage, TypeOK
<1>2. PICK size \in Sizes : taken' = Append(taken, size) /\ left' = size
  BY <1>1 DEF TakeImage
<1>3. /\ DOMAIN taken = 1 .. Len(taken) /\ DOMAIN taken' = 1 .. Len(taken) + 1
      /\ Len(taken') = Len(taken) + 1 /\ taken'[Len(taken) + 1] = size
      /\ Len(taken) \in Nat /\ size \in Nat
  BY <1>2, ImageAssumption DEF TypeOK, ImageAssumption
<1>4. Last(taken') = size
  BY <1>3 DEF Last
<1>5. \A k \in DOMAIN taken : InCamera(k) = {} /\ InCamera(k)' = {}
  <2>1. \A k \in DOMAIN taken : k # Len(taken') /\ taken[k] \in Nat
    <3>1. \A k \in DOMAIN taken : taken[k] \in Nat
      BY TakenSizes
    <3>2. QED
      BY <1>3, <3>1
  <2>2. \A k \in DOMAIN taken : k = Len(taken) => Last(taken) \in Nat
    BY <2>1 DEF Last
  <2>3. \A z \in Nat : z - 0 + 1 .. z = {}
    OBVIOUS
  <2>4. QED
    BY <1>1, <2>1, <2>2, <2>3 DEF InCamera
<1>6. \A k \in DOMAIN taken' \ DOMAIN taken : k = Len(taken')
  BY <1>3
<1>7. \A k \in DOMAIN taken' \ DOMAIN taken : \A n \in 1 .. taken'[k] : n \in InCamera(k)'
  <2>1. size - left' + 1 = 1
    BY <1>2, <1>3
  <2>2. QED
    BY <1>3, <1>4, <1>6, <2>1 DEF InCamera
<1>8. QED
  BY <1>1, <1>5, <1>7 DEF Coming

(* What a part leaves in the file it is written to. *)
LEMMA Stored ==
  ASSUME NEW file \in Seq(ByteSet), NEW p \in PartSet, PartOK(p)
  PROVE  LET r == Store(file, p)
             o == IF p.isFirst THEN 0 ELSE Len(file)
             n == To(p) - From(p) + 1
         IN  /\ DOMAIN r = DOMAIN file \union o + 1 .. o + n
             /\ \A i \in o + 1 .. o + n : r[i] = Byte(p.image, From(p) + (i - o) - 1)
             /\ \A i \in DOMAIN file \ o + 1 .. o + n : r[i] = file[i]
<1> DEFINE b == p.bytes
           n == To(p) - From(p) + 1
           m == Len(file)
           tail == SubSeq(file, n + 1, m)
<1>1. b = Run(p.image, From(p), To(p)) /\ From(p) \in Nat \ {0} /\ To(p) \in Nat /\ From(p) <= To(p)
  BY DEF PartOK
<1>2. Len(b) = n /\ DOMAIN b = 1 .. n /\ \A i \in 1 .. n : b[i] = Byte(p.image, From(p) + i - 1)
  <2> DEFINE r == Run(p.image, From(p), To(p))
  <2>1. /\ Len(r) = To(p) - From(p) + 1 /\ DOMAIN r = 1 .. To(p) - From(p) + 1
        /\ \A i \in 1 .. To(p) - From(p) + 1 : r[i] = Byte(p.image, From(p) + i - 1)
    BY <1>1, RunEnds
  <2>2. b = r
    BY <1>1
  <2> HIDE DEF b, r
  <2>3. QED
    BY <2>1, <2>2
<1>3. n \in Nat /\ m \in Nat /\ DOMAIN file = 1 .. m
  BY <1>1
<1>4. b \in Seq(ByteSet)
  BY DEF PartSet
<1>5. From(p) \in Nat
  BY <1>1
<1> HIDE DEF b, n, m
<1>6. CASE p.isFirst
  <2>1. Store(file, p) = b \o tail
    BY <1>2, <1>6 DEF Store, b, m
  <2>2. /\ tail \in Seq(ByteSet) /\ Len(tail) = IF m < n THEN 0 ELSE m - n
        /\ \A i \in 1 .. m - n : tail[i] = file[n + i]
    BY <1>3 DEF m
  <2> HIDE DEF tail
  <2> DEFINE r == b \o tail
             l == Len(tail)
  <2>3. /\ DOMAIN r = 1 .. n + l /\ \A i \in 1 .. n : r[i] = b[i]
        /\ \A i \in n + 1 .. n + l : r[i] = tail[i - n]
    BY <1>2, <1>3, <1>4, <2>2
  <2>4. l = IF m < n THEN 0 ELSE m - n
    BY <2>2
  <2> HIDE DEF r, l
  <2>5. 1 .. n + l = 1 .. m \union 1 .. n
    BY <1>3, <2>4
  <2>6. \A i \in 1 .. n : r[i] = Byte(p.image, From(p) + i - 1)
    BY <1>2, <2>3
  <2>7. \A i \in 1 .. m \ 1 .. n : i \in n + 1 .. n + l /\ i - n \in 1 .. m - n /\ n + (i - n) = i
    BY <1>3, <2>4
  <2>8. \A i \in 1 .. m \ 1 .. n : r[i] = file[i]
    BY <2>2, <2>3, <2>7
  <2>9. 0 + 1 = 1 /\ 0 + n = n /\ \A i \in 1 .. n : i - 0 = i
    BY <1>3
  <2>10. Store(file, p) = r
    BY <2>1 DEF r
  <2>11. LET o == 0
         IN  /\ DOMAIN r = DOMAIN file \union o + 1 .. o + n
             /\ \A i \in o + 1 .. o + n : r[i] = Byte(p.image, From(p) + (i - o) - 1)
             /\ \A i \in DOMAIN file \ o + 1 .. o + n : r[i] = file[i]
    BY <1>3, <2>3, <2>5, <2>6, <2>8, <2>9
  <2>12. QED
    BY <1>6, <2>10, <2>11 DEF n
<1>7. CASE ~p.isFirst
  <2> DEFINE r == file \o b
  <2>1. Store(file, p) = r
    BY <1>7 DEF Store, b
  <2>2. /\ DOMAIN r = 1 .. m + n /\ \A i \in 1 .. m : r[i] = file[i]
        /\ \A i \in m + 1 .. m + n : r[i] = b[i - m]
    BY <1>2, <1>3, <1>4 DEF m
  <2> HIDE DEF r
  <2>3. /\ 1 .. m + n = 1 .. m \union m + 1 .. m + n
        /\ \A i \in m + 1 .. m + n : i - m \in 1 .. n
        /\ \A i \in 1 .. m \ m + 1 .. m + n : i \in 1 .. m
    BY <1>3
  <2>4. \A i \in m + 1 .. m + n : r[i] = Byte(p.image, From(p) + (i - m) - 1)
    BY <1>2, <2>2, <2>3
  <2>5. QED
    BY <1>3, <1>7, <2>1, <2>2, <2>3, <2>4 DEF n, m
<1>8. QED
  BY <1>6, <1>7

(* The file of a second begins with the first part of an image. *)
Begins(k, s) ==
  \A i \in 1 .. Lesser(Chunk, taken[k]) : i \in DOMAIN files[s] /\ files[s][i] = Byte(k, i)

(* A byte in a file is of an image that used its second, and it is before  *)
(* all that have not reached the card.                                     *)
BytesPlaced ==
  \A s \in Seconds : \A i \in DOMAIN files[s] :
    LET c == files[s][i]
    IN  c.image # 0 =>
          /\ c.image \in DOMAIN taken /\ s \in secs[c.image] /\ c.num \in 1 .. taken[c.image]
          /\ \A n : Coming(c.image, n) => c.num < n

(* The seconds of an image are past, and its first part came.              *)
SecondsPast ==
  \A k \in 1 .. MaxImages : \A s \in secs[k] :
    s <= now /\ k \in DOMAIN taken /\ ~Coming(k, 1)

(* Nothing is missing of an image that shares no second, and its first     *)
(* file begins with it.                                                    *)
NothingMissing ==
  \A k \in DOMAIN taken : Alone(k) =>
    /\ \A n \in 1 .. taken[k] : n \in Held(k) \/ Coming(k, n)
    /\ \A s \in secs[k] : (\A t \in secs[k] : s <= t) => Begins(k, s)

CardInv ==
  /\ BytesPlaced /\ SecondsPast /\ NothingMissing
  /\ \A k \in DOMAIN taken : Ordered(k)

CardTypes == TypeOK /\ QueuesOK /\ PartsInv /\ QueueOrder

LEMMA CardInit == Init => CardInv
<1> SUFFICES ASSUME Init PROVE CardInv
  OBVIOUS
<1>1. taken = <<>> /\ secs = [k \in 1 .. MaxImages |-> {}] /\ DOMAIN taken = {}
  BY DEF Init
<1>2. \A s \in Seconds : \A i \in DOMAIN files[s] : files[s][i].image = 0
  <2>1. files = [s \in Seconds |-> Run(0, 1, OldLen)]
    BY DEF Init
  <2>2. \A i \in DOMAIN Run(0, 1, OldLen) : Run(0, 1, OldLen)[i].image = 0
    BY DEF Run, Byte
  <2>3. QED
    BY <2>1, <2>2
<1>3. QED
  BY <1>1, <1>2 DEF CardInv, BytesPlaced, SecondsPast, NothingMissing

(* The camera and the clock leave the card alone.                          *)
LEMMA CardKept ==
  ASSUME CardTypes, CardInv, UNCHANGED <<files, secs>>, now' >= now,
         \A k \in DOMAIN taken : k \in DOMAIN taken' /\ taken'[k] = taken[k],
         \A k \in DOMAIN taken : \A n : Coming(k, n)' <=> Coming(k, n),
         \A k \in DOMAIN taken' \ DOMAIN taken : \A n \in 1 .. taken'[k] : Coming(k, n)',
         now' \in Int, DOMAIN taken' \subseteq 1 .. MaxImages
  PROVE  CardInv'
<1>0. now \in Int /\ DOMAIN taken \subseteq 1 .. MaxImages /\ secs \in [1 .. MaxImages -> SUBSET Seconds]
      /\ Seconds \subseteq Int
  BY ImageAssumption DEF CardTypes, TypeOK, Seconds, ImageAssumption
<1>1. BytesPlaced'
  BY DEF CardInv, BytesPlaced
<1>2. SecondsPast'
  <2> SUFFICES ASSUME NEW k \in 1 .. MaxImages, NEW s \in secs[k]
               PROVE  s <= now' /\ k \in DOMAIN taken' /\ ~Coming(k, 1)'
    BY DEF SecondsPast
  <2>1. s <= now /\ k \in DOMAIN taken /\ ~Coming(k, 1)
    BY DEF CardInv, SecondsPast
  <2>2. s \in Int
    BY <1>0
  <2>3. QED
    BY <1>0, <2>1, <2>2
<1>3. \A k \in 1 .. MaxImages : k \notin DOMAIN taken => secs[k] = {}
  BY DEF CardInv, SecondsPast
<1>4. \A k : Held(k)' = Held(k) /\ \A s : Places(k, s)' = Places(k, s)
  BY DEF Held, Places
<1>5. NothingMissing'
  <2> SUFFICES ASSUME NEW k \in DOMAIN taken', Alone(k)'
               PROVE  /\ \A n \in 1 .. taken'[k] : n \in Held(k) \/ Coming(k, n)'
                      /\ \A s \in secs[k] : (\A t \in secs[k] : s <= t) => Begins(k, s)'
    BY <1>4 DEF NothingMissing
  <2>1. CASE k \in DOMAIN taken
    <3>1. Alone(k)
      BY DEF Alone
    <3>2. /\ \A n \in 1 .. taken[k] : n \in Held(k) \/ Coming(k, n)
          /\ \A s \in secs[k] : (\A t \in secs[k] : s <= t) => Begins(k, s)
      BY <2>1, <3>1 DEF CardInv, NothingMissing
    <3>3. \A s : Begins(k, s) => Begins(k, s)'
      BY <2>1 DEF Begins
    <3>4. QED
      BY <2>1, <3>2, <3>3
  <2>2. CASE k \notin DOMAIN taken
    BY <1>3, <2>2
  <2>3. QED
    BY <2>1, <2>2
<1>6. \A k \in DOMAIN taken' : Ordered(k)'
  <2>1. ASSUME NEW k \in DOMAIN taken, Ordered(k) PROVE Ordered(k)'
    BY <1>4, <2>1 DEF Ordered
  <2>2. ASSUME NEW k \in DOMAIN taken' \ DOMAIN taken PROVE Ordered(k)'
    <3>1. \A s \in Seconds : Places(k, s) = {}
      <4>1. 0 \notin DOMAIN taken'
        OBVIOUS
      <4>2. QED
        BY <2>2, <4>1 DEF CardInv, BytesPlaced, Places
    <3>2. QED
      BY <1>4, <3>1 DEF Ordered
  <2>3. QED
    BY <2>1, <2>2 DEF CardInv
<1>7. QED
  BY <1>1, <1>2, <1>5, <1>6 DEF CardInv

(* A part that is handled goes to the file of the second.                  *)
LEMMA CardHandle ==
  ASSUME CardTypes, CardInv, HandleCameraData
  PROVE  CardInv'
<1>a. PICK p : p = Head(evq)
  OBVIOUS
<1> DEFINE k == p.image
           a == From(p)
           b == To(p)
           f == files[now]
           r == Store(f, p)
           o == IF p.isFirst THEN 0 ELSE Len(f)
           New == o + 1 .. o + (b - a + 1)
<1>0. TypeOK /\ QueuesOK /\ PartsInv /\ QueueOrder
  BY DEF CardTypes
<1>1. /\ PartOK(p) /\ p \in PartSet /\ (p.isFirst => b = Lesser(Chunk, p.size))
      /\ \A n \in a .. b : Coming(k, n)
      /\ \A j, n : Coming(j, n)' => Coming(j, n) /\ (j = k => n \in Nat /\ b < n)
      /\ \A j, n : Coming(j, n) => Coming(j, n)' \/ (j = k /\ n \in a .. b)
  BY <1>0, <1>a, ComingHandled
<1>2. /\ UNCHANGED <<taken, now>>
      /\ files' = [files EXCEPT ![now] = r] /\ secs' = [secs EXCEPT ![k] = @ \union {now}]
  BY <1>a DEF HandleCameraData
<1>3. /\ files \in [Seconds -> Seq(ByteSet)] /\ now \in Seconds
      /\ secs \in [1 .. MaxImages -> SUBSET Seconds] /\ Seconds \subseteq Nat
      /\ DOMAIN taken \subseteq 1 .. MaxImages
  <2>1. taken \in Seq(Sizes) /\ Len(taken) <= MaxImages /\ MaxImages \in Nat /\ MaxTime \in Nat
    BY <1>0, ImageAssumption DEF TypeOK, ImageAssumption
  <2>2. DOMAIN taken \subseteq 1 .. MaxImages
    BY <2>1
  <2>3. /\ files \in [Seconds -> Seq(ByteSet)] /\ now \in Seconds
        /\ secs \in [1 .. MaxImages -> SUBSET Seconds]
    BY <1>0 DEF TypeOK, ByteSet
  <2>4. Seconds \subseteq Nat
    BY <2>1 DEF Seconds
  <2>5. QED
    BY <2>2, <2>3, <2>4
<1>4. f \in Seq(ByteSet) /\ Len(f) \in Nat /\ DOMAIN f = 1 .. Len(f)
  BY <1>3
<1>5. /\ DOMAIN r = DOMAIN f \union New
      /\ \A i \in New : r[i] = Byte(k, a + (i - o) - 1)
      /\ \A i \in DOMAIN f \ New : r[i] = f[i]
  BY <1>1, <1>4, Stored
<1>6. /\ a \in Nat \ {0} /\ b \in Nat /\ a <= b /\ b <= taken[k] /\ k \in DOMAIN taken
      /\ p.isFirst = (a = 1) /\ p.size = taken[k]
  BY <1>1 DEF PartOK
<1>b. p.isFirst <=> a = 1
  <2> DEFINE first == p.isFirst
  <2>1. first = (a = 1)
    BY <1>6
  <2> HIDE DEF first, a
  <2>2. first <=> a = 1
    BY <2>1, Zenon
  <2>3. QED
    BY <2>2 DEF first
<1>7. k \in 1 .. MaxImages /\ k # 0
  BY <1>3, <1>6
<1>8. o \in Nat
  BY <1>4
<1>9. /\ files'[now] = r /\ \A s \in Seconds : s # now => files'[s] = files[s]
      /\ secs'[k] = secs[k] \union {now} /\ \A j \in 1 .. MaxImages : j # k => secs'[j] = secs[j]
  BY <1>2, <1>3, <1>7
<1> HIDE DEF r, o
<1>10. \A i \in New : a + (i - o) - 1 \in a .. b
  BY <1>6, <1>8
<1>11. \A n \in a .. b : Byte(k, n).kind = "byte" /\ Byte(k, n).image = k /\ Byte(k, n).num = n
  BY DEF Byte
<1> DEFINE Fresh(s, i) == s = now /\ i \in New
           Kept(s, i) == /\ i \in DOMAIN files[s] /\ files'[s][i] = files[s][i]
                         /\ (s = now => i \notin New)
<1>12. ASSUME NEW s \in Seconds, NEW i \in DOMAIN files'[s]
       PROVE  \/ /\ Fresh(s, i) /\ files'[s][i] = Byte(k, a + (i - o) - 1)
                 /\ a + (i - o) - 1 \in a .. b
              \/ Kept(s, i)
  <2>1. CASE s # now
    BY <1>9, <2>1
  <2>2. CASE s = now
    BY <1>5, <1>9, <1>10, <2>2
  <2>3. QED
    BY <2>1, <2>2
<1> HIDE DEF k, a, b, f, New
(* Before a first part, nothing of its image is in a file. *)
<1>13. \A s \in Seconds : \A i \in Places(k, s) :
         /\ files[s][i].num \in Nat \ {0} /\ files[s][i].num < a
         /\ s \in secs[k] /\ s <= now
  <2> SUFFICES ASSUME NEW s \in Seconds, NEW i \in Places(k, s)
               PROVE  /\ files[s][i].num \in Nat \ {0} /\ files[s][i].num < a
                      /\ s \in secs[k] /\ s <= now
    OBVIOUS
  <2>1. i \in DOMAIN files[s] /\ files[s][i].image = k
    BY DEF Places
  <2>2. Coming(k, a)
    BY <1>1, <1>6
  <2>3. taken[k] \in Nat
    BY <1>0, <1>6, TakenSizes
  <2>4. files[s][i].num < a /\ files[s][i].num \in 1 .. taken[k] /\ s \in secs[k]
    BY <1>7, <2>1, <2>2 DEF CardInv, BytesPlaced
  <2>5. s <= now
    BY <1>7, <2>4 DEF CardInv, SecondsPast
  <2>6. QED
    BY <2>3, <2>4, <2>5
<1>14. p.isFirst => (\A s \in Seconds : Places(k, s) = {}) /\ secs[k] = {}
  <2> SUFFICES ASSUME p.isFirst PROVE (\A s \in Seconds : Places(k, s) = {}) /\ secs[k] = {}
    OBVIOUS
  <2>1. a = 1 /\ Coming(k, 1)
    BY <1>1, <1>6, <1>b
  <2>2. \A s \in Seconds : Places(k, s) = {}
    BY <1>13, <2>1
  <2>3. secs[k] = {}
    BY <1>7, <2>1 DEF CardInv, SecondsPast
  <2>4. QED
    BY <2>2, <2>3
<1>15. BytesPlaced'
  <2> SUFFICES ASSUME NEW s \in Seconds, NEW i \in DOMAIN files'[s],
                      NEW c, c = files'[s][i], c.image # 0
               PROVE  /\ c.image \in DOMAIN taken /\ s \in secs'[c.image]
                      /\ c.num \in 1 .. taken[c.image]
                      /\ \A n : Coming(c.image, n)' => c.num < n
    BY <1>2 DEF BytesPlaced
  <2>1. CASE /\ Fresh(s, i) /\ c = Byte(k, a + (i - o) - 1)
             /\ a + (i - o) - 1 \in a .. b
    <3> DEFINE m == a + (i - o) - 1
    <3>1. c.image = k /\ c.num = m /\ m \in a .. b
      BY <1>11, <2>1
    <3> HIDE DEF m
    <3>2. m \in 1 .. taken[k]
      <4>1. taken[k] \in Nat
        BY <1>0, <1>6, TakenSizes
      <4>2. QED
        BY <1>6, <3>1, <4>1
    <3>3. \A n : Coming(k, n)' => m < n
      <4> SUFFICES ASSUME NEW n, Coming(k, n)' PROVE m < n
        OBVIOUS
      <4>1. n \in Nat /\ b < n
        BY <1>1
      <4>2. QED
        BY <1>6, <3>1, <4>1
    <3>4. s \in secs'[k]
      BY <1>9, <2>1
    <3>5. QED
      BY <1>6, <3>1, <3>2, <3>3, <3>4
  <2>2. CASE Kept(s, i)
    <3>1. files[s][i] = c /\ i \in DOMAIN files[s]
      BY <2>2
    <3>2. /\ c.image \in DOMAIN taken /\ s \in secs[c.image] /\ c.num \in 1 .. taken[c.image]
          /\ \A n : Coming(c.image, n) => c.num < n
      BY <3>1 DEF CardInv, BytesPlaced
    <3>3. s \in secs'[c.image]
      BY <1>3, <1>9, <3>2
    <3>4. \A n : Coming(c.image, n)' => c.num < n
      BY <1>1, <3>2
    <3>5. QED
      BY <3>1, <3>2, <3>3, <3>4
  <2>3. QED
    BY <1>12, <2>1, <2>2
<1>16. SecondsPast'
  <2> SUFFICES ASSUME NEW j \in 1 .. MaxImages, NEW s \in secs'[j]
               PROVE  s <= now /\ j \in DOMAIN taken /\ ~Coming(j, 1)'
    BY <1>2 DEF SecondsPast
  <2>1. CASE s \in secs[j]
    BY <1>1, <2>1 DEF CardInv, SecondsPast
  <2>2. CASE j = k /\ s = now
    <3>1. ~Coming(k, 1)'
      <4>1. ~(b < 1)
        BY <1>6
      <4>2. QED
        BY <1>1, <4>1
    <3>2. QED
      BY <1>3, <1>6, <2>2, <3>1
  <2>3. QED
    BY <1>9, <2>1, <2>2
(* What of an image stays where it was. *)
<1>17. \A j, s : s \in Seconds => \A i \in Places(j, s)' :
         \/ j = k /\ Fresh(s, i) /\ files'[s][i].num = a + (i - o) - 1 /\ a + (i - o) - 1 \in a .. b
         \/ Kept(s, i) /\ i \in Places(j, s)
  <2> SUFFICES ASSUME NEW j, NEW s \in Seconds, NEW i \in Places(j, s)'
               PROVE  \/ /\ j = k /\ Fresh(s, i) /\ files'[s][i].num = a + (i - o) - 1
                         /\ a + (i - o) - 1 \in a .. b
                      \/ Kept(s, i) /\ i \in Places(j, s)
    OBVIOUS
  <2>1. i \in DOMAIN files'[s] /\ files'[s][i].image = j
    BY DEF Places
  <2>2. QED
    BY <1>11, <1>12, <2>1 DEF Places
<1>18. \A j \in DOMAIN taken' : Ordered(j)'
  <2> SUFFICES ASSUME NEW j \in DOMAIN taken, NEW s \in Seconds, NEW t \in Seconds,
                      NEW i \in Places(j, s)', NEW l \in Places(j, t)',
                      s < t \/ (s = t /\ i < l)
               PROVE  files'[s][i].num < files'[t][l].num
    BY <1>2 DEF Ordered
  <2> DEFINE New1(x, y) == /\ j = k /\ Fresh(x, y) /\ files'[x][y].num = a + (y - o) - 1
                           /\ a + (y - o) - 1 \in a .. b
             Old1(x, y) == Kept(x, y) /\ y \in Places(j, x)
  <2>1. (New1(s, i) \/ Old1(s, i)) /\ (New1(t, l) \/ Old1(t, l))
    BY <1>17
  <2>2. CASE Old1(s, i) /\ Old1(t, l)
    BY <2>2 DEF CardInv, Ordered
  <2>3. CASE New1(s, i) /\ New1(t, l)
    <3>1. s = t /\ i < l /\ i \in Int /\ l \in Int
      BY <1>3, <1>6, <1>8, <2>3 DEF New
    <3>2. a + (i - o) - 1 < a + (l - o) - 1
      BY <1>6, <1>8, <3>1
    <3>3. QED
      BY <2>3, <3>2
  <2>4. CASE Old1(s, i) /\ New1(t, l)
    <3>1. files'[s][i].num = files[s][i].num /\ files[s][i].num < a /\ files[s][i].num \in Nat
      BY <1>13, <2>4
    <3>2. files'[t][l].num \in a .. b
      BY <2>4
    <3>3. QED
      BY <1>6, <3>1, <3>2
  <2>5. CASE New1(s, i) /\ Old1(t, l)
    <3>1. ~p.isFirst
      BY <1>14, <2>5
    <3>2. t <= now /\ s = now /\ s = t /\ i < l
      BY <1>3, <1>13, <2>5
    <3>3. l \in DOMAIN f /\ i \in New
      BY <2>5, <3>2 DEF f
    <3>4. i > Len(f) /\ l <= Len(f) /\ i \in Int /\ l \in Int
      BY <1>4, <1>6, <3>1, <3>3 DEF New, o
    <3>5. QED
      BY <1>4, <3>2, <3>4
  <2>6. QED
    BY <2>1, <2>2, <2>3, <2>4, <2>5
<1>19. NothingMissing'
  <2> SUFFICES ASSUME NEW j \in DOMAIN taken, Alone(j)'
               PROVE  /\ \A n \in 1 .. taken[j] : n \in Held(j)' \/ Coming(j, n)'
                      /\ \A s \in secs'[j] : (\A t \in secs'[j] : s <= t) => Begins(j, s)'
    BY <1>2 DEF NothingMissing
  <2>0. j \in 1 .. MaxImages
    BY <1>3
  <2>1. Alone(j)
    <3>1. \A n \in DOMAIN taken : secs[n] \subseteq secs'[n]
      BY <1>3, <1>9
    <3>2. QED
      BY <1>2, <3>1 DEF Alone
  <2>2. /\ \A n \in 1 .. taken[j] : n \in Held(j) \/ Coming(j, n)
        /\ \A s \in secs[j] : (\A t \in secs[j] : s <= t) => Begins(j, s)
    BY <2>1 DEF CardInv, NothingMissing
  <2>3. j # k => now \notin secs[j]
    BY <1>2, <1>6, <1>9, <2>0 DEF Alone
(* No place of this image is written over. *)
  <2>4. ASSUME NEW s \in Seconds, NEW i \in Places(j, s)
        PROVE  i \in DOMAIN files'[s] /\ files'[s][i] = files[s][i]
    <3>1. i \in DOMAIN files[s] /\ files[s][i].image = j
      BY DEF Places
    <3>2. CASE s # now
      BY <1>9, <3>1, <3>2
    <3>3. CASE s = now
      <4>1. j = k
        <5>1. s \in secs[j]
          BY <2>0, <3>1 DEF CardInv, BytesPlaced
        <5>2. QED
          BY <2>3, <3>3, <5>1
      <4>2. ~p.isFirst
        BY <1>14, <4>1
      <4>3. i \in DOMAIN f \ New
        BY <1>4, <3>1, <3>3, <4>2 DEF f, New, o
      <4>4. QED
        BY <1>5, <1>9, <3>3, <4>3 DEF f
    <3>4. QED
      BY <3>2, <3>3
  <2>5. \A n : n \in Held(j) => n \in Held(j)'
    <3> SUFFICES ASSUME NEW s \in Seconds, NEW i \in Places(j, s)
                 PROVE  files[s][i].num \in Held(j)'
      BY DEF Held
    <3>1. i \in Places(j, s)' /\ files'[s][i].num = files[s][i].num
      BY <2>4 DEF Places
    <3>2. QED
      BY <3>1 DEF Held
  <2>6. ASSUME j = k, NEW n \in a .. b PROVE n \in Held(j)'
    <3> DEFINE i == o + (n - a) + 1
    <3>1. i \in New /\ a + (i - o) - 1 = n
      BY <1>6, <1>8 DEF New
    <3> HIDE DEF i
    <3>2. i \in DOMAIN r /\ r[i] = Byte(k, n)
      BY <1>5, <3>1
    <3>3. i \in Places(j, now)' /\ files'[now][i].num = n
      BY <1>2, <1>9, <1>11, <2>6, <3>2 DEF Places
    <3>4. QED
      BY <1>2, <1>3, <3>3 DEF Held
  <2>7. \A n \in 1 .. taken[j] : n \in Held(j)' \/ Coming(j, n)'
    BY <1>1, <2>2, <2>5, <2>6
  <2>8. ASSUME NEW s \in secs'[j], \A t \in secs'[j] : s <= t
        PROVE  Begins(j, s)'
    <3>1. CASE j # k
      <4>1. s \in secs[j] /\ s # now /\ Begins(j, s) /\ s \in Seconds
        BY <1>3, <1>9, <2>0, <2>2, <2>3, <2>8, <3>1
      <4>2. QED
        BY <1>2, <1>9, <4>1 DEF Begins
    <3>2. CASE j = k /\ p.isFirst
      <4>1. s = now /\ a = 1 /\ o = 0 /\ b = Lesser(Chunk, taken[k])
        BY <1>1, <1>6, <1>9, <1>14, <3>2 DEF o
      <4>2. \A i \in 1 .. b : i \in New /\ a + (i - o) - 1 = i
        BY <1>6, <4>1 DEF New
      <4>3. \A i \in 1 .. b : i \in DOMAIN r /\ r[i] = Byte(k, i)
        BY <1>5, <4>2
      <4>4. QED
        BY <1>2, <1>9, <3>2, <4>1, <4>3 DEF Begins, Lesser
    <3>3. CASE j = k /\ ~p.isFirst
      <4>1. \E t \in Seconds : t \in secs[k] /\ t <= now
        <5>1. ~Coming(k, 1)'
          <6>1. ~(b < 1)
            BY <1>6
          <6>2. QED
            BY <1>1, <6>1
        <5>2. ~(1 \in a .. b)
          BY <1>6, <1>b, <3>3
        <5>3. ~Coming(k, 1)
          BY <1>1, <5>1, <5>2
        <5>4. 1 \in 1 .. taken[k]
          BY <1>0, <1>6, TakenSizes
        <5>5. 1 \in Held(k)
          BY <2>2, <3>3, <5>3, <5>4
        <5>6. QED
          BY <1>13, <5>5 DEF Held
      <4>2. s \in secs[k] /\ \A t \in secs[k] : s <= t
        <5>1. \A t \in secs[k] : s <= t
          BY <1>9, <2>8, <3>3
        <5>2. s \in Seconds
          BY <1>3, <1>7, <1>9, <3>3
        <5>3. CASE s = now
          <6>1. PICK t \in Seconds : t \in secs[k] /\ t <= now
            BY <4>1
          <6>2. s <= t
            BY <5>1, <6>1
          <6>3. s = t
            BY <1>3, <5>2, <5>3, <6>1, <6>2
          <6>4. QED
            BY <5>1, <6>1, <6>3
        <5>4. QED
          BY <1>9, <3>3, <5>1, <5>3
      <4>3. Begins(k, s) /\ s \in Seconds
        BY <1>3, <1>7, <2>2, <3>3, <4>2
      <4>4. ASSUME NEW i \in 1 .. Lesser(Chunk, taken[k])
            PROVE  i \in DOMAIN files'[s] /\ files'[s][i] = Byte(k, i)
        <5>1. i \in DOMAIN files[s] /\ files[s][i] = Byte(k, i)
          BY <4>3 DEF Begins
        <5>2. i \in Places(j, s)
          BY <3>3, <5>1 DEF Places, Byte
        <5>3. QED
          BY <2>4, <4>3, <5>1, <5>2
      <4>5. QED
        BY <1>2, <3>3, <4>4 DEF Begins, Lesser
    <3>4. QED
      BY <3>1, <3>2, <3>3
  <2>9. QED
    BY <2>7, <2>8
<1>20. QED
  BY <1>15, <1>16, <1>18, <1>19 DEF CardInv

LEMMA CardStep == CardTypes /\ CardTypes' /\ CardInv /\ [Next]_vars => CardInv'
<1> SUFFICES ASSUME CardTypes, CardTypes', CardInv, [Next]_vars PROVE CardInv'
  OBVIOUS
<1>0. /\ TypeOK /\ QueuesOK /\ PartsInv /\ now \in Seconds /\ now' \in Seconds /\ Seconds \subseteq Int
      /\ DOMAIN taken' \subseteq 1 .. MaxImages
  <2>1. taken' \in Seq(Sizes) /\ Len(taken') <= MaxImages /\ MaxImages \in Nat /\ now' \in Seconds
    BY ImageAssumption DEF CardTypes, TypeOK, Seconds, ImageAssumption
  <2>2. DOMAIN taken' \subseteq 1 .. MaxImages
    BY <2>1
  <2>3. Seconds \subseteq Int
    BY ImageAssumption DEF Seconds, ImageAssumption
  <2>4. QED
    BY <2>1, <2>2, <2>3 DEF CardTypes, TypeOK
<1>1. CASE UNCHANGED <<taken, left, evq, files, secs>> /\ now' \in {now, now + 1}
  <2>1. \A k, n : Coming(k, n)' <=> Coming(k, n)
    BY <1>1 DEF Coming, InCamera
  <2>2. now' >= now
    BY <1>0, <1>1
  <2>3. QED
    BY <1>0, <1>1, <2>1, <2>2, CardKept
<1>2. CASE TakeImage
  <2>1. \A k \in DOMAIN taken : k \in DOMAIN taken' /\ taken'[k] = taken[k]
    BY <1>0, <1>2, TakenStays
  <2>2. UNCHANGED <<files, secs, now>> /\ now' >= now
    BY <1>0, <1>2 DEF TakeImage
  <2>3. QED
    BY <1>0, <1>2, <2>1, <2>2, ComingTaken, CardKept
<1>3. CASE SendImageChunck
  <2>1. UNCHANGED <<taken, files, secs, now>> /\ now' >= now
    BY <1>0, <1>3 DEF SendImageChunck
  <2>2. QED
    BY <1>0, <1>3, <2>1, ComingSent, CardKept
<1>4. CASE HandleCameraData
  BY <1>4, CardHandle
<1>5. CASE AppNext /\ UNCHANGED devVars
  BY <1>1, <1>5 DEF devVars
<1>6. CASE UNCHANGED vars \/ Tick \/ Transmit
  BY <1>1, <1>6 DEF vars, devVars, Tick, Transmit
<1>7. QED
  BY <1>2, <1>3, <1>4, <1>5, <1>6 DEF Next, Device

LEMMA CardHolds == CardTypes /\ CardInv => FilesHoldImage
<1> SUFFICES ASSUME CardTypes, CardInv, NEW k \in DOMAIN taken, OnCard(k)
             PROVE  /\ Held(k) = 1 .. taken[k] /\ Ordered(k)
                    /\ \A s \in secs[k] : \A i \in DOMAIN files[s] : files[s][i].image \in {0, k}
                    /\ \A s \in secs[k] :
                         (\A t \in secs[k] : s <= t)
                           => \A i \in 1 .. Lesser(Chunk, taken[k]) : files[s][i] = Byte(k, i)
  BY DEF FilesHoldImage
<1>0. TypeOK /\ k \in 1 .. MaxImages /\ k # 0 /\ secs \in [1 .. MaxImages -> SUBSET Seconds]
      /\ taken[k] \in Nat
  <2>1. taken \in Seq(Sizes) /\ Len(taken) <= MaxImages /\ MaxImages \in Nat
    BY ImageAssumption DEF CardTypes, TypeOK, ImageAssumption
  <2>2. k \in 1 .. MaxImages /\ k # 0
    BY <2>1
  <2>3. TypeOK /\ secs \in [1 .. MaxImages -> SUBSET Seconds]
    BY DEF CardTypes, TypeOK
  <2>4. QED
    BY <2>2, <2>3, TakenSizes
<1>1. Alone(k) /\ (reading => k # Len(taken)) /\ \A i \in DOMAIN evq : evq[i].image # k
  BY DEF OnCard
<1>2. \A n : ~Coming(k, n)
  <2>1. InCamera(k) = {}
    <3>1. CASE k = Len(taken)
      <4>1. left = 0 /\ Last(taken) = taken[k]
        BY <1>0, <1>1, <3>1 DEF TypeOK, Last
      <4>2. \A z \in Nat : z - 0 + 1 .. z = {}
        OBVIOUS
      <4>3. QED
        BY <1>0, <4>1, <4>2 DEF InCamera
    <3>2. QED
      BY <3>1 DEF InCamera
  <2>2. QED
    BY <1>1, <2>1 DEF Coming
<1>3. Held(k) = 1 .. taken[k]
  <2>1. \A s \in Seconds : \A i \in Places(k, s) : files[s][i].num \in 1 .. taken[k]
    BY <1>0 DEF CardInv, BytesPlaced, Places
  <2>2. Held(k) \subseteq 1 .. taken[k]
    BY <2>1 DEF Held
  <2>3. 1 .. taken[k] \subseteq Held(k)
    BY <1>1, <1>2 DEF CardInv, NothingMissing
  <2>4. QED
    BY <2>2, <2>3
<1>4. Ordered(k)
  BY DEF CardInv
<1>5. ASSUME NEW s \in secs[k], NEW i \in DOMAIN files[s]
      PROVE  files[s][i].image \in {0, k}
  <2> DEFINE j == files[s][i].image
  <2>1. s \in Seconds
    BY <1>0
  <2>2. j # 0 => j \in DOMAIN taken /\ s \in secs[j]
    BY <2>1 DEF CardInv, BytesPlaced
  <2> HIDE DEF j
  <2>3. j # 0 => j = k
    BY <1>1, <2>2 DEF Alone
  <2>4. QED
    BY <2>3 DEF j
<1>6. \A s \in secs[k] : (\A t \in secs[k] : s <= t) => Begins(k, s)
  BY <1>1 DEF CardInv, NothingMissing
<1>7. QED
  BY <1>3, <1>4, <1>5, <1>6 DEF Begins

(***************************************************************************)
(* An image that shares its seconds with no other is on the card, whole,   *)
(* in order and each byte once, in the files of its seconds put together,  *)
(* for every size of images, parts and older files and every number of     *)
(* seconds: whatever is written over what an earlier run left behind.      *)
(***************************************************************************)
THEOREM CardCorrect == Spec => []FilesHoldImage
<1> DEFINE Inv == CardTypes /\ CardInv
<1>1. Init => Inv
  BY TypeInit, PartsInit, QueueInit, CardInit DEF CardTypes
<1>2. Inv /\ [Next]_vars => Inv'
  <2>1. CardTypes /\ [Next]_vars => CardTypes'
    BY TypeNext, PartsStep, QueueStep DEF CardTypes
  <2>2. QED
    BY <2>1, CardStep
<1>3. Inv => FilesHoldImage
  BY CardHolds
<1>4. QED
  BY <1>1, <1>2, <1>3, PTL DEF Spec

=============================================================================
