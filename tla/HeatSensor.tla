------------------------------ MODULE HeatSensor ------------------------------
(***************************************************************************)
(* The infrared sensor of the nRF52840 and of the data collector.          *)
(*                                                                         *)
(* sensors_module.c starts it on the module's thread (sensor_mlx90640.cpp, *)
(* init_mlx60940_internal()), while a work queue of its own reads a heat   *)
(* map every few seconds (read_heat_map()).  The sensor measures one       *)
(* subpage after the other on its own, half of the pixels each, and raises *)
(* a flag; a heat map is put together of two readings.                     *)
(*                                                                         *)
(* Every transfer on the I2C bus may fail.  The first heat map is read 20  *)
(* seconds after the start: the start has then ended, or never will.  When *)
(* the start has not found the device of the bus, that first transfer goes *)
(* through a null pointer: a fault, after which the microcontroller stays  *)
(* stopped or starts again.                                                *)
(*                                                                         *)
(* Not here: how temperatures are computed, and the module's queue, which  *)
(* is that of the module framework.                                        *)
(***************************************************************************)
EXTENDS MlxEeprom

CONSTANTS
  EEs,          (* what the EEPROM of a sensor may hold                    *)
  Controls,     (* what its control register may hold at power-up          *)
  Cycle,        (* CONFIG_HEAT_MAP_CYCLE, the interval at first            *)
  Intervals     (* the intervals that may be set, in seconds               *)

VARIABLES
  ee,           (* the EEPROM                                              *)
  control,      (* the control register 0x800D: mode, resolution, rate     *)
  chip,         (* the status register 0x8000: the subpage measured last,  *)
                (* and the flag of new data                                *)
  thread,       (* the module's thread: the step of the start it is at     *)
  device,       (* i2c_dev is not NULL                                     *)
  extracted,    (* params holds the calibration                            *)
  dataCheck,    (* I2CWrite(): what was read back last, a static           *)
  failed,       (* SENSORS_EVT_ERROR was sent for the start                *)
  interval,     (* heat_map_interval                                       *)
  work,         (* read_mlx90640_work: delayed, queued                     *)
  reader,       (* read_heat_map(): where it is, page, and the status read *)
  frame,        (* what mlx90640Frame[768..831] holds: the auxiliary data  *)
  map,          (* heat_map: with which auxiliary data a pixel was computed *)
  sent,         (* the heat map of the last SENSORS_EVT_HEAT_MAP_DATA_READY *)
  overrun       (* ghost: the sensor finished a subpage, of the two a map  *)
                (* is made of, before the flag of another was cleared      *)

threadVars == <<thread, device, extracted, failed>>
readVars == <<reader, frame, map, overrun>>
vars == <<ee, control, chip, threadVars, dataCheck, interval, work, readVars, sent>>

(* The steps of the start, each with the one that follows it. *)
Following ==
  [I2CInit |-> "serial", serial |-> "dump", dump |-> "extract",
   extract |-> "SetChessMode", SetChessMode |-> "SetResolution",
   SetResolution |-> "SetRefreshRate", SetRefreshRate |-> "ready"]

Places == {"idle", "poll", "clear", "read", "notify", "fault"}
Registers == [mode : 0 .. 1, resolution : 0 .. 3, rate : 0 .. 7]

(* A value of heat_map: not computed, it is what was in the memory; or it  *)
(* is computed with auxiliary data of the same reading, of the reading     *)
(* before, or with what was on the stack.                                  *)
Aux == {"own", "kept", "stack"}
NoMap == [p \in Pixels |-> "unwritten"]

ASSUME SensorAssumption ==
  /\ EEs \subseteq Eeprom
  /\ Controls \subseteq Registers
  /\ Cycle \in Nat \ {0}
  /\ Intervals \subseteq Nat

(* What dataCheck holds before the first write. *)
Zero == [mode |-> 0, resolution |-> 0, rate |-> 0]

-----------------------------------------------------------------------------
(* The start, on the module's thread *)

(* MODULE_STATE_READY of main: the first heat map is due in 20 seconds. *)
Start ==
  /\ thread = "init"
  /\ thread' = "I2CInit"
  /\ work' = [work EXCEPT !.delayed = TRUE]
  /\ UNCHANGED <<ee, control, chip, device, extracted, failed, dataCheck, interval, readVars,
                 sent>>

(* A step fails: the module tells, and is ready all the same. *)
GiveUp ==
  /\ thread' = "ready"
  /\ failed' = TRUE

(* MLX90640_I2CInit(): there is such a device, or there is none. *)
FindDevice ==
  /\ thread = "I2CInit"
  /\ \/ device' = TRUE /\ thread' = Following[thread] /\ UNCHANGED failed
     \/ UNCHANGED device /\ GiveUp
  /\ UNCHANGED <<ee, control, chip, extracted, dataCheck, interval, work, readVars, sent>>

(* The serial number is read, and the EEPROM. *)
Initialize ==
  /\ thread \in {"serial", "dump"}
  /\ \/ thread' = Following[thread] /\ UNCHANGED failed
     \/ GiveUp
  /\ UNCHANGED <<ee, control, chip, device, extracted, dataCheck, interval, work, readVars, sent>>

(* A warning of ExtractDeviatingPixels() is taken for a failure. *)
ExtractParameters ==
  /\ thread = "extract"
  /\ \/ /\ Endless(ee)
        /\ thread' = "endless"
        /\ UNCHANGED <<extracted, failed>>
     \/ /\ ~Endless(ee)
        /\ extracted' = TRUE
        /\ IF DeviatingPixels(ee) = 0
           THEN thread' = Following[thread] /\ UNCHANGED failed
           ELSE GiveUp
  /\ UNCHANGED <<ee, control, chip, device, dataCheck, interval, work, readVars, sent>>

(* The register with the bits a step sets. *)
With(step) ==
  CASE step = "SetChessMode" -> [control EXCEPT !.mode = 1]
    [] step = "SetResolution" -> [control EXCEPT !.resolution = 2]
    [] step = "SetRefreshRate" -> [control EXCEPT !.rate = 2]

(***************************************************************************)
(* The register is read, changed and written, and read back to compare.    *)
(* When only that last reading fails, what an earlier one left is compared *)
(* in its place.                                                           *)
(***************************************************************************)
Configure ==
  /\ thread \in {"SetChessMode", "SetResolution", "SetRefreshRate"}
  /\ \/ UNCHANGED <<control, dataCheck>> /\ GiveUp
     \/ /\ control' = With(thread)
        /\ dataCheck' \in {dataCheck, control'}
        /\ IF dataCheck' = control'
           THEN thread' = Following[thread] /\ UNCHANGED failed
           ELSE GiveUp
  /\ UNCHANGED <<ee, chip, device, extracted, interval, work, readVars, sent>>

(* SENSORS_EVT_SET_INTERVAL: a heat map at once, and then at that interval. *)
SetInterval ==
  /\ thread = "ready"
  /\ reader.at # "fault"
  /\ interval' \in Intervals
  /\ work' = [delayed |-> FALSE, queued |-> TRUE]
  /\ UNCHANGED <<ee, control, chip, threadVars, dataCheck, readVars, sent>>

-----------------------------------------------------------------------------
(* The sensor *)

(* A reading has begun of the two that make a map, and the other has not. *)
BetweenPages ==
  \/ reader.page = 0 /\ reader.at \in {"clear", "read"}
  \/ reader.page = 1 /\ reader.at = "poll"

Measure ==
  /\ chip' = [subpage |-> 1 - chip.subpage, fresh |-> TRUE]
  /\ overrun' = (overrun \/ (chip.fresh /\ BetweenPages))
  /\ UNCHANGED <<ee, control, threadVars, dataCheck, interval, work, reader, frame, map, sent>>

-----------------------------------------------------------------------------
(* The work queue of the sensor *)

(* The delay is over; the start has ended by then, or never will. *)
Due ==
  /\ work.delayed
  /\ thread \in {"ready", "endless"}
  /\ reader.at # "fault"
  /\ work' = [delayed |-> FALSE, queued |-> TRUE]
  /\ UNCHANGED <<ee, control, chip, threadVars, dataCheck, interval, readVars, sent>>

(* Between two heat maps; page, status and frame are local variables. *)
Idle == [at |-> "idle", page |-> 0, status |-> 0, ok |-> TRUE]

At(place) == reader' = [reader EXCEPT !.at = place]

(* goto end, with a size of zero. *)
End == reader' = [reader EXCEPT !.at = "notify", !.ok = FALSE]

(* A heat map is allocated, or there is no memory for it. *)
ReadHeatMap ==
  /\ reader.at = "idle"
  /\ work.queued
  /\ work' = [work EXCEPT !.queued = FALSE]
  /\ End \/ At("poll")
  /\ UNCHANGED <<ee, control, chip, threadVars, dataCheck, interval, frame, map, overrun, sent>>

(* The first transfer of the attempt, when there is no device. *)
Fault ==
  /\ reader.at = "poll"
  /\ ~device
  /\ At("fault")
  /\ UNCHANGED <<ee, control, chip, threadVars, dataCheck, interval, work, frame, map, overrun, sent>>

(* Mutant of Poll: the flag is not looked at. *)
PollOnce ==
  /\ reader.at = "poll"
  /\ device
  /\ \/ End
     \/ reader' = [reader EXCEPT !.at = "clear", !.status = chip.subpage]
  /\ UNCHANGED <<ee, control, chip, threadVars, dataCheck, interval, work, frame, map, overrun, sent>>

(* The status is read until the flag is up. *)
Poll ==
  /\ reader.at = "poll"
  /\ device
  /\ \/ End
     \/ /\ chip.fresh
        /\ reader' = [reader EXCEPT !.at = "clear", !.status = chip.subpage]
  /\ UNCHANGED <<ee, control, chip, threadVars, dataCheck, interval, work, frame, map, overrun, sent>>

(* The flag is cleared.  What is read back (to dataCheck, which nothing    *)
(* looks at once the start is over) may be otherwise: that is no error.    *)
Clear ==
  /\ reader.at = "clear"
  /\ \/ End /\ UNCHANGED chip
     \/ At("read") /\ chip' = [chip EXCEPT !.fresh = FALSE]
  /\ UNCHANGED <<ee, control, threadVars, dataCheck, interval, work, frame, map, overrun, sent>>

(* CalculateTo(): the pixels of the subpage, with auxiliary data aux. *)
CalculateTo(aux) ==
  map' = [p \in Pixels |-> IF Pattern(control.mode, p) = reader.status THEN aux ELSE map[p]]

(***************************************************************************)
(* The frame, the auxiliary data and the control register are read; a      *)
(* frame with pixels not measured is refused, auxiliary data that is not   *)
(* good is not, and the frame keeps what it had.                           *)
(***************************************************************************)
ReadPage ==
  /\ reader.at = "read"
  /\ frame' \in {"own", IF frame = "own" THEN "kept" ELSE frame}
  /\ \/ End /\ UNCHANGED map
     \/ /\ CalculateTo(frame')
        /\ reader' = IF reader.page = 0
                     THEN [reader EXCEPT !.at = "poll", !.page = 1]
                     ELSE [reader EXCEPT !.at = "notify"]
  /\ UNCHANGED <<ee, control, chip, threadVars, dataCheck, interval, work, overrun, sent>>

(* Mutant of Notify: a heat map that failed is not followed by another. *)
NotifyNoRetry ==
  /\ reader.at = "notify"
  /\ reader' = Idle
  /\ sent' = IF reader.ok THEN [map |-> map, torn |-> overrun] ELSE sent
  /\ work' = [work EXCEPT !.delayed = @ \/ (reader.ok /\ interval > 0),
                          !.queued = @ \/ (reader.ok /\ interval = 0)]
  /\ frame' = "stack" /\ map' = NoMap /\ overrun' = FALSE
  /\ UNCHANGED <<ee, control, chip, threadVars, dataCheck, interval>>

(***************************************************************************)
(* The heat map is sent as an event, or an error is; it is freed, and the  *)
(* next one is due after the interval.                                     *)
(***************************************************************************)
Notify ==
  /\ reader.at = "notify"
  /\ reader' = Idle
  /\ sent' = IF reader.ok THEN [map |-> map, torn |-> overrun] ELSE sent
  /\ work' = [work EXCEPT !.delayed = (interval > 0),
                          !.queued = @ \/ interval = 0]
  /\ frame' = "stack" /\ map' = NoMap /\ overrun' = FALSE
  /\ UNCHANGED <<ee, control, chip, threadVars, dataCheck, interval>>

-----------------------------------------------------------------------------
Init ==
  /\ ee \in EEs
  /\ control \in Controls
  /\ chip = [subpage |-> 0, fresh |-> FALSE]
  /\ thread = "init"
  /\ device = FALSE /\ extracted = FALSE /\ failed = FALSE
  /\ dataCheck = Zero
  /\ interval = Cycle
  /\ work = [delayed |-> FALSE, queued |-> FALSE]
  /\ reader = Idle
  /\ frame = "stack"
  /\ map = NoMap
  /\ sent = [map |-> [p \in Pixels |-> "own"], torn |-> FALSE]
  /\ overrun = FALSE

(* The microcontroller starts again after a fault; the sensor has gone on. *)
Restart ==
  /\ reader.at = "fault"
  /\ thread' = "init"
  /\ device' = FALSE /\ extracted' = FALSE /\ failed' = FALSE
  /\ dataCheck' = Zero
  /\ interval' = Cycle
  /\ work' = [delayed |-> FALSE, queued |-> FALSE]
  /\ reader' = Idle
  /\ UNCHANGED <<ee, control, chip, frame, map, overrun, sent>>

ModuleThread == Start \/ FindDevice \/ Initialize \/ ExtractParameters \/ Configure
WorkQueue == ReadHeatMap \/ Fault \/ Poll \/ Clear \/ ReadPage \/ Notify

Next == ModuleThread \/ SetInterval \/ Measure \/ Due \/ WorkQueue \/ Restart

Spec == Init /\ [][Next]_vars

(***************************************************************************)
(* The threads are scheduled, time passes, and the sensor measures.  What  *)
(* has stopped with a fault need not start again.                          *)
(***************************************************************************)
FairSpec ==
  /\ Spec
  /\ WF_vars(ModuleThread) /\ WF_vars(WorkQueue)
  /\ WF_vars(Due) /\ WF_vars(Measure)

-----------------------------------------------------------------------------
(* Properties *)

TypeOK ==
  /\ ee \in Eeprom
  /\ control \in Registers
  /\ chip \in [subpage : 0 .. 1, fresh : BOOLEAN]
  /\ thread \in {"init", "endless", "ready"} \union DOMAIN Following
  /\ device \in BOOLEAN /\ extracted \in BOOLEAN /\ failed \in BOOLEAN
  /\ interval \in Nat
  /\ work \in [delayed : BOOLEAN, queued : BOOLEAN]
  /\ reader \in [at : Places, page : 0 .. 1, status : 0 .. 1, ok : BOOLEAN]
  /\ frame \in Aux
  /\ map \in [Pixels -> Aux \union {"unwritten"}]
  /\ sent \in [map : [Pixels -> Aux \union {"unwritten"}], torn : BOOLEAN]
  /\ overrun \in BOOLEAN

(***************************************************************************)
(* The two readings of a heat map are of the two subpages, and every pixel *)
(* of a map that is sent has been computed, unless the sensor finished a   *)
(* subpage before the flag of the one before was cleared (read_heat_map(), *)
(* MLX90640_GetFrameData()).                                               *)
(***************************************************************************)
MapIsWhole == sent.torn \/ \A p \in Pixels : sent.map[p] # "unwritten"

(***************************************************************************)
(* Once the start has ended without an error, the sensor is configured as  *)
(* asked, its calibration has been read, and every deviating pixel of its  *)
(* EEPROM is known, each with good neighbours (init_mlx60940_internal(),   *)
(* ExtractDeviatingPixels(), MLX90640_I2CWrite()).                         *)
(***************************************************************************)
ReadyMeansUsable ==
  thread = "ready" /\ ~failed =>
    /\ control = [mode |-> 1, resolution |-> 2, rate |-> 2]
    /\ extracted
    /\ DefectsKnown(ee)

(* The fault of a bus that was not found comes after its absence was told. *)
FaultIsTold == reader.at = "fault" => thread = "ready" /\ failed

(***************************************************************************)
(* Once the device of the bus is found, heat maps are tried for ever,      *)
(* whatever fails and whatever intervals are set: each attempt ends in an  *)
(* event and is followed by another.  Without the device the first attempt *)
(* is a fault, but not before the module has told: the work item is        *)
(* scheduled before the device is looked for (init_mlx60940(),             *)
(* read_heat_map(), MLX90640_I2CInit()).                                   *)
(***************************************************************************)
HeatCycles ==
  /\ []<>(device => reader.at = "idle")
  /\ []<>(device => reader.at = "notify")
  /\ []FaultIsTold
=============================================================================
