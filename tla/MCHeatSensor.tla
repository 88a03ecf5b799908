---------------------------- MODULE MCHeatSensor ----------------------------
(***************************************************************************)
(* A sensor of two lines of four pixels: none to five of them broken or    *)
(* outliers, apart, corner to corner, at the end of a line and the start   *)
(* of the next, and an EEPROM without the coefficients of the supply       *)
(* voltage, on which the start never ends.                                 *)
(***************************************************************************)
EXTENDS HeatSensor

(* Words like those of a sensor; the pixels deviate where told. *)
Header(i) ==
  CASE i = 16 -> 16960 [] i = 17 -> 65486 [] i = 32 -> 30874 [] i = 33 -> 11830
    [] i = 52 -> 21060 [] i = 54 -> 21060 [] i = 55 -> 17989 [] i = 56 -> 9044
    [] i = 57 -> 400 [] i = 60 -> 1536
    [] OTHER -> 0

Sensor(broken, outliers) ==
  [i \in 0 .. 71 |->
     IF i < 64 THEN Header(i)
     ELSE IF i - 64 \in broken THEN 0
     ELSE IF i - 64 \in outliers THEN 1123 ELSE 1122]

Blank == [Sensor({}, {}) EXCEPT ![52] = 0]

MCEEs ==
  {Sensor({}, {}), Sensor({0}, {6}), Sensor({0}, {5}), Sensor({3, 4}, {}),
   Sensor({0, 1, 3, 5, 7}, {}), Sensor({0, 2}, {1, 5, 7}), Blank}

MCControls ==
  {[mode |-> 1, resolution |-> 2, rate |-> 2], [mode |-> 0, resolution |-> 3, rate |-> 5]}
=============================================================================
