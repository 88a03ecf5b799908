------------------------------ MODULE MlxEeprom ------------------------------
(***************************************************************************)
(* How MLX90640_API.cpp reads the calibration of the infrared sensor out   *)
(* of its EEPROM: ee[0] .. ee[63] hold fields of a few bits, many of them  *)
(* signed, and ee[64 + p] those of pixel p.                                *)
(*                                                                         *)
(* A float whose denominator is fixed is kept as its numerator, and the    *)
(* denominator is named beside it.  The library has Rows = 24, Cols = 32.  *)
(*                                                                         *)
(* Not here: alpha[] after its scaling by floats, and functions nothing    *)
(* calls (GetImage, BadPixelsCorrection, GetMedian, IsPixelBad,            *)
(* SynchFrame, TriggerMeasurement, SetInterleavedMode).                    *)
(***************************************************************************)
EXTENDS Integers, FiniteSets

CONSTANTS
  Rows,         (* lines of pixels                                         *)
  Cols          (* pixels of a line                                        *)

ASSUME GridAssumption ==
  /\ Rows \in 1 .. 24
  /\ Cols \in 3 .. 32

Pixels == 0 .. Rows * Cols - 1
Word == {w \in Nat : w < 65536}
Eeprom == [0 .. 63 + Rows * Cols -> Word]

-----------------------------------------------------------------------------
(* Fields of a word *)

(* (w & mask) >> shift: "unit" is 2^shift, "size" 2 to the bits of the field. *)
Bits(w, unit, size) == (w \div unit) % size

(* v - size if v is more than size / 2 - 1; also what a store does to it. *)
Signed(v, size) ==
  IF v % size < size \div 2 THEN v % size ELSE (v % size) - size

Field(w, unit, size) == Signed(Bits(w, unit, size), size)

-----------------------------------------------------------------------------
(* Pixels *)

(* Each line, or each square of a chess board, belongs to one subpage. *)
IlPattern(p) == (p \div Cols) % 2
ChessPattern(p) == (IlPattern(p) + p) % 2

Pattern(mode, p) == IF mode = 0 THEN IlPattern(p) ELSE ChessPattern(p)

(* The class of a pixel: even or odd line, even or odd column. *)
Split(p) == 2 * IlPattern(p) + (p % 2)

PixelWord(ee, p) == ee[64 + p]

(* Four bits for each line or column, four in a word from word "first" on. *)
Acc(ee, first, i) == Field(ee[first + i \div 4], 16^(i % 4), 16)

-----------------------------------------------------------------------------
(* The fields that hold for all pixels *)

VDDParameters(ee) ==
  [kVdd |-> 32 * Field(ee[51], 256, 256),
   vdd25 |-> (Bits(ee[51], 1, 256) - 256) * 32 - 8192]

PTATParameters(ee) ==
  [KvPTAT |-> Field(ee[50], 1024, 64),             (* in 1/4096 *)
   KtPTAT |-> Field(ee[50], 1, 1024),             (* in 1/8    *)
   vPTAT25 |-> ee[49],
   alphaPTAT |-> Bits(ee[16], 4096, 16) + 32]      (* in 1/4    *)

GainParameters(ee) == [gainEE |-> Signed(ee[48], 65536)]
TgcParameters(ee) == [tgc |-> Field(ee[60], 1, 256)]              (* in 1/32   *)
ResolutionParameters(ee) == [resolutionEE |-> Bits(ee[56], 4096, 4)]
KsTaParameters(ee) == [KsTa |-> Field(ee[60], 256, 256)]            (* in 1/8192 *)

(* Four ranges of temperature, and the slope in each, in 1 / 2^ksToScale. *)
KsToParameters(ee) ==
  LET step == 10 * Bits(ee[63], 4096, 4)
      ct2 == step * Bits(ee[63], 16, 16)
  IN  [ct |-> <<-40, 0, ct2, ct2 + step * Bits(ee[63], 256, 16), 400>>,
       ksToScale |-> Bits(ee[63], 1, 16) + 8,
       ksTo |-> <<Field(ee[61], 1, 256), Field(ee[61], 256, 256),
                  Field(ee[62], 1, 256), Field(ee[62], 256, 256)>>]

(* The pixels that compensate: alpha in 1 / 2^alphaScale, and the second's *)
(* as the first's times 1 + ratio / 128.                                   *)
CPParameters(ee) ==
  LET offset == Field(ee[58], 1, 1024)
  IN  [cpAlphaScale |-> Bits(ee[32], 4096, 16) + 27,
       cpAlpha |-> Field(ee[57], 1, 1024),
       cpRatio |-> Field(ee[57], 1024, 64),
       cpOffset |-> <<offset, offset + Field(ee[58], 1024, 64)>>,
       cpKta |-> Field(ee[59], 1, 256), cpKtaScale |-> Bits(ee[56], 16, 16) + 8,
       cpKv |-> Field(ee[59], 256, 256), cpKvScale |-> Bits(ee[56], 256, 16)]

(* In 1/16, 1/2 and 1/8; the mode is that of bit 12 of the control register. *)
CILCParameters(ee) ==
  [calibrationModeEE |-> 1 - Bits(ee[10], 2048, 2),
   ilChessC |-> <<Field(ee[53], 1, 64), Field(ee[53], 64, 32), Field(ee[53], 2048, 32)>>]

-----------------------------------------------------------------------------
(* The fields of each pixel *)

(* In 1 / 2^(alphaScale + 10) with alphaScale as in the EEPROM, plus 30. *)
Sensitivity(ee, p) ==
  LET ref == ee[33]
             + Acc(ee, 34, p \div Cols) * 2^Bits(ee[32], 256, 16)
             + Acc(ee, 40, p % Cols) * 2^Bits(ee[32], 16, 16)
             + Field(PixelWord(ee, p), 16, 64) * 2^Bits(ee[32], 1, 16)
      cp == CPParameters(ee)
  IN  1024 * ref - TgcParameters(ee).tgc * cp.cpAlpha * (256 + cp.cpRatio)

(* The sum that is stored to an int16_t. *)
OffsetSum(ee, p) ==
  Signed(ee[17], 65536)
  + Acc(ee, 18, p \div Cols) * 2^Bits(ee[16], 256, 16)
  + Acc(ee, 24, p % Cols) * 2^Bits(ee[16], 16, 16)
  + Field(PixelWord(ee, p), 1024, 64) * 2^Bits(ee[16], 1, 16)

OffsetParameters(ee) == [p \in Pixels |-> Signed(OffsetSum(ee, p), 65536)]

(* KtaRC[] and KvT[], by class of the pixel. *)
KtaRC(ee) ==
  [s \in 0 .. 3 |-> Field(IF s % 2 = 0 THEN ee[54] ELSE ee[55], IF s < 2 THEN 256 ELSE 1, 256)]
KvT(ee) ==
  [s \in 0 .. 3 |-> Field(ee[52], CASE s = 0 -> 4096 [] s = 1 -> 16 [] s = 2 -> 256 [] s = 3 -> 1, 16)]

(* In 1 / KtaUnit(ee) and 1 / KvUnit(ee). *)
KtaTemp(ee, p) ==
  KtaRC(ee)[Split(p)] + Field(PixelWord(ee, p), 2, 8) * 2^Bits(ee[56], 1, 16)
KvTemp(ee, p) == KvT(ee)[Split(p)]

KtaUnit(ee) == 2^(Bits(ee[56], 16, 16) + 8)
KvUnit(ee) == 2^Bits(ee[56], 256, 16)

(***************************************************************************)
(* The largest of the pixels' values is doubled until it reaches a limit,  *)
(* to find the scale all are stored with: for ever, if no value is more    *)
(* than zero or, of kta[] and kv[], other than zero.                       *)
(***************************************************************************)
Endless(ee) ==
  \/ \A p \in Pixels : Sensitivity(ee, p) < 0
  \/ \A p \in Pixels : KtaTemp(ee, p) = 0
  \/ \A p \in Pixels : KvTemp(ee, p) = 0

(* num / unit, doubled n times, has reached 63.4, with either sign. *)
Reaches(num, unit, n) == 10 * num * 2^n >= 634 * unit \/ -10 * num * 2^n >= 634 * unit

(* ktaScale and kvScale: how often the largest value is doubled. *)
Doublings(values, unit) ==
  CHOOSE n \in 0 .. 30 :
    /\ \E p \in Pixels : Reaches(values[p], unit, n)
    /\ n > 0 => \A p \in Pixels : ~Reaches(values[p], unit, n - 1)

(* num / unit and 0.5 away from zero, cut off; to be stored to an int8_t. *)
Rounded(num, unit) ==
  IF num >= 0 THEN (2 * num + unit) \div (2 * unit) ELSE -((unit - 2 * num) \div (2 * unit))

Scaled(values, unit) ==
  [p \in Pixels |-> Rounded(values[p] * 2^Doublings(values, unit), unit)]

KtaParameters(ee) == Scaled([p \in Pixels |-> KtaTemp(ee, p)], KtaUnit(ee))
KvParameters(ee) == Scaled([p \in Pixels |-> KvTemp(ee, p)], KvUnit(ee))

-----------------------------------------------------------------------------
(* Widths *)

(* The types of integers in paramsMLX90640. *)
Int8 == -128 .. 127
UInt8 == 0 .. 255
Int16 == {v \in Int : -32768 <= v /\ v <= 32767}

(* The fields that hold for all pixels are what is stored of them. *)
SharedParametersFit(ee) ==
  /\ VDDParameters(ee) \in [kVdd : Int16, vdd25 : Int16]
  /\ PTATParameters(ee).vPTAT25 \in Word
  /\ GainParameters(ee) \in [gainEE : Int16]
  /\ ResolutionParameters(ee) \in [resolutionEE : UInt8]
  /\ \A i \in 1 .. 5 : KsToParameters(ee).ct[i] \in Int16
  /\ CPParameters(ee).cpAlphaScale \in UInt8
  /\ \A i \in 1 .. 2 : CPParameters(ee).cpOffset[i] \in Int16
  /\ CILCParameters(ee).calibrationModeEE \in 0 .. 1

(* And so are those of each pixel, of which offset[] would wrap and the    *)
(* conversion to kta[] and kv[] be undefined.  alpha[] is left out.        *)
PixelParametersFit(ee) ==
  \A p \in Pixels :
    /\ OffsetSum(ee, p) \in Int16
    /\ KtaParameters(ee)[p] \in Int8
    /\ KvParameters(ee)[p] \in Int8

-----------------------------------------------------------------------------
(* Deviating pixels *)

BrokenIn(ee) == {p \in Pixels : PixelWord(ee, p) = 0}
OutliersIn(ee) == {p \in Pixels : PixelWord(ee, p) # 0 /\ PixelWord(ee, p) % 2 = 1}

Before(S, p) == {q \in S : q < p}

(* The pixels looked at: the search ends with five of a kind. *)
Scanned(ee) ==
  {p \in Pixels : /\ Cardinality(Before(BrokenIn(ee), p)) < 5
                  /\ Cardinality(Before(OutliersIn(ee), p)) < 5}

BrokenPixels(ee) == BrokenIn(ee) \intersect Scanned(ee)
OutlierPixels(ee) == OutliersIn(ee) \intersect Scanned(ee)

(* Mutant of CheckAdjacentPixels: the line below is compared without the   *)
(* pixel to its right.                                                     *)
CheckAdjacentPixelsShort(p, q) ==
  \/ p - q > -(Cols + 1) /\ p - q < -(Cols - 2)
  \/ p - q > -2 /\ p - q < 2
  \/ p - q > Cols - 2 /\ p - q < Cols + 1

(* Returns -6. *)
CheckAdjacentPixels(p, q) ==
  \/ p - q > -(Cols + 2) /\ p - q < -(Cols - 2)
  \/ p - q > -2 /\ p - q < 2
  \/ p - q > Cols - 2 /\ p - q < Cols + 2

DeviatingPixels(ee) ==
  LET found == BrokenPixels(ee) \union OutlierPixels(ee)
  IN  CASE Cardinality(BrokenPixels(ee)) > 4 -> -3
        [] Cardinality(BrokenPixels(ee)) <= 4 /\ Cardinality(OutlierPixels(ee)) > 4 -> -4
        [] Cardinality(BrokenPixels(ee)) <= 4 /\ Cardinality(OutlierPixels(ee)) <= 4 ->
             IF Cardinality(BrokenPixels(ee)) + Cardinality(OutlierPixels(ee)) > 4 THEN -5
             ELSE IF \E p, q \in found : p < q /\ CheckAdjacentPixels(p, q) THEN -6 ELSE 0

(***************************************************************************)
(* What the list of deviating pixels is for, BadPixelsCorrection(), takes  *)
(* the neighbours of a pixel for good: at most four deviate, all of them   *)
(* are listed, and no two touch, by a side or by a corner.                 *)
(***************************************************************************)
Touch(p, q) ==
  /\ p # q
  /\ (p \div Cols) - (q \div Cols) \in -1 .. 1
  /\ (p % Cols) - (q % Cols) \in -1 .. 1

DefectsKnown(ee) ==
  /\ BrokenPixels(ee) = BrokenIn(ee)
  /\ OutlierPixels(ee) = OutliersIn(ee)
  /\ Cardinality(BrokenIn(ee)) + Cardinality(OutliersIn(ee)) <= 4
  /\ \A p, q \in BrokenIn(ee) \union OutliersIn(ee) : ~Touch(p, q)
=============================================================================
