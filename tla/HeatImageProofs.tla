-------------------------- MODULE HeatImageProofs --------------------------
(***************************************************************************)
(* How a heat map is made, and how it is compressed: what holds of the     *)
(* infrared sensor for every EEPROM, every size of the sensor and every    *)
(* interval, and of the string matcher of the PNG encoder for all data and *)
(* all settings.                                                           *)
(***************************************************************************)
EXTENDS HeatSensor, Matcher, FiniteSetTheorems, SequenceTheorems, WellFoundedInduction, TLAPS

(* A set of natural numbers that is not empty has a least element: what    *)
(* holds of all of them is proved of the first that it would not hold of.  *)
LEMMA LeastElement ==
  ASSUME NEW S \in SUBSET Nat, S # {}
  PROVE  \E m \in S : \A q \in S : m <= q
<1>1. PICK m \in S : \A q \in S : ~ (<<q, m>> \in OpToRel(<, Nat))
  BY WFMin, NatLessThanWellFounded
<1>2. \A q \in S : ~ (q < m)
  BY <1>1 DEF OpToRel
<1>3. QED
  BY <1>2

-----------------------------------------------------------------------------
(* The fields of the EEPROM *)

LEMMA WordBounds ==
  ASSUME NEW w \in Word
  PROVE  /\ Bits(w, 1, 256) \in 0 .. 255 /\ Bits(w, 4096, 4) \in 0 .. 3
         /\ Bits(w, 16, 16) \in 0 .. 15 /\ Bits(w, 256, 16) \in 0 .. 15
         /\ Bits(w, 4096, 16) \in 0 .. 15 /\ Bits(w, 2048, 2) \in 0 .. 1
         /\ Field(w, 256, 256) \in -128 .. 127
         /\ Field(w, 1, 1024) \in -512 .. 511
         /\ Field(w, 1024, 64) \in -32 .. 31
         /\ Signed(w, 65536) \in Int16
<1>1. /\ Bits(w, 1, 256) \in 0 .. 255 /\ Bits(w, 4096, 4) \in 0 .. 3
      /\ Bits(w, 16, 16) \in 0 .. 15 /\ Bits(w, 256, 16) \in 0 .. 15
      /\ Bits(w, 4096, 16) \in 0 .. 15 /\ Bits(w, 2048, 2) \in 0 .. 1
  BY DEF Word, Bits
<1>2. Field(w, 256, 256) \in -128 .. 127
  BY DEF Word, Bits, Field, Signed
<1>3. Field(w, 1, 1024) \in -512 .. 511
  BY DEF Word, Bits, Field, Signed
<1>4. Field(w, 1024, 64) \in -32 .. 31
  BY DEF Word, Bits, Field, Signed
<1>5. Signed(w, 65536) \in Int16
  <2>1. w \in Nat /\ w < 65536
    BY DEF Word
  <2>2. w % 65536 = w
    BY <2>1
  <2>3. 65536 \div 2 = 32768
    OBVIOUS
  <2>4. Signed(w, 65536) = IF w < 32768 THEN w ELSE w - 65536
    BY <2>1, <2>2, <2>3 DEF Signed
  <2>5. \A v \in Int : -32768 <= v /\ v <= 32767 => v \in Int16
    BY DEF Int16
  <2>6. CASE w < 32768
    BY <2>1, <2>4, <2>5, <2>6
  <2>7. CASE ~ (w < 32768)
    BY <2>1, <2>4, <2>5, <2>7
  <2>8. QED
    BY <2>6, <2>7
<1>6. QED
  BY <1>1, <1>2, <1>3, <1>4, <1>5

(* No field that holds for all pixels overflows the integer it is stored   *)
(* to, whatever the EEPROM holds (ExtractVDDParameters() and its likes).   *)
LEMMA SharedFit ==
  ASSUME NEW e \in Eeprom
  PROVE  SharedParametersFit(e)
<1> USE GridAssumption
<1>1. /\ e[10] \in Word /\ e[32] \in Word /\ e[48] \in Word /\ e[49] \in Word
      /\ e[51] \in Word /\ e[56] \in Word /\ e[58] \in Word /\ e[63] \in Word
  <2>1. \A i \in 0 .. 63 : i \in 0 .. 63 + Rows * Cols
    OBVIOUS
  <2>2. \A i \in 0 .. 63 : e[i] \in Word
    BY <2>1 DEF Eeprom
  <2>3. QED
    BY <2>2
<1>2. VDDParameters(e) \in [kVdd : Int16, vdd25 : Int16]
  <2> DEFINE k == Field(e[51], 256, 256)
             b == Bits(e[51], 1, 256)
  <2>1. k \in -128 .. 127 /\ b \in 0 .. 255
    BY <1>1, WordBounds
  <2>2. VDDParameters(e) = [kVdd |-> 32 * k, vdd25 |-> (b - 256) * 32 - 8192]
    BY DEF VDDParameters
  <2> HIDE DEF k, b
  <2>3. 32 * k \in Int16 /\ (b - 256) * 32 - 8192 \in Int16
    BY <2>1 DEF Int16
  <2>4. \A x, y \in Int16 : [kVdd |-> x, vdd25 |-> y] \in [kVdd : Int16, vdd25 : Int16]
    OBVIOUS
  <2>5. QED
    BY <2>2, <2>3, <2>4
<1>3. PTATParameters(e).vPTAT25 \in Word
  BY <1>1 DEF PTATParameters
<1>4. GainParameters(e) \in [gainEE : Int16]
  BY <1>1, WordBounds DEF GainParameters
<1>5. ResolutionParameters(e) \in [resolutionEE : UInt8]
  BY <1>1, WordBounds DEF ResolutionParameters, UInt8
<1>6. \A i \in 1 .. 5 : KsToParameters(e).ct[i] \in Int16
  <2> DEFINE s == Bits(e[63], 4096, 4)
             b == Bits(e[63], 16, 16)
             c == Bits(e[63], 256, 16)
  <2>1. s \in 0 .. 3 /\ b \in 0 .. 15 /\ c \in 0 .. 15
    BY <1>1, WordBounds
  <2>2. KsToParameters(e).ct = <<-40, 0, 10 * s * b, 10 * s * b + 10 * s * c, 400>>
    BY <2>1 DEF KsToParameters
  <2> HIDE DEF s, b, c
  <2>3. 10 * s * b \in 0 .. 450 /\ 10 * s * c \in 0 .. 450
    <3>1. s = 0 \/ s = 1 \/ s = 2 \/ s = 3
      BY <2>1
    <3>2. QED
      BY <2>1, <3>1
  <2>4. \A i \in 1 .. 5 : i = 1 \/ i = 2 \/ i = 3 \/ i = 4 \/ i = 5
    OBVIOUS
  <2> DEFINE x == 10 * s * b
             z == 10 * s * c
             y == x + z
  <2>5. x \in Int16 /\ y \in Int16
    <3>1. x \in 0 .. 450 /\ z \in 0 .. 450
      BY <2>3
    <3> HIDE DEF x, z
    <3>2. QED
      BY <3>1 DEF Int16
  <2>6. -40 \in Int16 /\ 0 \in Int16 /\ 400 \in Int16
    BY DEF Int16
  <2>7. KsToParameters(e).ct = <<-40, 0, x, y, 400>>
    BY <2>2
  <2> HIDE DEF x, y, z
  <2> DEFINE t == KsToParameters(e).ct
  <2>8. t[1] = -40 /\ t[2] = 0 /\ t[3] = x /\ t[4] = y /\ t[5] = 400
    BY <2>7
  <2> HIDE DEF t
  <2>9. \A i \in 1 .. 5 : t[i] \in Int16
    <3>1. t[1] \in Int16 /\ t[2] \in Int16 /\ t[3] \in Int16 /\ t[4] \in Int16 /\ t[5] \in Int16
      BY <2>5, <2>6, <2>8
    <3>2. QED
      BY <2>4, <3>1
  <2>10. QED
    BY <2>9 DEF t
<1>7. CPParameters(e).cpAlphaScale \in UInt8
  <2> DEFINE a == Bits(e[32], 4096, 16)
  <2>1. a \in 0 .. 15
    BY <1>1, WordBounds
  <2>2. CPParameters(e).cpAlphaScale = a + 27
    BY DEF CPParameters
  <2> HIDE DEF a
  <2>3. QED
    BY <2>1, <2>2 DEF UInt8
<1>8. \A i \in 1 .. 2 : CPParameters(e).cpOffset[i] \in Int16
  <2> DEFINE a == Field(e[58], 1, 1024)
             b == Field(e[58], 1024, 64)
  <2>1. a \in -512 .. 511 /\ b \in -32 .. 31
    BY <1>1, WordBounds
  <2>2. CPParameters(e).cpOffset = <<a, a + b>>
    BY DEF CPParameters
  <2> HIDE DEF a, b
  <2>3. a \in Int16 /\ a + b \in Int16
    BY <2>1 DEF Int16
  <2>4. \A i \in 1 .. 2 : i = 1 \/ i = 2
    OBVIOUS
  <2>5. QED
    BY <2>2, <2>3, <2>4
<1>9. CILCParameters(e).calibrationModeEE \in 0 .. 1
  <2> DEFINE a == Bits(e[10], 2048, 2)
  <2>1. a \in 0 .. 1
    BY <1>1, WordBounds
  <2>2. CILCParameters(e).calibrationModeEE = 1 - a
    BY DEF CILCParameters
  <2> HIDE DEF a
  <2>3. QED
    BY <2>1, <2>2
<1>10. QED
  BY <1>2, <1>3, <1>4, <1>5, <1>6, <1>7, <1>8, <1>9 DEF SharedParametersFit

-----------------------------------------------------------------------------
(* The fields of each pixel *)

(* The units that values of pixels may be in. *)
Units == {2^s : s \in 0 .. 23}

(* The powers of two: provers know them of a number, not of a variable. *)
LEMMA EachPower ==
  \A x \in Int :
     /\ (x = 0 => 2^x = 2^0) /\ (x = 1 => 2^x = 2^1) /\ (x = 2 => 2^x = 2^2)
     /\ (x = 3 => 2^x = 2^3) /\ (x = 4 => 2^x = 2^4) /\ (x = 5 => 2^x = 2^5)
     /\ (x = 6 => 2^x = 2^6) /\ (x = 7 => 2^x = 2^7) /\ (x = 8 => 2^x = 2^8)
     /\ (x = 9 => 2^x = 2^9) /\ (x = 10 => 2^x = 2^10) /\ (x = 11 => 2^x = 2^11)
     /\ (x = 12 => 2^x = 2^12) /\ (x = 13 => 2^x = 2^13) /\ (x = 14 => 2^x = 2^14)
     /\ (x = 15 => 2^x = 2^15) /\ (x = 16 => 2^x = 2^16) /\ (x = 17 => 2^x = 2^17)
     /\ (x = 18 => 2^x = 2^18) /\ (x = 19 => 2^x = 2^19) /\ (x = 20 => 2^x = 2^20)
     /\ (x = 21 => 2^x = 2^21) /\ (x = 22 => 2^x = 2^22) /\ (x = 23 => 2^x = 2^23)
     /\ (x = 24 => 2^x = 2^24) /\ (x = 25 => 2^x = 2^25) /\ (x = 26 => 2^x = 2^26)
     /\ (x = 27 => 2^x = 2^27) /\ (x = 28 => 2^x = 2^28) /\ (x = 29 => 2^x = 2^29)
     /\ (x = 30 => 2^x = 2^30)
BY Zenon

LEMMA Powers ==
  /\ \A s \in 0 .. 30 : 2^s \in Nat \ {0}
  /\ \A s \in 1 .. 30 : 2^s = 2 * 2^(s - 1)
  /\ \A u \in Units : u \in Nat \ {0} /\ 634 * u <= 10 * 2^30
<1>1. \A s \in 0 .. 30 : 2^s \in Nat \ {0}
  BY EachPower, SMT
<1>2. \A s \in 1 .. 30 : 2^s = 2 * 2^(s - 1)
  BY EachPower, SMT
<1>3. \A s \in 0 .. 23 : 634 * 2^s <= 10 * 2^30
  BY EachPower, SMT
<1>4. QED
  BY <1>1, <1>2, <1>3, SMT DEF Units

(* What is less than 127.5 of its unit is rounded to an int8_t. *)
LEMMA RoundedFits ==
  ASSUME NEW unit \in Units, NEW num \in Int, 2 * num < 255 * unit, -(2 * num) < 255 * unit
  PROVE  Rounded(num, unit) \in Int8
<1>1. unit \in Nat /\ unit >= 1
  BY Powers, SMT
<1>2. \A x \in Nat : x < 128 * (2 * unit) => x \div (2 * unit) \in 0 .. 127
  BY <1>1
<1>3. QED
  BY <1>1, <1>2 DEF Rounded, Int8

(***************************************************************************)
(* The scale is found by doubling the largest value until it reaches 63.4, *)
(* so that it stays below 126.8: whatever is stored with that scale fits,  *)
(* if it did so before the first doubling.                                 *)
(***************************************************************************)
LEMMA ScaledFits ==
  ASSUME NEW values \in [Pixels -> Int], NEW unit \in Units,
         \E p \in Pixels : values[p] # 0,
         \A p \in Pixels : 2 * values[p] < 255 * unit /\ -(2 * values[p]) < 255 * unit,
         NEW p \in Pixels
  PROVE  Scaled(values, unit)[p] \in Int8
<1> DEFINE n == Doublings(values, unit)
           v == values[p]
           S == {i \in 0 .. 30 : \E q \in Pixels : Reaches(values[q], unit, i)}
<1>1. unit \in Nat \ {0} /\ 634 * unit <= 10 * 2^30 /\ v \in Int
  BY Powers, SMT
<1>2. 30 \in S
  <2>1. PICK q \in Pixels : values[q] # 0
    OBVIOUS
  <2>2. Reaches(values[q], unit, 30)
    BY <1>1, <2>1, SMT DEF Reaches
  <2>3. QED
    BY <2>2, SMT
<1>3. PICK m \in S : \A i \in S : m <= i
  <2>1. S \in SUBSET Nat /\ S # {}
    BY <1>2
  <2> HIDE DEF S
  <2>2. QED
    BY <2>1, LeastElement
<1>4. m > 0 => \A q \in Pixels : ~ Reaches(values[q], unit, m - 1)
  BY <1>3
<1>5. /\ n \in 0 .. 30
      /\ n > 0 => \A q \in Pixels : ~ Reaches(values[q], unit, n - 1)
  BY <1>3, <1>4 DEF Doublings
<1>6. Scaled(values, unit)[p] = Rounded(v * 2^n, unit)
  BY DEF Scaled
<1> HIDE DEF n, S
<1>7. v * 2^n \in Int /\ 2 * (v * 2^n) < 255 * unit /\ -(2 * (v * 2^n)) < 255 * unit
  <2>1. CASE n = 0
    <3>1. 2^n = 1
      BY <2>1
    <3>2. v * 2^n = v
      BY <1>1, <3>1
    <3>3. QED
      BY <1>1, <3>2
  <2>2. CASE n > 0
    <3> DEFINE a == 2^(n - 1)
               w == v * a
    <3>1. a \in Nat /\ 2^n = 2 * a
      <4>1. n \in 1 .. 30 /\ n - 1 \in 0 .. 30
        BY <1>5, <2>2
      <4>2. \A i \in 0 .. 30 : 2^i \in Nat
        BY Powers
      <4>3. \A i \in 1 .. 30 : 2^i = 2 * 2^(i - 1)
        BY Powers
      <4>4. 2^(n - 1) \in Nat
        BY <4>1, <4>2, Zenon
      <4>5. 2^n = 2 * 2^(n - 1)
        BY <4>1, <4>3, Zenon
      <4>6. QED
        BY <4>4, <4>5
    <3>2. ~ Reaches(v, unit, n - 1)
      BY <1>5, <2>2
    <3>3. w \in Int /\ v * 2^n = 2 * w
      BY <1>1, <3>1
    <3>4. 10 * v * a = 10 * w /\ -10 * v * a = -(10 * w)
      BY <1>1, <3>1
    <3>5. 10 * w < 634 * unit /\ -(10 * w) < 634 * unit
      BY <1>1, <3>2, <3>3, <3>4 DEF Reaches
    <3> HIDE DEF w, a
    <3>6. QED
      BY <1>1, <3>3, <3>5
  <2>3. QED
    BY <1>5, <2>1, <2>2
<1> HIDE DEF v
<1>8. QED
  BY <1>1, <1>6, <1>7, RoundedFits

(* A calibration with a reference, scales and coefficients that are not    *)
(* too large: as of a pixel 127.5 or more could not be stored.             *)
OffsetsModest(e) ==
  /\ Signed(e[17], 65536) >= -16384 /\ Signed(e[17], 65536) <= 16383
  /\ Bits(e[16], 256, 16) <= 9 /\ Bits(e[16], 16, 16) <= 9 /\ Bits(e[16], 1, 16) <= 8

KtaModest(e) ==
  \A p \in Pixels : /\ 2 * KtaTemp(e, p) < 255 * KtaUnit(e)
                    /\ -(2 * KtaTemp(e, p)) < 255 * KtaUnit(e)

LEMMA FieldBounds ==
  ASSUME NEW w \in Word
  PROVE  /\ \A unit \in Nat \ {0} : Field(w, unit, 16) \in -8 .. 7
         /\ Field(w, 1024, 64) \in -32 .. 31 /\ Field(w, 2, 8) \in -4 .. 3
         /\ \A unit \in {1, 256} : Field(w, unit, 256) \in -128 .. 127
         /\ \A unit \in {1, 16, 256, 4096} : Bits(w, unit, 16) \in 0 .. 15
<1>1. \A unit \in Nat \ {0} : Field(w, unit, 16) \in -8 .. 7
  <2> SUFFICES ASSUME NEW unit \in Nat \ {0} PROVE Field(w, unit, 16) \in -8 .. 7
    OBVIOUS
  <2>1. w \div unit \in Int
    BY SMT DEF Word
  <2>2. (w \div unit) % 16 \in 0 .. 15
    BY <2>1, SMT
  <2>3. \A b \in 0 .. 15 : Signed(b, 16) \in -8 .. 7
    BY SMT DEF Signed
  <2>4. QED
    BY <2>2, <2>3 DEF Field, Bits
<1>2. Field(w, 1024, 64) \in -32 .. 31 /\ Field(w, 2, 8) \in -4 .. 3
  BY SMT DEF Word, Bits, Field, Signed
<1>3. \A unit \in {1, 256} : Field(w, unit, 256) \in -128 .. 127
  BY SMT DEF Word, Bits, Field, Signed
<1>4. \A unit \in {1, 16, 256, 4096} : Bits(w, unit, 16) \in 0 .. 15
  BY SMT DEF Word, Bits
<1>5. QED
  BY <1>1, <1>2, <1>3, <1>4

LEMMA LineAndColumn ==
  ASSUME NEW p \in Pixels
  PROVE  p \div Cols \in 0 .. Rows - 1 /\ p % Cols \in 0 .. Cols - 1
<1>1. Cols \in Nat \ {0} /\ Rows \in Nat
  BY GridAssumption
<1>2. p \in Nat /\ p < Rows * Cols
  BY <1>1 DEF Pixels
<1> DEFINE d == p \div Cols
           c == p % Cols
<1>3. d \in Nat /\ c \in 0 .. Cols - 1
  BY <1>1, <1>2
<1>4. p = Cols * d + c
  BY <1>1, <1>2
<1> HIDE DEF d, c
<1>5. d < Rows
  <2>1. CASE d >= Rows
    <3>1. Cols * d >= Cols * Rows
      BY <1>1, <1>3, <2>1
    <3>2. QED
      BY <1>1, <1>2, <1>3, <1>4, <3>1
  <2>2. QED
    BY <1>1, <1>3, <2>1
<1>6. QED
  BY <1>1, <1>3, <1>5 DEF c, d

(* Which words the fields of a pixel are in. *)
LEMMA PixelWords ==
  ASSUME NEW e \in Eeprom, NEW p \in Pixels
  PROVE  /\ \A i \in 0 .. 63 : e[i] \in Word
         /\ PixelWord(e, p) \in Word
         /\ Split(p) \in 0 .. 3
         /\ \A f \in {18, 34} : Acc(e, f, p \div Cols) \in -8 .. 7
         /\ \A f \in {24, 40} : Acc(e, f, p % Cols) \in -8 .. 7
<1> USE GridAssumption
<1>1. \A i \in 0 .. 63 : e[i] \in Word
  <2>1. \A i \in 0 .. 63 : i \in 0 .. 63 + Rows * Cols
    OBVIOUS
  <2>2. QED
    BY <2>1 DEF Eeprom
<1>2. p \in Nat /\ p < Rows * Cols
  BY DEF Pixels
<1>3. PixelWord(e, p) \in Word
  <2>1. 64 + p \in 0 .. 63 + Rows * Cols
    BY <1>2
  <2>2. QED
    BY <2>1 DEF Eeprom, PixelWord
<1>4. p \div Cols \in 0 .. 23 /\ p % Cols \in 0 .. 31
  BY LineAndColumn
<1>5. Split(p) \in 0 .. 3
  <2>1. IlPattern(p) \in 0 .. 1
    BY <1>4 DEF IlPattern
  <2>2. QED
    BY <1>2, <2>1 DEF Split
<1>6. \A f \in {18, 34}, i \in 0 .. 23 : Acc(e, f, i) \in -8 .. 7
  <2> SUFFICES ASSUME NEW f \in {18, 34}, NEW i \in 0 .. 23 PROVE Acc(e, f, i) \in -8 .. 7
    OBVIOUS
  <2>1. f + i \div 4 \in 0 .. 63 /\ i % 4 \in 0 .. 3
    OBVIOUS
  <2>2. 16^(i % 4) \in Nat \ {0}
    <3>1. \A x \in Int : (x = 0 => 16^x = 16^0) /\ (x = 1 => 16^x = 16^1)
                         /\ (x = 2 => 16^x = 16^2) /\ (x = 3 => 16^x = 16^3)
      BY Zenon
    <3>2. QED
      BY <2>1, <3>1, SMT
  <2>3. QED
    BY <1>1, <2>1, <2>2, FieldBounds DEF Acc
<1>7. \A f \in {24, 40}, i \in 0 .. 31 : Acc(e, f, i) \in -8 .. 7
  <2> SUFFICES ASSUME NEW f \in {24, 40}, NEW i \in 0 .. 31 PROVE Acc(e, f, i) \in -8 .. 7
    OBVIOUS
  <2>1. f + i \div 4 \in 0 .. 63 /\ i % 4 \in 0 .. 3
    OBVIOUS
  <2>2. 16^(i % 4) \in Nat \ {0}
    <3>1. \A x \in Int : (x = 0 => 16^x = 16^0) /\ (x = 1 => 16^x = 16^1)
                         /\ (x = 2 => 16^x = 16^2) /\ (x = 3 => 16^x = 16^3)
      BY Zenon
    <3>2. QED
      BY <2>1, <3>1, SMT
  <2>3. QED
    BY <1>1, <2>1, <2>2, FieldBounds DEF Acc
<1>8. QED
  BY <1>1, <1>3, <1>4, <1>5, <1>6, <1>7

(* The powers that scale the terms of an offset. *)
LEMMA ModestPowers ==
  ASSUME NEW s \in Nat
  PROVE  /\ s <= 9 => 2^s \in 1 .. 512
         /\ s <= 8 => 2^s \in 1 .. 256
<1>1. CASE s <= 9
  BY <1>1, EachPower, SMT
<1>2. CASE ~ (s <= 9)
  BY <1>2, SMT
<1>3. QED
  BY <1>1, <1>2

LEMMA OffsetFits ==
  ASSUME NEW e \in Eeprom, OffsetsModest(e), NEW p \in Pixels
  PROVE  OffsetSum(e, p) \in Int16
<1> DEFINE a == Acc(e, 18, p \div Cols)
           b == Acc(e, 24, p % Cols)
           c == Field(PixelWord(e, p), 1024, 64)
           x == 2^Bits(e[16], 256, 16)
           y == 2^Bits(e[16], 16, 16)
           z == 2^Bits(e[16], 1, 16)
           ref == Signed(e[17], 65536)
<1>1. ref \in Int /\ ref >= -16384 /\ ref <= 16383
  <2>1. ref \in Int16
    BY PixelWords, WordBounds
  <2>2. ref \in Int
    BY <2>1 DEF Int16
  <2>3. QED
    BY <2>2 DEF OffsetsModest
<1>2. a \in -8 .. 7 /\ b \in -8 .. 7 /\ c \in -32 .. 31
  BY PixelWords, FieldBounds
<1>3. x \in 1 .. 512 /\ y \in 1 .. 512 /\ z \in 1 .. 256
  <2>1. e[16] \in Word
    BY PixelWords
  <2>2. /\ Bits(e[16], 256, 16) \in 0 .. 9 /\ Bits(e[16], 16, 16) \in 0 .. 9
        /\ Bits(e[16], 1, 16) \in 0 .. 8
    BY <2>1, FieldBounds DEF OffsetsModest
  <2> DEFINE i == Bits(e[16], 256, 16)
             j == Bits(e[16], 16, 16)
             k == Bits(e[16], 1, 16)
  <2>3. i \in 0 .. 9 /\ j \in 0 .. 9 /\ k \in 0 .. 8
    BY <2>2
  <2> HIDE DEF i, j, k
  <2>4. 2^i \in 1 .. 512 /\ 2^j \in 1 .. 512 /\ 2^k \in 1 .. 256
    BY <2>3, ModestPowers
  <2>5. QED
    BY <2>4 DEF i, j, k
<1>4. OffsetSum(e, p) = ref + a * x + b * y + c * z
  BY DEF OffsetSum
<1> HIDE DEF a, b, c, x, y, z, ref
<1>5. a * x \in -4096 .. 3584
  BY <1>2, <1>3
<1>6. b * y \in -4096 .. 3584
  BY <1>2, <1>3
<1>7. c * z \in -8192 .. 7936
  BY <1>2, <1>3
<1>8. QED
  <2> DEFINE ax == a * x
             by == b * y
             cz == c * z
  <2>1. OffsetSum(e, p) = ref + ax + by + cz
    BY <1>4
  <2>2. ax \in -4096 .. 3584 /\ by \in -4096 .. 3584 /\ cz \in -8192 .. 7936
    BY <1>5, <1>6, <1>7
  <2> HIDE DEF ax, by, cz
  <2>3. ref + ax + by + cz \in Int
    BY <1>1, <2>2
  <2>4. ref + ax + by + cz >= -32768
    BY <1>1, <2>2
  <2>5. ref + ax + by + cz <= 32767
    BY <1>1, <2>2
  <2>6. QED
    BY <2>1, <2>3, <2>4, <2>5 DEF Int16

LEMMA TempsTyped ==
  ASSUME NEW e \in Eeprom, NEW p \in Pixels
  PROVE  /\ KtaTemp(e, p) \in Int /\ KvTemp(e, p) \in -8 .. 7
         /\ KtaUnit(e) \in Units /\ KvUnit(e) \in Units
<1>1. /\ Split(p) \in 0 .. 3 /\ PixelWord(e, p) \in Word
      /\ e[52] \in Word /\ e[54] \in Word /\ e[55] \in Word /\ e[56] \in Word
  BY PixelWords
<1>2. /\ Bits(e[56], 1, 16) \in 0 .. 15 /\ Bits(e[56], 16, 16) \in 0 .. 15
      /\ Bits(e[56], 256, 16) \in 0 .. 15
  BY <1>1, FieldBounds
<1>3. KvTemp(e, p) \in -8 .. 7
  <2>1. KvT(e)[Split(p)] = Field(e[52], CASE Split(p) = 0 -> 4096 [] Split(p) = 1 -> 16
                                          [] Split(p) = 2 -> 256 [] Split(p) = 3 -> 1, 16)
    BY <1>1 DEF KvT
  <2>2. QED
    BY <1>1, <2>1, FieldBounds DEF KvTemp
<1>4. KtaTemp(e, p) \in Int
  <2>1. KtaRC(e)[Split(p)] \in Int
    BY <1>1, FieldBounds DEF KtaRC
  <2>2. Field(PixelWord(e, p), 2, 8) \in Int
    BY <1>1, FieldBounds
  <2>3. 2^Bits(e[56], 1, 16) \in Int
    BY <1>2, Powers
  <2>4. QED
    BY <2>1, <2>2, <2>3 DEF KtaTemp
<1>5. KtaUnit(e) \in Units /\ KvUnit(e) \in Units
  <2>1. Bits(e[56], 16, 16) + 8 \in 0 .. 23 /\ Bits(e[56], 256, 16) \in 0 .. 23
    BY <1>2
  <2>2. \A s \in 0 .. 23 : 2^s \in Units
    BY Zenon DEF Units
  <2> DEFINE s == Bits(e[56], 16, 16) + 8
             t == Bits(e[56], 256, 16)
  <2>3. s \in 0 .. 23 /\ t \in 0 .. 23
    BY <2>1
  <2> HIDE DEF s, t
  <2>4. 2^s \in Units /\ 2^t \in Units
    BY <2>2, <2>3, Zenon
  <2>5. QED
    BY <2>4 DEF KtaUnit, KvUnit, s, t
<1>6. QED
  BY <1>3, <1>4, <1>5

(***************************************************************************)
(* Every integer that is stored of the calibration, but for alpha[], fits  *)
(* the width of its field, for every EEPROM on which the extraction ends   *)
(* and whose coefficients are modest: the scaling by doubling adds no      *)
(* overflow of its own (MLX90640_ExtractParameters()).                     *)
(***************************************************************************)
THEOREM ModestParametersFit ==
  ASSUME NEW e \in Eeprom, ~ Endless(e), OffsetsModest(e), KtaModest(e)
  PROVE  SharedParametersFit(e) /\ PixelParametersFit(e)
<1> SUFFICES ASSUME NEW p \in Pixels
             PROVE  /\ OffsetSum(e, p) \in Int16
                    /\ KtaParameters(e)[p] \in Int8
                    /\ KvParameters(e)[p] \in Int8
  BY SharedFit DEF PixelParametersFit
<1> DEFINE kta == [q \in Pixels |-> KtaTemp(e, q)]
           kv == [q \in Pixels |-> KvTemp(e, q)]
<1>1. KtaParameters(e)[p] \in Int8
  <2>1. kta \in [Pixels -> Int] /\ KtaUnit(e) \in Units
    BY TempsTyped
  <2>2. \E q \in Pixels : kta[q] # 0
    BY DEF Endless
  <2>3. \A q \in Pixels : 2 * kta[q] < 255 * KtaUnit(e) /\ -(2 * kta[q]) < 255 * KtaUnit(e)
    BY DEF KtaModest
  <2> HIDE DEF kta
  <2>4. Scaled(kta, KtaUnit(e))[p] \in Int8
    BY <2>1, <2>2, <2>3, ScaledFits
  <2>5. QED
    BY <2>4 DEF KtaParameters, kta
<1>2. KvParameters(e)[p] \in Int8
  <2>1. kv \in [Pixels -> -8 .. 7] /\ KvUnit(e) \in Units
    BY TempsTyped
  <2>2. \E q \in Pixels : kv[q] # 0
    BY DEF Endless
  <2>3. KvUnit(e) \in Nat \ {0}
    BY <2>1, Powers
  <2> HIDE DEF kv
  <2>4. \A q \in Pixels : 2 * kv[q] < 255 * KvUnit(e) /\ -(2 * kv[q]) < 255 * KvUnit(e)
    BY <2>1, <2>3
  <2>5. kv \in [Pixels -> Int]
    BY <2>1
  <2>6. Scaled(kv, KvUnit(e))[p] \in Int8
    BY <2>1, <2>2, <2>4, <2>5, ScaledFits
  <2>7. QED
    BY <2>6 DEF KvParameters, kv
<1>3. QED
  BY <1>1, <1>2, OffsetFits

(***************************************************************************)
(* The other EEPROMs exist, for every size of the sensor: on this one the  *)
(* extraction ends, but an offset wraps and a coefficient is too large for *)
(* int8_t (ExtractOffsetParameters(), ExtractKtaPixelParameters()).        *)
(***************************************************************************)
THEOREM ParametersMayOverflow ==
  \E e \in Eeprom : /\ ~ Endless(e)
                    /\ \E p \in Pixels : OffsetSum(e, p) \notin Int16
                    /\ \E p \in Pixels : KtaParameters(e)[p] \notin Int8
<1> DEFINE word(i) == CASE i = 16 -> 3840 [] i = 18 -> 7 [] i = 52 -> 4369 [] i = 56 -> 15
                        [] i >= 64 -> 6 [] OTHER -> 0
           e == [i \in 0 .. 63 + Rows * Cols |-> word(i)]
<1>1. 0 \in Pixels /\ \A i \in 0 .. 64 : i \in 0 .. 63 + Rows * Cols
  <2>1. Rows * Cols \in Nat /\ Rows * Cols >= 1
    BY GridAssumption
  <2>2. QED
    BY <2>1 DEF Pixels
<1>2. e \in Eeprom
  BY SMT DEF Eeprom, Word
<1>3. \A i \in 0 .. 63 : e[i] = word(i)
  <2> HIDE DEF word
  <2>1. \A i \in 0 .. 63 + Rows * Cols : e[i] = word(i)
    OBVIOUS
  <2>2. \A i \in 0 .. 63 : i \in 0 .. 63 + Rows * Cols
    BY <1>1
  <2> HIDE DEF e
  <2>3. QED
    BY <2>1, <2>2
<1>4. \A p \in Pixels : PixelWord(e, p) = 6
  <2>1. \A p \in Pixels : 64 + p \in 0 .. 63 + Rows * Cols /\ 64 + p >= 64
    BY GridAssumption DEF Pixels
  <2>2. QED
    BY <2>1 DEF PixelWord
<1>5. /\ e[16] = 3840 /\ e[17] = 0 /\ e[18] = 7 /\ e[24] = 0 /\ e[32] = 0 /\ e[33] = 0
      /\ e[34] = 0 /\ e[40] = 0 /\ e[52] = 4369 /\ e[54] = 0 /\ e[55] = 0 /\ e[56] = 15
      /\ e[57] = 0 /\ e[58] = 0 /\ e[59] = 0 /\ e[60] = 0
  BY <1>3, SMT
<1> HIDE DEF e
<1>6. 0 \div Cols = 0 /\ 0 % Cols = 0 /\ Split(0) = 0
  <2>1. 0 \div Cols = 0 /\ 0 % Cols = 0
    BY GridAssumption
  <2>2. QED
    BY <2>1 DEF Split, IlPattern
<1>7. /\ Acc(e, 18, 0) = 7 /\ Acc(e, 24, 0) = 0 /\ Acc(e, 34, 0) = 0 /\ Acc(e, 40, 0) = 0
  <2>1. 0 \div 4 = 0 /\ 0 % 4 = 0 /\ 16^0 = 1
    OBVIOUS
  <2>2. Field(7, 1, 16) = 7 /\ Field(0, 1, 16) = 0
    BY SMT DEF Field, Bits, Signed
  <2>3. QED
    BY <1>5, <2>1, <2>2 DEF Acc
<1>8. OffsetSum(e, 0) = 229376
  <2>1. /\ Bits(3840, 256, 16) = 15 /\ Bits(3840, 16, 16) = 0 /\ Bits(3840, 1, 16) = 0
        /\ Signed(0, 65536) = 0 /\ Field(6, 1024, 64) = 0
    BY SMT DEF Field, Bits, Signed
  <2>2. 2^15 = 32768 /\ 2^0 = 1
    BY SMT
  <2>3. OffsetSum(e, 0) = Signed(0, 65536) + 7 * 2^Bits(3840, 256, 16)
                           + 0 * 2^Bits(3840, 16, 16) + Field(6, 1024, 64) * 2^Bits(3840, 1, 16)
    BY <1>1, <1>4, <1>5, <1>6, <1>7, SMT DEF OffsetSum
  <2>4. OffsetSum(e, 0) = 0 + 7 * 2^15 + 0 * 2^0 + 0 * 2^0
    BY <2>1, <2>3, EachPower, SMT
  <2>5. QED
    BY <2>2, <2>4, SMT
<1>9. \A p \in Pixels : KtaTemp(e, p) = 98304
  <2> SUFFICES ASSUME NEW p \in Pixels PROVE KtaTemp(e, p) = 98304
    BY SMT
  <2>1. Field(0, 256, 256) = 0 /\ Field(0, 1, 256) = 0 /\ Field(6, 2, 8) = 3 /\ Bits(15, 1, 16) = 15
    BY SMT DEF Field, Bits, Signed
  <2>2. KtaRC(e)[Split(p)] = 0
    <3>1. Split(p) \in 0 .. 3
      BY <1>2, PixelWords
    <3>2. QED
      BY <1>5, <2>1, <3>1 DEF KtaRC
  <2>3. 2^15 = 32768
    BY SMT
  <2>4. KtaTemp(e, p) = 0 + Field(6, 2, 8) * 2^Bits(15, 1, 16)
    BY <1>4, <1>5, <2>2, SMT DEF KtaTemp
  <2>5. KtaTemp(e, p) = 0 + 3 * 2^15
    BY <2>1, <2>4, EachPower, SMT
  <2>6. QED
    BY <2>3, <2>5, SMT
<1>10. KtaUnit(e) = 256
  <2>1. Bits(15, 16, 16) + 8 = 8
    BY SMT DEF Bits
  <2>2. KtaUnit(e) = 2^(Bits(15, 16, 16) + 8)
    BY <1>5, SMT DEF KtaUnit
  <2>3. KtaUnit(e) = 2^8
    BY <2>1, <2>2, EachPower, SMT
  <2>4. QED
    BY <2>3, SMT
<1>11. KtaParameters(e)[0] = 384
  <2> DEFINE kta == [p \in Pixels |-> KtaTemp(e, p)]
  <2>1. \A p \in Pixels : kta[p] = 98304
    BY <1>9
  <2> HIDE DEF kta
  <2>2. \A n \in 0 .. 30, p \in Pixels : Reaches(kta[p], 256, n)
    <3> SUFFICES ASSUME NEW n \in 0 .. 30, NEW p \in Pixels PROVE Reaches(kta[p], 256, n)
      OBVIOUS
    <3> DEFINE a == 2^n
    <3>1. a \in Nat \ {0}
      BY Powers
    <3> HIDE DEF a
    <3>2. 10 * kta[p] * a >= 634 * 256
      BY <2>1, <3>1, SMT
    <3>3. QED
      BY <3>2, SMT DEF a, Reaches
  <2>3. 0 = Doublings(kta, 256)
    <3> DEFINE First(n) == /\ \E p \in Pixels : Reaches(kta[p], 256, n)
                           /\ n > 0 => \A p \in Pixels : ~ Reaches(kta[p], 256, n - 1)
    <3>1. First(0)
      BY <1>1, <2>2
    <3>2. \A n \in 0 .. 30 : First(n) => n = 0
      <4> SUFFICES ASSUME NEW n \in 0 .. 30, n > 0 PROVE ~ First(n)
        BY SMT
      <4>1. n - 1 \in 0 .. 30
        OBVIOUS
      <4>2. Reaches(kta[0], 256, n - 1)
        BY <1>1, <2>2, <4>1, Zenon
      <4>3. QED
        BY <1>1, <4>2
    <3>3. Doublings(kta, 256) = CHOOSE n \in 0 .. 30 : First(n)
      BY DEF Doublings
    <3> HIDE DEF First
    <3>4. QED
      BY <3>1, <3>2, <3>3
  <2>4. KtaParameters(e)[0] = Rounded(98304, 256)
    <3>1. KtaParameters(e) = Scaled(kta, 256)
      BY <1>10 DEF KtaParameters, kta
    <3>2. Scaled(kta, 256)[0] = Rounded(kta[0] * 2^Doublings(kta, 256), 256)
      BY <1>1 DEF Scaled
    <3>3. kta[0] = 98304
      BY <1>1, <2>1, SMT
    <3>4. 2^Doublings(kta, 256) = 1
      BY <2>3, EachPower, SMT
    <3>5. kta[0] * 2^Doublings(kta, 256) = 98304
      BY <3>3, <3>4, SMT
    <3>6. QED
      BY <3>1, <3>2, <3>5, SMT
  <2>5. QED
    BY <2>4, SMT DEF Rounded
<1>12. ~ Endless(e)
  <2>1. ~ (Sensitivity(e, 0) < 0)
    <3>1. /\ Field(6, 16, 64) = 0 /\ Field(0, 1, 256) = 0 /\ Field(0, 1, 1024) = 0
          /\ Bits(0, 256, 16) = 0 /\ Bits(0, 16, 16) = 0 /\ Bits(0, 1, 16) = 0
          /\ Field(0, 1024, 64) = 0
      BY SMT DEF Field, Bits, Signed
    <3>2. 2^0 = 1
      OBVIOUS
    <3>3. TgcParameters(e).tgc = 0 /\ CPParameters(e).cpAlpha = 0 /\ CPParameters(e).cpRatio = 0
      BY <1>5, <3>1 DEF TgcParameters, CPParameters
    <3>4. Sensitivity(e, 0) =
            1024 * (0 + 0 * 2^0 + 0 * 2^0 + 0 * 2^0) - 0 * 0 * (256 + 0)
      BY <1>1, <1>4, <1>5, <1>6, <1>7, <3>1, <3>3 DEF Sensitivity
    <3>5. QED
      BY <3>2, <3>4, SMT
  <2>2. KtaTemp(e, 0) # 0
    BY <1>1, <1>9, SMT
  <2>3. KvTemp(e, 0) # 0
    <3>1. Field(4369, 4096, 16) = 1
      BY SMT DEF Field, Bits, Signed
    <3>2. QED
      BY <1>5, <1>6, <3>1 DEF KvTemp, KvT
  <2>4. QED
    BY <1>1, <2>1, <2>2, <2>3 DEF Endless
<1>13. 229376 \notin Int16 /\ 384 \notin Int8
  BY SMT DEF Int16, Int8
<1>14. QED
  BY <1>1, <1>2, <1>8, <1>11, <1>12, <1>13, SMT

-----------------------------------------------------------------------------
(* Deviating pixels *)

LEMMA PixelsFinite ==
  ASSUME NEW S \in SUBSET Pixels
  PROVE  S \in SUBSET Nat /\ IsFiniteSet(S) /\ Cardinality(S) \in Nat
<1>1. Rows * Cols - 1 \in Int
  BY GridAssumption
<1>2. IsFiniteSet(Pixels) /\ Pixels \subseteq Nat
  BY <1>1, FS_Interval DEF Pixels
<1>3. QED
  BY <1>2, FS_Subset, FS_CardinalityType

(***************************************************************************)
(* The search for deviating pixels that finds at most four of each kind    *)
(* has looked at every pixel: had it stopped, then behind five of a kind,  *)
(* all of which it had found.                                              *)
(***************************************************************************)
LEMMA SearchComplete ==
  ASSUME NEW e \in Eeprom,
         Cardinality(BrokenPixels(e)) <= 4,
         Cardinality(OutlierPixels(e)) <= 4
  PROVE  Scanned(e) = Pixels
<1> DEFINE Missed == Pixels \ Scanned(e)
<1>1. BrokenIn(e) \in SUBSET Pixels /\ OutliersIn(e) \in SUBSET Pixels
  BY DEF BrokenIn, OutliersIn
<1>2. BrokenPixels(e) \in SUBSET Pixels /\ OutlierPixels(e) \in SUBSET Pixels
  BY <1>1 DEF BrokenPixels, OutlierPixels
<1>3. SUFFICES ASSUME Missed # {} PROVE FALSE
  BY DEF Scanned
<1>4. PICK m \in Missed : \A q \in Missed : m <= q
  BY <1>3, LeastElement, PixelsFinite
<1>5. m \in Nat /\ Pixels \subseteq Nat
  BY PixelsFinite
<1>6. \A q \in Pixels : q < m => q \in Scanned(e)
  BY <1>4, <1>5
<1>7. Before(BrokenIn(e), m) \subseteq BrokenPixels(e)
  BY <1>1, <1>6 DEF Before, BrokenPixels
<1>8. Before(OutliersIn(e), m) \subseteq OutlierPixels(e)
  BY <1>1, <1>6 DEF Before, OutlierPixels
<1>9. Cardinality(Before(BrokenIn(e), m)) <= Cardinality(BrokenPixels(e))
  BY <1>2, <1>7, FS_Subset, PixelsFinite
<1>10. Cardinality(Before(OutliersIn(e), m)) <= Cardinality(OutlierPixels(e))
  BY <1>2, <1>8, FS_Subset, PixelsFinite
<1>11. /\ Before(BrokenIn(e), m) \in SUBSET Pixels
       /\ Before(OutliersIn(e), m) \in SUBSET Pixels
  BY <1>1 DEF Before
<1>12. /\ Cardinality(Before(BrokenIn(e), m)) \in Nat
       /\ Cardinality(Before(OutliersIn(e), m)) \in Nat
       /\ Cardinality(BrokenPixels(e)) \in Nat
       /\ Cardinality(OutlierPixels(e)) \in Nat
  BY <1>2, <1>11, PixelsFinite
<1>13. m \in Scanned(e)
  BY <1>4, <1>9, <1>10, <1>12 DEF Scanned
<1>14. QED
  BY <1>4, <1>13

(***************************************************************************)
(* Two pixels that touch are found adjacent, whichever is given first      *)
(* (CheckAdjacentPixels()); others may be too, at the ends of lines.       *)
(***************************************************************************)
LEMMA TouchIsAdjacent ==
  ASSUME NEW p \in Nat, NEW q \in Nat, Touch(p, q)
  PROVE  CheckAdjacentPixels(p, q)
<1>1. Cols \in Nat \ {0} /\ Cols >= 3
  BY GridAssumption
<1> DEFINE a == p \div Cols
           b == q \div Cols
           c == p % Cols
           d == q % Cols
<1>2. a \in Nat /\ b \in Nat /\ c \in 0 .. Cols - 1 /\ d \in 0 .. Cols - 1
  BY <1>1
<1>3. p = Cols * a + c /\ q = Cols * b + d
  BY <1>1
<1>4. a - b \in -1 .. 1 /\ c - d \in -1 .. 1 /\ p # q
  BY DEF Touch
<1> HIDE DEF a, b, c, d
<1>5. CASE a = b
  BY <1>1, <1>2, <1>3, <1>4, <1>5 DEF CheckAdjacentPixels
<1>6. CASE a = b + 1
  <2>1. Cols * a = Cols * b + Cols /\ Cols * b \in Int
    BY <1>1, <1>2, <1>6
  <2>2. QED
    BY <1>1, <1>2, <1>3, <1>4, <2>1 DEF CheckAdjacentPixels
<1>7. CASE b = a + 1
  <2>1. Cols * b = Cols * a + Cols /\ Cols * a \in Int
    BY <1>1, <1>2, <1>7
  <2>2. QED
    BY <1>1, <1>2, <1>3, <1>4, <2>1 DEF CheckAdjacentPixels
<1>8. QED
  BY <1>2, <1>4, <1>5, <1>6, <1>7

(***************************************************************************)
(* When ExtractDeviatingPixels() returns no warning, every deviating pixel *)
(* of the EEPROM is listed, at most four are, and no two of them touch:    *)
(* for every EEPROM, although the search may stop early and the check of   *)
(* neighbours is by the difference of two numbers.                         *)
(***************************************************************************)
THEOREM DefectsFound ==
  ASSUME NEW e \in Eeprom, DeviatingPixels(e) = 0
  PROVE  DefectsKnown(e)
<1> DEFINE nb == Cardinality(BrokenPixels(e))
           no == Cardinality(OutlierPixels(e))
           found == BrokenPixels(e) \union OutlierPixels(e)
           adjacent == \E p, q \in found : p < q /\ CheckAdjacentPixels(p, q)
<1>1. BrokenIn(e) \in SUBSET Pixels /\ OutliersIn(e) \in SUBSET Pixels
  BY DEF BrokenIn, OutliersIn
<1>2. BrokenPixels(e) \in SUBSET Pixels /\ OutlierPixels(e) \in SUBSET Pixels
  BY <1>1 DEF BrokenPixels, OutlierPixels
<1>3. nb \in Nat /\ no \in Nat
  BY <1>2, PixelsFinite
<1>4. nb <= 4 /\ no <= 4 /\ nb + no <= 4 /\ ~ adjacent
  <2>1. DeviatingPixels(e)
        = CASE nb > 4 -> -3
            [] nb <= 4 /\ no > 4 -> -4
            [] nb <= 4 /\ no <= 4 ->
                 IF nb + no > 4 THEN -5 ELSE IF adjacent THEN -6 ELSE 0
    BY DEF DeviatingPixels
  <2> HIDE DEF nb, no, adjacent
  <2>2. QED
    BY <1>3, <2>1
<1>5. Scanned(e) = Pixels
  BY <1>4, SearchComplete
<1>6. BrokenPixels(e) = BrokenIn(e) /\ OutlierPixels(e) = OutliersIn(e)
  BY <1>1, <1>5 DEF BrokenPixels, OutlierPixels
<1>7. ASSUME NEW p \in found, NEW q \in found, Touch(p, q)
      PROVE  FALSE
  <2>1. p \in Nat /\ q \in Nat
    BY <1>2, PixelsFinite
  <2>2. Touch(q, p)
    <3>1. Cols \in Nat \ {0}
      BY GridAssumption
    <3>2. p \div Cols \in Int /\ q \div Cols \in Int /\ p % Cols \in Int /\ q % Cols \in Int
      BY <2>1, <3>1
    <3>3. QED
      BY <1>7, <3>2 DEF Touch
  <2>3. CheckAdjacentPixels(p, q) /\ CheckAdjacentPixels(q, p)
    BY <1>7, <2>1, <2>2, TouchIsAdjacent
  <2>4. p < q \/ q < p
    BY <1>7, <2>1 DEF Touch
  <2>5. QED
    BY <1>4, <2>3, <2>4
<1>8. QED
  BY <1>4, <1>6, <1>7 DEF DefectsKnown

-----------------------------------------------------------------------------
(* Type correctness *)

(* The two subpages share the pixels between them. *)
LEMMA PatternType ==
  ASSUME NEW mode \in 0 .. 1, NEW p \in Pixels
  PROVE  Pattern(mode, p) \in 0 .. 1
<1>1. Cols \in Nat \ {0} /\ p \in Nat
  <2>1. Pixels \in SUBSET Nat
    BY PixelsFinite
  <2>2. QED
    BY <2>1, GridAssumption
<1>2. p \div Cols \in Nat
  BY <1>1
<1>3. IlPattern(p) \in 0 .. 1
  BY <1>2 DEF IlPattern
<1>4. ChessPattern(p) \in 0 .. 1
  BY <1>1, <1>3 DEF ChessPattern
<1>5. QED
  BY <1>3, <1>4 DEF Pattern

(* The steps of the start, one after the other. *)
LEMMA FollowingSteps ==
  /\ DOMAIN Following = {"I2CInit", "serial", "dump", "extract", "SetChessMode",
                         "SetResolution", "SetRefreshRate"}
  /\ Following["I2CInit"] = "serial" /\ Following["serial"] = "dump"
  /\ Following["dump"] = "extract" /\ Following["extract"] = "SetChessMode"
  /\ Following["SetChessMode"] = "SetResolution"
  /\ Following["SetResolution"] = "SetRefreshRate"
  /\ Following["SetRefreshRate"] = "ready"
BY DEF Following

LEMMA InitType == Init => TypeOK
<1> SUFFICES ASSUME Init PROVE TypeOK
  OBVIOUS
<1>1. NoMap \in [Pixels -> Aux \union {"unwritten"}]
  BY DEF NoMap
<1>2. [p \in Pixels |-> "own"] \in [Pixels -> Aux \union {"unwritten"}]
  BY DEF Aux
<1>3. Idle \in [at : Places, page : 0 .. 1, status : 0 .. 1, ok : BOOLEAN]
  BY DEF Idle, Places
<1>4. ee \in Eeprom /\ control \in Registers /\ interval \in Nat
  BY SensorAssumption DEF Init
<1>5. chip \in [subpage : 0 .. 1, fresh : BOOLEAN] /\ work \in [delayed : BOOLEAN, queued : BOOLEAN]
  BY DEF Init
<1>6. sent \in [map : [Pixels -> Aux \union {"unwritten"}], torn : BOOLEAN]
  BY <1>2 DEF Init
<1>7. QED
  BY <1>1, <1>3, <1>4, <1>5, <1>6 DEF Init, TypeOK, Aux

LEMMA StartType == TypeOK /\ Start => TypeOK'
BY DEF TypeOK, Start, Following, readVars

LEMMA FindDeviceType == TypeOK /\ FindDevice => TypeOK'
BY FollowingSteps, ZenonT(30) DEF TypeOK, FindDevice, GiveUp, readVars

LEMMA InitializeType == TypeOK /\ Initialize => TypeOK'
BY FollowingSteps, ZenonT(30) DEF TypeOK, Initialize, GiveUp, readVars

LEMMA ExtractType == TypeOK /\ ExtractParameters => TypeOK'
BY FollowingSteps, ZenonT(30) DEF TypeOK, ExtractParameters, GiveUp, readVars

LEMMA ConfigureType == TypeOK /\ Configure => TypeOK'
<1> SUFFICES ASSUME TypeOK, Configure PROVE TypeOK'
  OBVIOUS
<1>1. control' \in Registers
  <2>1. control \in Registers
    BY DEF TypeOK
  <2>2. \/ control' = control
        \/ control' = [control EXCEPT !.mode = 1]
        \/ control' = [control EXCEPT !.resolution = 2]
        \/ control' = [control EXCEPT !.rate = 2]
    BY DEF Configure, With
  <2>3. QED
    BY <2>1, <2>2 DEF Registers
<1>2. thread' \in {"init", "endless", "ready"} \union DOMAIN Following /\ failed' \in BOOLEAN
  <2>1. failed \in BOOLEAN /\ thread \in {"SetChessMode", "SetResolution", "SetRefreshRate"}
    BY DEF TypeOK, Configure
  <2>2. \/ thread' = Following[thread] /\ failed' = failed
        \/ thread' = "ready" /\ failed' = TRUE
    BY DEF Configure, GiveUp
  <2>3. QED
    BY <2>1, <2>2, FollowingSteps
<1>3. QED
  BY <1>1, <1>2 DEF TypeOK, Configure, readVars

LEMMA SetIntervalType == TypeOK /\ SetInterval => TypeOK'
BY SensorAssumption DEF TypeOK, SetInterval, threadVars, readVars

LEMMA MeasureType == TypeOK /\ Measure => TypeOK'
BY DEF TypeOK, Measure, threadVars

LEMMA DueType == TypeOK /\ Due => TypeOK'
BY DEF TypeOK, Due, threadVars, readVars

LEMMA ReadHeatMapType == TypeOK /\ ReadHeatMap => TypeOK'
BY ZenonT(30) DEF TypeOK, ReadHeatMap, End, At, threadVars, Places

LEMMA FaultType == TypeOK /\ Fault => TypeOK'
BY ZenonT(30) DEF TypeOK, Fault, At, threadVars, Places

LEMMA PollType == TypeOK /\ Poll => TypeOK'
BY ZenonT(30) DEF TypeOK, Poll, End, threadVars, Places

LEMMA ClearType == TypeOK /\ Clear => TypeOK'
BY ZenonT(30) DEF TypeOK, Clear, End, At, threadVars, Places

LEMMA ReadPageType == TypeOK /\ ReadPage => TypeOK'
<1> SUFFICES ASSUME TypeOK, ReadPage PROVE TypeOK'
  OBVIOUS
<1>1. frame' \in Aux
  BY DEF TypeOK, ReadPage, Aux
<1>2. map' \in [Pixels -> Aux \union {"unwritten"}]
  BY <1>1 DEF TypeOK, ReadPage, CalculateTo
<1>3. reader' \in [at : Places, page : 0 .. 1, status : 0 .. 1, ok : BOOLEAN]
  <2>1. reader \in [at : Places, page : 0 .. 1, status : 0 .. 1, ok : BOOLEAN]
    BY DEF TypeOK
  <2>2. \/ reader' = [reader EXCEPT !.at = "notify", !.ok = FALSE]
        \/ reader' = [reader EXCEPT !.at = "poll", !.page = 1]
        \/ reader' = [reader EXCEPT !.at = "notify"]
    BY DEF ReadPage, End
  <2>3. "notify" \in Places /\ "poll" \in Places /\ 1 \in 0 .. 1 /\ FALSE \in BOOLEAN
    BY DEF Places
  <2>4. CASE reader' = [reader EXCEPT !.at = "notify", !.ok = FALSE]
    BY <2>1, <2>3, <2>4
  <2>5. CASE reader' = [reader EXCEPT !.at = "poll", !.page = 1]
    BY <2>1, <2>3, <2>5
  <2>6. CASE reader' = [reader EXCEPT !.at = "notify"]
    BY <2>1, <2>3, <2>6
  <2>7. QED
    BY <2>2, <2>4, <2>5, <2>6
<1>4. QED
  BY <1>1, <1>2, <1>3 DEF TypeOK, ReadPage, threadVars

LEMMA NotifyType == TypeOK /\ Notify => TypeOK'
<1> SUFFICES ASSUME TypeOK, Notify PROVE TypeOK'
  OBVIOUS
<1>1. NoMap \in [Pixels -> Aux \union {"unwritten"}]
  BY DEF NoMap
<1>2. Idle \in [at : Places, page : 0 .. 1, status : 0 .. 1, ok : BOOLEAN]
  BY DEF Idle, Places
<1>3. sent' \in [map : [Pixels -> Aux \union {"unwritten"}], torn : BOOLEAN]
  BY DEF TypeOK, Notify
<1>4. work' \in [delayed : BOOLEAN, queued : BOOLEAN]
  <2> DEFINE later == interval > 0
             now == work.queued \/ interval = 0
  <2>1. work \in [delayed : BOOLEAN, queued : BOOLEAN]
    BY DEF TypeOK
  <2>2. work' = [work EXCEPT !.delayed = later, !.queued = now]
    BY DEF Notify
  <2>3. later \in BOOLEAN /\ now \in BOOLEAN
    OBVIOUS
  <2> HIDE DEF later, now
  <2>4. QED
    BY <2>1, <2>2, <2>3
<1>5. QED
  BY <1>1, <1>2, <1>3, <1>4 DEF TypeOK, Notify, threadVars, Aux

LEMMA RestartType == TypeOK /\ Restart => TypeOK'
<1> SUFFICES ASSUME TypeOK, Restart PROVE TypeOK'
  OBVIOUS
<1>1. Idle \in [at : Places, page : 0 .. 1, status : 0 .. 1, ok : BOOLEAN]
  BY DEF Idle, Places
<1>2. work' \in [delayed : BOOLEAN, queued : BOOLEAN] /\ interval' \in Nat
  BY SensorAssumption DEF Restart
<1>3. QED
  BY <1>1, <1>2 DEF TypeOK, Restart

LEMMA StutterType == TypeOK /\ UNCHANGED vars => TypeOK'
BY DEF TypeOK, vars, threadVars, readVars

(***************************************************************************)
(* The sensor's state is always of its type.                               *)
(***************************************************************************)
THEOREM TypeCorrect == Spec => []TypeOK
<1>1. TypeOK /\ [Next]_vars => TypeOK'
  BY StartType, FindDeviceType, InitializeType, ExtractType, ConfigureType, SetIntervalType,
     MeasureType, DueType, ReadHeatMapType, FaultType, PollType, ClearType, ReadPageType,
     NotifyType, RestartType, StutterType
     DEF Next, ModuleThread, WorkQueue
<1>2. QED
  BY InitType, <1>1, PTL DEF Spec

-----------------------------------------------------------------------------
(* A start without an error *)

(* What the start has done by each of its steps. *)
Started ==
  /\ ReadyMeansUsable
  /\ thread \in {"SetChessMode", "SetResolution", "SetRefreshRate"} =>
       extracted /\ DefectsKnown(ee)
  /\ thread \in {"SetResolution", "SetRefreshRate"} => control.mode = 1
  /\ thread = "SetRefreshRate" => control.resolution = 2

(* Most steps leave everything alone that Started is about. *)
LEMMA StartedElsewhere ==
  Started /\ UNCHANGED <<ee, control, thread, extracted, failed>> => Started'
BY DEF Started, ReadyMeansUsable, DefectsKnown

LEMMA StartedStep == TypeOK /\ Started /\ [Next]_vars => Started'
<1> SUFFICES ASSUME TypeOK, Started, [Next]_vars PROVE Started'
  OBVIOUS
<1>1. CASE Start
  BY <1>1 DEF Start, Started, ReadyMeansUsable
<1>2. CASE FindDevice \/ Initialize
  BY <1>2, FollowingSteps DEF FindDevice, Initialize, GiveUp, Started, ReadyMeansUsable
<1>3. CASE ExtractParameters
  <2>1. CASE thread' = "endless"
    BY <2>1 DEF Started, ReadyMeansUsable
  <2>2. CASE GiveUp
    BY <2>2 DEF GiveUp, Started, ReadyMeansUsable
  <2>3. CASE extracted' /\ DeviatingPixels(ee) = 0 /\ thread' = "SetChessMode"
    <3>1. DefectsKnown(ee) /\ ee' = ee
      BY <1>3, <2>3, DefectsFound DEF ExtractParameters, TypeOK
    <3>2. DefectsKnown(ee)'
      BY <3>1
    <3>3. QED
      BY <2>3, <3>2 DEF Started, ReadyMeansUsable
  <2>4. QED
    BY <1>3, <2>1, <2>2, <2>3, FollowingSteps DEF ExtractParameters
<1>4. CASE Configure
  <2>1. CASE GiveUp
    BY <2>1 DEF GiveUp, Started, ReadyMeansUsable
  <2>2. CASE control' = With(thread) /\ thread' = Following[thread]
    <3>1. extracted /\ DefectsKnown(ee) /\ UNCHANGED <<ee, extracted>>
      BY <1>4 DEF Configure, Started
    <3>2. extracted' /\ DefectsKnown(ee)'
      BY <3>1
    <3>3. control \in Registers
      BY DEF TypeOK
    <3>4. CASE thread = "SetChessMode"
      <4>1. control'.mode = 1 /\ thread' = "SetResolution"
        BY <2>2, <3>3, <3>4, FollowingSteps DEF With, Registers
      <4>2. QED
        BY <3>2, <4>1 DEF Started, ReadyMeansUsable
    <3>5. CASE thread = "SetResolution"
      <4>1. control'.mode = 1 /\ control'.resolution = 2 /\ thread' = "SetRefreshRate"
        BY <2>2, <3>3, <3>5, FollowingSteps DEF With, Registers, Started
      <4>2. QED
        BY <3>2, <4>1 DEF Started, ReadyMeansUsable
    <3>6. CASE thread = "SetRefreshRate"
      <4>1. control' = [mode |-> 1, resolution |-> 2, rate |-> 2] /\ thread' = "ready"
        BY <2>2, <3>3, <3>6, FollowingSteps DEF With, Registers, Started
      <4>2. QED
        BY <3>2, <4>1 DEF Started, ReadyMeansUsable
    <3>7. QED
      BY <1>4, <3>4, <3>5, <3>6 DEF Configure
  <2>3. QED
    BY <1>4, <2>1, <2>2 DEF Configure
<1>5. CASE SetInterval
  BY <1>5, StartedElsewhere DEF SetInterval, threadVars
<1>6. CASE Measure
  BY <1>6, StartedElsewhere DEF Measure, threadVars
<1>7. CASE Due
  BY <1>7, StartedElsewhere DEF Due, threadVars
<1>8. CASE WorkQueue
  BY <1>8, StartedElsewhere
     DEF WorkQueue, ReadHeatMap, Fault, Poll, Clear, ReadPage, Notify, threadVars
<1>9. CASE UNCHANGED vars
  BY <1>9, StartedElsewhere DEF vars, threadVars
<1>10. CASE Restart
  BY <1>10 DEF Restart, Started, ReadyMeansUsable
<1>11. QED
  BY <1>1, <1>2, <1>3, <1>4, <1>5, <1>6, <1>7, <1>8, <1>9, <1>10 DEF Next, ModuleThread

(***************************************************************************)
(* A start that ends without an error leaves the sensor configured as      *)
(* asked, with its calibration read and its deviating pixels known, each   *)
(* with good neighbours: whatever the EEPROM holds, and although a written *)
(* register may be compared with what an earlier step read back.           *)
(***************************************************************************)
THEOREM ReadyIsUsable == Spec => []ReadyMeansUsable
<1>1. Init => Started
  BY DEF Init, Started, ReadyMeansUsable
<1>2. Started => ReadyMeansUsable
  BY DEF Started
<1>3. QED
  BY <1>1, <1>2, StartedStep, TypeCorrect, PTL DEF Spec

-----------------------------------------------------------------------------
(* A whole heat map *)

(* The pixels of a subpage have been computed. *)
Written(subpage) ==
  \A p \in Pixels : Pattern(control.mode, p) = subpage => map[p] # "unwritten"

(* The flag was cleared after the reading that has begun, and the sensor   *)
(* has finished no other subpage than the next.                            *)
OtherSubpageNext ==
  IF chip.fresh THEN chip.subpage = 1 - reader.status ELSE chip.subpage = reader.status

(* How far the two readings of a map are that have not been overrun. *)
Reading ==
  /\ reader.page = 0 /\ reader.at = "clear" => chip.fresh /\ chip.subpage = reader.status
  /\ reader.page = 0 /\ reader.at = "read" => OtherSubpageNext
  /\ reader.page = 1 /\ reader.at = "poll" => OtherSubpageNext /\ Written(reader.status)
  /\ reader.page = 1 /\ reader.at \in {"clear", "read"} => Written(1 - reader.status)
  /\ reader.at = "notify" /\ reader.ok => \A p \in Pixels : map[p] # "unwritten"

(* The control register, and with it the pattern, stays as it is while a   *)
(* map is read, as the start is over.                                      *)
Pages ==
  /\ MapIsWhole
  /\ reader.at # "idle" \/ work.queued => thread \in {"ready", "endless"}
  /\ reader.at = "idle" => reader = Idle
  /\ overrun \/ Reading

LEMMA PagesElsewhere ==
  Pages /\ UNCHANGED <<control, chip, thread, readVars, sent>>
        /\ (work'.queued => work.queued \/ thread \in {"ready", "endless"})
     => Pages'
BY DEF Pages, MapIsWhole, Reading, Written, OtherSubpageNext, readVars

(* Before the start is over no heat map is read. *)
LEMMA PagesOfStart ==
  ASSUME Pages, thread \notin {"ready", "endless"},
         UNCHANGED <<reader, overrun, sent>>, work'.queued = work.queued
  PROVE  Pages'
<1>1. reader.at = "idle" /\ ~ work.queued
  BY DEF Pages
<1>2. MapIsWhole'
  BY DEF Pages, MapIsWhole
<1>3. Reading'
  BY <1>1 DEF Reading
<1>4. QED
  BY <1>1, <1>2, <1>3 DEF Pages

(* The readings that fail are of no account. *)
LEMMA PagesEnd ==
  ASSUME TypeOK, Pages, reader.at # "idle", End, UNCHANGED <<thread, sent>>
  PROVE  Pages'
<1>1. reader'.at = "notify" /\ ~ reader'.ok
  BY DEF End, TypeOK
<1>2. Reading'
  BY <1>1 DEF Reading
<1>3. QED
  BY <1>1, <1>2 DEF Pages, MapIsWhole

LEMMA PagesMeasure == TypeOK /\ Pages /\ Measure => Pages'
<1> SUFFICES ASSUME TypeOK, Pages, Measure PROVE Pages'
  OBVIOUS
<1>1. UNCHANGED <<control, thread, work, reader, map, sent>>
  BY DEF Measure, threadVars
<1>2. CASE overrun'
  BY <1>1, <1>2 DEF Pages, MapIsWhole
<1>3. CASE ~ overrun'
  <2>1. ~ overrun /\ ~ (chip.fresh /\ BetweenPages)
    BY <1>3 DEF Measure
  <2>2. chip' = [subpage |-> 1 - chip.subpage, fresh |-> TRUE]
    BY DEF Measure
  <2>3. Reading /\ (BetweenPages => OtherSubpageNext /\ ~ chip.fresh)
    BY <2>1 DEF Pages, Reading, BetweenPages
  <2>4. BetweenPages => OtherSubpageNext'
    BY <1>1, <2>2, <2>3 DEF OtherSubpageNext
  <2>5. \A r \in 0 .. 1 : Written(r)' <=> Written(r)
    BY <1>1 DEF Written
  <2>6. reader.status \in 0 .. 1 /\ 1 - reader.status \in 0 .. 1
    BY DEF TypeOK
  <2>7. ~ (reader.page = 0 /\ reader.at = "clear")
    BY <2>3 DEF Reading, BetweenPages
  <2>8. Reading'
    BY <1>1, <2>3, <2>4, <2>5, <2>6, <2>7 DEF Reading, BetweenPages
  <2>9. QED
    BY <1>1, <2>8 DEF Pages, MapIsWhole
<1>4. QED
  BY <1>2, <1>3

LEMMA PagesPoll == TypeOK /\ Pages /\ Poll => Pages'
<1> SUFFICES ASSUME TypeOK, Pages, Poll PROVE Pages'
  OBVIOUS
<1>1. UNCHANGED <<control, chip, thread, work, map, overrun, sent>>
  BY DEF Poll, threadVars
<1>2. CASE End
  BY <1>1, <1>2, PagesEnd DEF Poll
<1>3. CASE chip.fresh /\ reader' = [reader EXCEPT !.at = "clear", !.status = chip.subpage]
  <2>1. /\ reader'.at = "clear" /\ reader'.page = reader.page /\ reader'.status = chip.subpage
    BY <1>3 DEF TypeOK
  <2>2. thread \in {"ready", "endless"} /\ reader.at = "poll"
    BY DEF Pages, Poll
  <2>3. CASE reader.page = 0
    BY <1>1, <1>3, <2>1, <2>2, <2>3 DEF Pages, MapIsWhole, Reading
  <2>4. CASE reader.page = 1 /\ ~ overrun
    <3>1. chip.subpage = 1 - reader.status /\ Written(reader.status)
      BY <1>3, <2>2, <2>4 DEF Pages, Reading, OtherSubpageNext
    <3>2. 1 - reader'.status = reader.status
      BY <2>1, <3>1 DEF TypeOK
    <3>3. Written(1 - reader.status)'
      BY <1>1, <3>1, <3>2 DEF Written
    <3>4. QED
      BY <1>1, <2>1, <2>2, <2>4, <3>3 DEF Pages, MapIsWhole, Reading
  <2>5. CASE overrun
    BY <1>1, <2>1, <2>2, <2>5 DEF Pages, MapIsWhole
  <2>6. QED
    BY <2>3, <2>4, <2>5 DEF TypeOK
<1>4. QED
  BY <1>2, <1>3 DEF Poll

LEMMA PagesClear == TypeOK /\ Pages /\ Clear => Pages'
<1> SUFFICES ASSUME TypeOK, Pages, Clear PROVE Pages'
  OBVIOUS
<1>1. UNCHANGED <<control, thread, work, map, overrun, sent>>
  BY DEF Clear, threadVars
<1>2. CASE End
  BY <1>1, <1>2, PagesEnd DEF Clear
<1>3. CASE At("read") /\ chip' = [chip EXCEPT !.fresh = FALSE]
  <2>1. /\ reader'.at = "read" /\ reader'.page = reader.page /\ reader'.status = reader.status
        /\ ~ chip'.fresh /\ chip'.subpage = chip.subpage
    BY <1>3 DEF At, TypeOK
  <2>2. thread \in {"ready", "endless"} /\ reader.at = "clear"
    BY DEF Pages, Clear
  <2>3. CASE overrun
    BY <1>1, <2>1, <2>2, <2>3 DEF Pages, MapIsWhole
  <2>4. CASE ~ overrun /\ reader.page = 0
    <3>1. OtherSubpageNext'
      BY <2>1, <2>2, <2>4 DEF Pages, Reading, OtherSubpageNext
    <3>2. QED
      BY <1>1, <2>1, <2>2, <2>4, <3>1 DEF Pages, MapIsWhole, Reading
  <2>5. CASE ~ overrun /\ reader.page = 1
    <3>1. Written(1 - reader.status)
      BY <2>2, <2>5 DEF Pages, Reading
    <3>2. Written(1 - reader.status)'
      BY <1>1, <2>1, <3>1 DEF Written
    <3>3. QED
      BY <1>1, <2>1, <2>2, <2>5, <3>2 DEF Pages, MapIsWhole, Reading
  <2>6. QED
    BY <2>3, <2>4, <2>5 DEF TypeOK
<1>4. QED
  BY <1>2, <1>3 DEF Clear

LEMMA PagesReadPage == TypeOK /\ Pages /\ ReadPage => Pages'
<1> SUFFICES ASSUME TypeOK, Pages, ReadPage PROVE Pages'
  OBVIOUS
<1>1. UNCHANGED <<control, chip, thread, work, overrun, sent>>
  BY DEF ReadPage, threadVars
<1>2. CASE End
  BY <1>1, <1>2, PagesEnd DEF ReadPage
<1>3. CASE CalculateTo(frame') /\ ~ End
  <2>1. frame' # "unwritten"
    BY DEF ReadPage, TypeOK, Aux
  <2>2. \A p \in Pixels :
          /\ Pattern(control.mode, p) = reader.status => map'[p] # "unwritten"
          /\ map[p] # "unwritten" => map'[p] # "unwritten"
    <3>1. \A p \in Pixels :
            map'[p] = IF Pattern(control.mode, p) = reader.status THEN frame' ELSE map[p]
      BY <1>3 DEF CalculateTo
    <3>2. QED
      BY <1>1, <2>1, <3>1 DEF Written
  <2>3. thread \in {"ready", "endless"} /\ reader.at = "read"
    BY DEF Pages, ReadPage
  <2>4. reader' = IF reader.page = 0 THEN [reader EXCEPT !.at = "poll", !.page = 1]
                                     ELSE [reader EXCEPT !.at = "notify"]
    BY <1>3 DEF ReadPage
  <2>5. CASE reader.page = 0
    <3>1. reader'.at = "poll" /\ reader'.page = 1 /\ reader'.status = reader.status
      BY <2>4, <2>5 DEF TypeOK
    <3>2. Written(reader.status)'
      BY <1>1, <2>2, <3>1 DEF Written
    <3>3. overrun \/ OtherSubpageNext'
      BY <1>1, <2>3, <2>5, <3>1 DEF Pages, Reading, OtherSubpageNext
    <3>4. QED
      BY <1>1, <2>3, <3>1, <3>2, <3>3 DEF Pages, MapIsWhole, Reading
  <2>6. CASE reader.page = 1
    <3>1. reader'.at = "notify" /\ reader'.page = 1
      BY <2>4, <2>6 DEF TypeOK
    <3>2. ASSUME ~ overrun, NEW p \in Pixels PROVE map'[p] # "unwritten"
      <4>1. Written(1 - reader.status)
        BY <2>3, <2>6, <3>2 DEF Pages, Reading
      <4>2. Pattern(control.mode, p) \in 0 .. 1 /\ reader.status \in 0 .. 1
        BY PatternType DEF TypeOK, Registers
      <4>3. Pattern(control.mode, p) = reader.status \/ Pattern(control.mode, p) = 1 - reader.status
        BY <4>2
      <4>4. QED
        BY <1>1, <2>2, <4>1, <4>3 DEF Written
    <3>3. QED
      BY <1>1, <2>3, <3>1, <3>2 DEF Pages, MapIsWhole, Reading
  <2>7. QED
    BY <2>5, <2>6 DEF TypeOK
<1>4. QED
  BY <1>2, <1>3 DEF ReadPage

LEMMA PagesNotify == TypeOK /\ Pages /\ Notify => Pages'
<1> SUFFICES ASSUME TypeOK, Pages, Notify PROVE Pages'
  OBVIOUS
<1>1. reader' = Idle /\ reader'.at = "idle" /\ reader.at = "notify" /\ UNCHANGED thread
  BY DEF Notify, threadVars, Idle
<1>2. thread \in {"ready", "endless"}
  BY <1>1 DEF Pages
<1>3. MapIsWhole'
  <2>1. CASE reader.ok
    <3>1. sent' = [map |-> map, torn |-> overrun]
      BY <2>1 DEF Notify
    <3>2. QED
      BY <1>1, <2>1, <3>1 DEF Pages, Reading, MapIsWhole
  <2>2. CASE ~ reader.ok
    BY <2>2 DEF Notify, Pages, MapIsWhole
  <2>3. QED
    BY <2>1, <2>2
<1>4. Reading'
  BY <1>1 DEF Reading
<1>5. QED
  BY <1>1, <1>2, <1>3, <1>4 DEF Pages

LEMMA PagesStep == TypeOK /\ Pages /\ [Next]_vars => Pages'
<1> SUFFICES ASSUME TypeOK, Pages, [Next]_vars PROVE Pages'
  OBVIOUS
<1>1. CASE Start
  <2>1. work'.queued = work.queued
    BY <1>1 DEF Start, TypeOK
  <2>2. QED
    BY <1>1, <2>1, PagesOfStart DEF Start, readVars
<1>2. CASE FindDevice \/ Initialize
  BY <1>2, PagesOfStart DEF FindDevice, Initialize, readVars
<1>3. CASE ExtractParameters
  BY <1>3, PagesOfStart DEF ExtractParameters, readVars
<1>4. CASE Configure
  BY <1>4, PagesOfStart DEF Configure, readVars
<1>5. CASE SetInterval
  BY <1>5, PagesElsewhere DEF SetInterval, threadVars
<1>6. CASE Due
  BY <1>6, PagesElsewhere DEF Due, threadVars
<1>7. CASE ReadHeatMap
  <2>1. thread \in {"ready", "endless"} /\ reader = Idle
    BY <1>7 DEF Pages, ReadHeatMap
  <2>2. UNCHANGED <<control, chip, thread, map, overrun, sent>>
    BY <1>7 DEF ReadHeatMap, threadVars
  <2>3. CASE End
    <3>1. reader'.at = "notify" /\ ~ reader'.ok
      BY <2>3 DEF End, TypeOK
    <3>2. QED
      BY <2>1, <2>2, <3>1 DEF Pages, MapIsWhole, Reading
  <2>4. CASE At("poll")
    <3>1. reader'.at = "poll" /\ reader'.page = 0
      BY <2>1, <2>4 DEF At, Idle
    <3>2. QED
      BY <2>1, <2>2, <3>1 DEF Pages, MapIsWhole, Reading
  <2>5. QED
    BY <1>7, <2>3, <2>4 DEF ReadHeatMap
<1>8. CASE UNCHANGED vars
  BY <1>8, PagesElsewhere DEF vars, threadVars
<1>9. CASE Fault
  <2>1. reader'.at = "fault" /\ thread \in {"ready", "endless"} /\ UNCHANGED <<thread, sent>>
    BY <1>9 DEF Fault, At, threadVars, Pages, TypeOK
  <2>2. QED
    BY <2>1 DEF Pages, MapIsWhole, Reading
<1>10. CASE Restart
  BY <1>10 DEF Restart, Pages, MapIsWhole, Reading, Idle
<1>11. QED
  BY <1>1, <1>2, <1>3, <1>4, <1>5, <1>6, <1>7, <1>8, <1>9, <1>10, PagesMeasure, PagesPoll, PagesClear,
     PagesReadPage, PagesNotify DEF Next, ModuleThread, WorkQueue

(***************************************************************************)
(* Every pixel of a heat map that is sent has been computed, unless the    *)
(* sensor finished a subpage before the flag of the one before was         *)
(* cleared: whatever the pattern and the size of the sensor, and whichever *)
(* transfers fail (read_heat_map(), MLX90640_GetFrameData()).              *)
(***************************************************************************)
THEOREM MapsAreWhole == Spec => []MapIsWhole
<1>1. Init => Pages
  BY DEF Init, Pages, MapIsWhole, Reading, Idle
<1>2. Pages => MapIsWhole
  BY DEF Pages
<1>3. QED
  BY <1>1, <1>2, PagesStep, TypeCorrect, PTL DEF Spec

-----------------------------------------------------------------------------
(* The fault *)

(* A start without the device has failed, and only then is there a fault. *)
Told ==
  /\ device \/ thread \in {"init", "I2CInit"} \/ (thread = "ready" /\ failed)
  /\ reader.at = "fault" => ~ device /\ thread \in {"ready", "endless"}

LEMMA ToldStep == TypeOK /\ Pages /\ Told /\ [Next]_vars => Told'
<1> SUFFICES ASSUME TypeOK, Pages, Told, [Next]_vars PROVE Told'
  OBVIOUS
<1>1. CASE ModuleThread
  <2>1. thread \notin {"ready", "endless"}
    BY <1>1, FollowingSteps
       DEF ModuleThread, Start, FindDevice, Initialize, ExtractParameters, Configure
  <2>2. reader' = reader /\ reader.at = "idle"
    BY <1>1, <2>1
       DEF ModuleThread, Start, FindDevice, Initialize, ExtractParameters, Configure, readVars,
           Pages
  <2>3. CASE Start
    BY <2>2, <2>3 DEF Start, Told
  <2>4. CASE FindDevice
    BY <2>2, <2>4 DEF FindDevice, GiveUp, Told
  <2>5. CASE Initialize \/ ExtractParameters \/ Configure
    <3>1. device /\ device' = device
      BY <2>5 DEF Initialize, ExtractParameters, Configure, Told
    <3>2. QED
      BY <2>2, <3>1 DEF Told
  <2>6. QED
    BY <1>1, <2>3, <2>4, <2>5 DEF ModuleThread
<1>2. CASE Fault
  <2>1. ~ device /\ thread \in {"ready", "endless"} /\ UNCHANGED <<device, thread, failed>>
    BY <1>2 DEF Fault, threadVars, Pages
  <2>2. QED
    BY <2>1 DEF Told
<1>3. CASE SetInterval \/ Measure \/ Due \/ UNCHANGED vars
  BY <1>3 DEF SetInterval, Measure, Due, vars, threadVars, readVars, Told
<1>4. CASE ReadHeatMap \/ Poll \/ Clear \/ ReadPage \/ Notify
  <2>1. reader'.at # "fault"
    <3>1. reader \in [at : Places, page : 0 .. 1, status : 0 .. 1, ok : BOOLEAN]
      BY DEF TypeOK
    <3>2. CASE Notify
      BY <3>2 DEF Notify, Idle
    <3>3. CASE ReadHeatMap \/ Clear
      BY <3>1, <3>3 DEF ReadHeatMap, Clear, End, At
    <3>4. CASE Poll
      BY <3>1, <3>4 DEF Poll, End
    <3>5. CASE ReadPage
      <4>1. \/ reader' = [reader EXCEPT !.at = "notify", !.ok = FALSE]
            \/ reader' = [reader EXCEPT !.at = "poll", !.page = 1]
            \/ reader' = [reader EXCEPT !.at = "notify"]
        BY <3>5 DEF ReadPage, End
      <4>2. QED
        BY <3>1, <4>1
    <3>6. QED
      BY <1>4, <3>2, <3>3, <3>4, <3>5
  <2>2. UNCHANGED <<device, thread, failed>>
    BY <1>4 DEF ReadHeatMap, Poll, Clear, ReadPage, Notify, threadVars
  <2>3. QED
    BY <2>1, <2>2 DEF Told
<1>5. CASE Restart
  BY <1>5 DEF Restart, Idle, Told
<1>6. QED
  BY <1>1, <1>2, <1>3, <1>4, <1>5 DEF Next, WorkQueue

(***************************************************************************)
(* read_heat_map() transfers through the null pointer of a bus that was    *)
(* not found only after SENSORS_EVT_ERROR was sent, although its work item *)
(* is scheduled before MLX90640_I2CInit() is called (init_mlx60940()).     *)
(***************************************************************************)
THEOREM FaultsAreTold == Spec => []FaultIsTold
<1>1. Init => Pages /\ Told
  BY DEF Init, Pages, MapIsWhole, Reading, Idle, Told
<1>2. Told => FaultIsTold
  BY DEF Told, FaultIsTold
<1>3. QED
  BY <1>1, <1>2, PagesStep, ToldStep, TypeCorrect, PTL DEF Spec

-----------------------------------------------------------------------------
(* The string matcher: what is true of its state *)

Byte == 0..255

Tokens == {<<b>> : b \in Byte} \cup (Nat \X Nat)

(* From p on there are n zeros, and they end by size. *)
IsStreak(D, size, n, p) ==
  /\ n \in 0..MaxLength /\ p + n <= size
  /\ \A q \in p..(p + n - 1) : D[q + 1] = 0

(* A match for the bytes at pos, if it is one. *)
IsMatch(m, D, size, W, pos) ==
  /\ m \in Nat \X Nat
  /\ m[1] > 0 =>
       /\ m[2] \in 1..(W - 1) /\ m[2] <= pos
       /\ pos + m[1] <= size
       /\ \A q \in pos..(pos + m[1] - 1) : D[q + 1] = D[q - m[2] + 1]

(* A slot of the ring, or of a table, that one of the first v visits wrote. *)
Slots(W) == 0..(W - 1)
Entered(table, W, v) == \A k \in DOMAIN table : table[k] = Unset \/ table[k] \in Slots(W) \cap 0..(v - 1)
Chained(chain, W, v) ==
  /\ chain \in [Slots(W) -> Slots(W)]
  /\ \A w \in Slots(W) : chain[w] = w \/ chain[w] < v

IsHash(hash) == DOMAIN hash = {"head", "headz", "val", "chain", "chainz", "zeros"}

(* The ring after the first v positions have been visited. *)
Ring(hash, D, W, v) ==
  /\ IsHash(hash)
  /\ Entered(hash.head, W, v) /\ Entered(hash.headz, W, v)
  /\ Chained(hash.chain, W, v) /\ Chained(hash.chainz, W, v)
  /\ hash.zeros \in [Slots(W) -> Int]
  /\ \A p \in 0..(v - 1) : p > v - 1 - W => IsStreak(D, Len(D), hash.zeros[p % W], p)

IsMatcher(m) ==
  /\ DOMAIN m = {"phase", "hash", "pos", "out", "numzeros", "lazy", "deferred",
                 "hashpos", "tries", "prev", "best", "left"}
  /\ m.phase \in {"arrive", "search", "decide", "emit", "cover"}
  /\ m.pos \in Nat /\ m.left \in Nat /\ m.lazy \in BOOLEAN
  /\ m.out \in Seq(Tokens)

(* What the phases of the loop have in common. *)
Matching(m, D, size, W, v) ==
  /\ Ring(m.hash, D, W, v) /\ v <= size
  /\ IsStreak(D, size, m.numzeros, v - 1)
  /\ \A i \in DOMAIN m.out : Len(m.out[i]) = 2 => m.out[i][2] \in 1..(W - 1)

(* A match is deferred at the position before. *)
Deferring(m, D, size, W) ==
  m.lazy => /\ m.pos > 0 /\ m.pos < size
            /\ m.deferred[1] >= 3 /\ IsMatch(m.deferred, D, size, W, m.pos - 1)

(* Where the matcher is when the first v positions have been visited. *)
Arriving(m, D, size, W, v) ==
  m.phase = "arrive" =>
    /\ m.left = 0 /\ v \in {m.pos, m.pos + 1} /\ m.pos <= size
    /\ Deferring(m, D, size, W) /\ (m.lazy => v = m.pos)

Searching(m, D, size, W, v) ==
  m.phase \in {"search", "decide"} =>
    /\ m.left = 0 /\ v = m.pos + 1
    /\ Deferring(m, D, size, W) /\ IsMatch(m.best, D, size, W, m.pos)
    /\ m.phase = "search" => m.hashpos \in Slots(W) /\ m.hashpos < v

Emitting(m, D, size, W, v) ==
  m.phase = "emit" =>
    /\ m.left = 0 /\ v \in {m.pos + 1, m.pos + 2} /\ ~m.lazy
    /\ IsMatch(m.best, D, size, W, m.pos)

Covering(m, D, size, W, v) ==
  m.phase = "cover" =>
    /\ m.left > 0 /\ m.pos + m.left <= size /\ v \in {m.pos, m.pos + 1} /\ ~m.lazy

BlockOK(m, D, size, W, v) ==
  /\ IsMatcher(m)
  /\ Matching(m, D, size, W, v)
  /\ Arriving(m, D, size, W, v) /\ Searching(m, D, size, W, v)
  /\ Emitting(m, D, size, W, v) /\ Covering(m, D, size, W, v)

-----------------------------------------------------------------------------
(* Arithmetic of the ring *)

(* A walk from a to b stops at the first place of S, or at b. *)
LEMMA WalkStops ==
  ASSUME NEW a \in Nat, NEW b \in Nat, a <= b, NEW S
  PROVE  \E p \in a..b : (p = b \/ p \in S) /\ \A q \in a..(p - 1) : q \notin S
<1> DEFINE T == {p \in a..b : p = b \/ p \in S}
<1>1. T \in SUBSET Nat /\ b \in T
  OBVIOUS
<1>2. PICK p \in T : \A q \in T : p <= q
  BY <1>1, LeastElement
<1>3. \A q \in a..(p - 1) : q \notin T /\ q \in a..b
  BY <1>1, <1>2
<1>4. QED
  BY <1>2, <1>3

LEMMA SlotType ==
  ASSUME NEW W \in Nat \ {0}, NEW p \in Nat
  PROVE  p % W \in Slots(W) /\ p % W <= p
BY DEF Slots

(* Two positions less than a window apart have slots of their own. *)
LEMMA SlotsApart ==
  ASSUME NEW W \in Nat \ {0}, NEW p \in Nat, NEW q \in Nat,
         p <= q, q - p < W, p % W = q % W
  PROVE  p = q
<1> DEFINE d == (q \div W) - (p \div W)
<1>1. p = W * (p \div W) + (p % W) /\ q = W * (q \div W) + (q % W)
  OBVIOUS
<1>2. p \div W \in Int /\ q \div W \in Int
  OBVIOUS
<1>3. d \in Int /\ q - p = W * d
  BY <1>1, <1>2
<1> HIDE DEF d
<1>4. d >= 1 => W * d >= W
  BY <1>3
<1>5. d <= -1 => W * d <= -W
  BY <1>3
<1>6. QED
  BY <1>3, <1>4, <1>5

(* The position of a slot that has been written when the first pos + 1     *)
(* positions have been visited: it is less than a window back.             *)
LEMMA SlotPosition ==
  ASSUME NEW W \in Nat \ {0}, NEW pos \in Nat, NEW h \in Slots(W), h < pos + 1
  PROVE  LET back == IF h <= pos % W THEN (pos % W) - h ELSE (pos % W) - h + W
         IN  back \in 0..(W - 1) /\ back <= pos /\ (pos - back) % W = h
<1> DEFINE back == IF h <= pos % W THEN (pos % W) - h ELSE (pos % W) - h + W
           k == pos \div W
           w == pos % W
<1>1. k \in Int /\ w \in 0..(W - 1) /\ pos = W * k + w /\ k >= 0
  OBVIOUS
<1>2. \A j \in Int : \A r \in 0..(W - 1) : (W * j + r) % W = r
  OBVIOUS
<1>3. h \in 0..(W - 1) /\ h \in Int
  BY DEF Slots
<1>4. back = IF h <= w THEN w - h ELSE w - h + W
  OBVIOUS
<1> HIDE DEF k, w, back
<1>5. CASE h <= w
  <2>1. back = w - h /\ back \in 0..(W - 1) /\ back <= w
    BY <1>4, <1>1, <1>3, <1>5
  <2>2. w <= pos
    BY SlotType DEF w
  <2>3. pos - back = W * k + h
    BY <1>1, <1>3, <2>1
  <2>4. QED
    BY <1>1, <1>2, <1>3, <2>1, <2>2, <2>3, SMTT(30)
<1>6. CASE ~ (h <= w)
  <2>1. back = w - h + W /\ back \in 0..(W - 1)
    BY <1>4, <1>1, <1>3, <1>6
  <2>2. k >= 1
    <3>1. k = 0 => W * k = 0
      BY <1>1
    <3>2. QED
      BY <1>1, <1>3, <1>6, <3>1
  <2>3. W * k >= W /\ W * k - W = W * (k - 1)
    BY <1>1, <2>2
  <2>4. pos - back = W * (k - 1) + h
    BY <1>1, <1>3, <2>1, <2>3
  <2>5. (pos - back) % W = h
    BY <1>1, <1>2, <1>3, <2>4
  <2>6. back <= pos
    BY <1>1, <1>3, <2>1, <2>3
  <2>7. QED
    BY <2>1, <2>5, <2>6 DEF back
<1>7. QED
  BY <1>5, <1>6 DEF back

-----------------------------------------------------------------------------
(* Streaks of zeros *)

LEMMA LeastBounds ==
  ASSUME NEW a \in Int, NEW b \in Int
  PROVE  Least(a, b) \in Int /\ Least(a, b) <= a /\ Least(a, b) <= b /\ Least(a, b) \in {a, b}
BY DEF Least

LEMMA ZerosAhead ==
  ASSUME NEW D, NEW size \in Nat, NEW pos \in Nat, pos <= size
  PROVE  IsStreak(D, size, CountZeros(D, size, pos), pos)
<1> DEFINE end == Least(size, pos + MaxLength)
           P(p) == /\ p = end \/ D[p + 1] # 0
                   /\ \A q \in pos..(p - 1) : D[q + 1] = 0
           stop == CHOOSE p \in pos..end : P(p)
<1>1. end \in Nat /\ pos <= end /\ end <= size /\ end <= pos + MaxLength
  BY DEF Least, MaxLength
<1> HIDE DEF end
<1>2. \E p \in pos..end : P(p)
  <2> DEFINE S == {q \in Nat : D[q + 1] # 0}
  <2>1. PICK p \in pos..end : (p = end \/ p \in S) /\ \A q \in pos..(p - 1) : q \notin S
    BY <1>1, WalkStops
  <2>2. \A q \in pos..(p - 1) : D[q + 1] = 0
    BY <1>1, <2>1
  <2>3. QED
    BY <2>1, <2>2
<1> HIDE DEF P
<1>3. stop \in pos..end /\ P(stop)
  BY <1>2
<1>4. CountZeros(D, size, pos) = stop - pos
  BY DEF CountZeros, stop, P, end
<1> HIDE DEF stop
<1>5. stop - pos \in 0..MaxLength /\ pos + (stop - pos) = stop /\ stop <= size
  BY <1>1, <1>3 DEF MaxLength
<1>6. \A q \in pos..(stop - 1) : D[q + 1] = 0
  BY <1>3 DEF P
<1>7. QED
  BY <1>4, <1>5, <1>6 DEF IsStreak

(* The streak is carried from the position visited last to this one, or is *)
(* of this one already, which was then visited before.                     *)
LEMMA ZerosCarried ==
  ASSUME NEW D, NEW size \in Nat, NEW pos \in Nat, pos < size,
         NEW v \in {pos, pos + 1}, NEW n, IsStreak(D, size, n, v - 1)
  PROVE  IsStreak(D, size, NextZeros(n, D, size, pos), pos)
<1>1. IsStreak(D, size, 0, pos)
  BY DEF IsStreak, MaxLength
<1>2. IsStreak(D, size, CountZeros(D, size, pos), pos)
  BY ZerosAhead
<1>3. n \in Nat /\ n <= MaxLength /\ v - 1 + n <= size
  BY DEF IsStreak
<1>4. ASSUME n # 0, pos + n > size \/ D[pos + n] # 0
      PROVE  IsStreak(D, size, n - 1, pos)
  <2>1. CASE v = pos
    BY <1>3, <1>4, <2>1 DEF IsStreak, MaxLength
  <2>2. CASE v = pos + 1
    <3>1. pos + n <= size
      BY <1>3, <2>2
    <3>2. pos + n - 1 \in (v - 1)..(v - 1 + n - 1)
      BY <1>3, <1>4, <2>2
    <3>3. D[pos + n - 1 + 1] = 0
      BY <3>2 DEF IsStreak
    <3>4. pos + n - 1 + 1 = pos + n
      BY <1>3
    <3>5. QED
      BY <1>3, <1>4, <3>1, <3>3, <3>4
  <2>3. QED
    BY <2>1, <2>2
<1>5. ASSUME n # 0, ~ (pos + n > size \/ D[pos + n] # 0)
      PROVE  IsStreak(D, size, n, pos)
  <2>1. CASE v = pos
    <3>1. \A q \in pos..(pos + n - 1) : D[q + 1] = 0
      <4> TAKE q \in pos..(pos + n - 1)
      <4>1. CASE q = pos + n - 1
        <5>1. q + 1 = pos + n
          BY <1>3, <4>1
        <5>2. QED
          BY <1>5, <5>1
      <4>2. CASE q < pos + n - 1
        BY <1>3, <2>1, <4>2 DEF IsStreak
      <4>3. QED
        BY <1>3, <4>1, <4>2
    <3>2. QED
      BY <1>3, <1>5, <3>1 DEF IsStreak
  <2>2. CASE v = pos + 1
    BY <1>3, <2>2 DEF IsStreak
  <2>3. QED
    BY <2>1, <2>2
<1>6. QED
  BY <1>1, <1>2, <1>4, <1>5 DEF NextZeros

(* A streak of a block is one of the data. *)
LEMMA StreakOfData ==
  ASSUME NEW D, NEW size \in Nat, NEW total \in Nat, size <= total,
         NEW p \in Int, NEW n, IsStreak(D, size, n, p)
  PROVE  IsStreak(D, total, n, p)
BY DEF IsStreak, MaxLength

-----------------------------------------------------------------------------
(* Matches *)

(* What is compared is a match, when what is skipped is one. *)
LEMMA Compared ==
  ASSUME NEW D, NEW size \in Nat, NEW W \in Nat, NEW pos \in Nat,
         NEW back \in 1..(W - 1), back <= pos,
         NEW skip \in 0..MaxLength, pos + skip <= size,
         \A q \in pos..(pos + skip - 1) : D[q + 1] = D[q - back + 1]
  PROVE  IsMatch(<<MatchLength(D, size, pos, back, skip), back>>, D, size, W, pos)
<1> DEFINE last == Least(size, pos + MaxLength)
           P(p) == /\ p = last \/ D[p + 1] # D[p - back + 1]
                   /\ \A q \in (pos + skip)..(p - 1) : D[q + 1] = D[q - back + 1]
           stop == CHOOSE p \in (pos + skip)..last : P(p)
<1>1. last \in Nat /\ pos + skip <= last /\ last <= size /\ pos + skip \in Nat
  BY DEF Least, MaxLength
<1> HIDE DEF last
<1>2. \E p \in (pos + skip)..last : P(p)
  <2> DEFINE S == {q \in Nat : D[q + 1] # D[q - back + 1]}
  <2>1. PICK p \in (pos + skip)..last :
               (p = last \/ p \in S) /\ \A q \in (pos + skip)..(p - 1) : q \notin S
    BY <1>1, WalkStops
  <2>2. \A q \in (pos + skip)..(p - 1) : D[q + 1] = D[q - back + 1]
    BY <1>1, <2>1
  <2>3. QED
    BY <2>1, <2>2
<1> HIDE DEF P
<1>3. stop \in (pos + skip)..last /\ P(stop)
  BY <1>2
<1>4. MatchLength(D, size, pos, back, skip) = stop - pos
  BY DEF MatchLength, stop, P, last
<1> HIDE DEF stop
<1>5. stop - pos \in Nat /\ pos + (stop - pos) = stop /\ stop <= size
  BY <1>1, <1>3
<1>6. \A q \in (pos + skip)..(stop - 1) : D[q + 1] = D[q - back + 1]
  BY <1>3 DEF P
<1>7. \A q \in pos..(stop - 1) : D[q + 1] = D[q - back + 1]
  BY <1>1, <1>3, <1>6
<1>8. QED
  BY <1>4, <1>5, <1>7 DEF IsMatch

-----------------------------------------------------------------------------
(* The ring *)

LEMMA LookupEntered ==
  ASSUME NEW table, NEW W, NEW v, Entered(table, W, v), NEW key, Lookup(table, key) # Unset
  PROVE  Lookup(table, key) \in Slots(W) \cap 0..(v - 1)
BY DEF Lookup, Entered

LEMMA PutEntered ==
  ASSUME NEW table, NEW W \in Nat, NEW v \in Nat, NEW u \in Nat, v <= u, Entered(table, W, v),
         NEW key, NEW value, value = Unset \/ value \in Slots(W) \cap 0..(u - 1)
  PROVE  Entered(Put(table, key, value), W, u)
<1> DEFINE new == Put(table, key, value)
<1>1. DOMAIN new = DOMAIN table \cup {key}
  BY DEF Put
<1>2. \A k \in DOMAIN new : new[k] = IF k = key THEN value ELSE table[k]
  BY DEF Put
<1> HIDE DEF new
<1>3. \A k \in DOMAIN table : table[k] = Unset \/ table[k] \in Slots(W) \cap 0..(u - 1)
  BY DEF Entered, Slots
<1>4. QED
  BY <1>1, <1>2, <1>3 DEF Entered, new

LEMMA PutChained ==
  ASSUME NEW chain, NEW W \in Nat, NEW v \in Nat, NEW u \in Nat, v <= u, Chained(chain, W, v),
         NEW w \in Slots(W), NEW value \in Slots(W), value < u
  PROVE  Chained([chain EXCEPT ![w] = value], W, u)
<1>1. \A k \in Slots(W) : chain[k] = k \/ chain[k] < u
  BY DEF Chained, Slots
<1>2. QED
  BY <1>1 DEF Chained

LEMMA ChainedOn ==
  ASSUME NEW chain, NEW W \in Nat, NEW v \in Nat, NEW u \in Nat, v <= u, Chained(chain, W, v)
  PROVE  Chained(chain, W, u)
BY DEF Chained, Slots

(* A position is entered in the ring: the next one, or the last one again. *)
LEMMA RingStep ==
  ASSUME NEW hash, NEW D, Len(D) \in Nat, NEW W \in Nat \ {0}, NEW v \in Nat, Ring(hash, D, W, v),
         NEW p \in Nat, p \in {v - 1, v}, NEW h, NEW n \in Int, IsStreak(D, Len(D), n, p)
  PROVE  /\ Ring(UpdateHashChain(hash, p % W, h, n), D, W, p + 1)
         /\ UpdateHashChain(hash, p % W, h, n).chain[p % W] \in Slots(W)
         /\ UpdateHashChain(hash, p % W, h, n).chain[p % W] < p + 1
<1> DEFINE w == p % W
           new == UpdateHashChain(hash, w, h, n)
<1>1. w \in Slots(W) /\ w <= p /\ w \in Nat /\ v <= p + 1 /\ p + 1 \in Nat
  BY SlotType DEF Slots
<1>2. /\ new.head = Put(hash.head, h, w) /\ new.headz = Put(hash.headz, n, w)
      /\ new.zeros = [hash.zeros EXCEPT ![w] = n]
      /\ new.chain = IF Lookup(hash.head, h) # Unset
                     THEN [hash.chain EXCEPT ![w] = Lookup(hash.head, h)] ELSE hash.chain
      /\ new.chainz = IF Lookup(hash.headz, n) # Unset
                      THEN [hash.chainz EXCEPT ![w] = Lookup(hash.headz, n)] ELSE hash.chainz
      /\ IsHash(new)
  BY DEF UpdateHashChain, IsHash
<1> HIDE DEF w, new
<1>3. w \in Slots(W) \cap 0..(p + 1 - 1)
  BY <1>1
<1>4. Chained(hash.chain, W, v) /\ Chained(hash.chainz, W, v)
  BY DEF Ring
<1>5. Entered(new.head, W, p + 1) /\ Entered(new.headz, W, p + 1)
  BY <1>1, <1>2, <1>3, PutEntered DEF Ring
<1>6. Chained(new.chain, W, p + 1)
  <2>1. CASE Lookup(hash.head, h) # Unset
    <3>1. Lookup(hash.head, h) \in Slots(W) /\ Lookup(hash.head, h) < p + 1
      BY <1>1, <2>1, LookupEntered DEF Ring
    <3>2. Chained([hash.chain EXCEPT ![w] = Lookup(hash.head, h)], W, p + 1)
      BY <1>4, <1>1, <3>1, PutChained
    <3>3. QED
      BY <1>2, <2>1, <3>2
  <2>2. CASE Lookup(hash.head, h) = Unset
    BY <1>1, <1>2, <2>2, ChainedOn DEF Ring
  <2>3. QED
    BY <2>1, <2>2
<1>7. Chained(new.chainz, W, p + 1)
  <2>1. CASE Lookup(hash.headz, n) # Unset
    <3>1. Lookup(hash.headz, n) \in Slots(W) /\ Lookup(hash.headz, n) < p + 1
      BY <1>1, <2>1, LookupEntered DEF Ring
    <3>2. Chained([hash.chainz EXCEPT ![w] = Lookup(hash.headz, n)], W, p + 1)
      BY <1>4, <1>1, <3>1, PutChained
    <3>3. QED
      BY <1>2, <2>1, <3>2
  <2>2. CASE Lookup(hash.headz, n) = Unset
    BY <1>1, <1>2, <2>2, ChainedOn DEF Ring
  <2>3. QED
    BY <2>1, <2>2
<1>8. new.zeros \in [Slots(W) -> Int]
  BY <1>1, <1>2 DEF Ring
<1>9. ASSUME NEW q \in 0..(p + 1 - 1), q > p + 1 - 1 - W
      PROVE  IsStreak(D, Len(D), new.zeros[q % W], q)
  <2>1. q \in Nat /\ q <= p
    OBVIOUS
  <2>2. q % W \in Slots(W)
    BY <2>1, SlotType
  <2>3. CASE q = p
    BY <1>1, <1>2, <2>3 DEF Ring, w
  <2>4. CASE q # p
    <3>1. q % W # w
      <4>1. p - q < W
        BY <1>9, <2>1
      <4>2. QED
        BY <2>1, <2>4, <4>1, SlotsApart DEF w
    <3>2. q \in 0..(v - 1) /\ q > v - 1 - W
      BY <1>9, <2>4
    <3>3. IsStreak(D, Len(D), hash.zeros[q % W], q)
      BY <3>2 DEF Ring
    <3>4. QED
      BY <1>2, <2>2, <3>1, <3>3 DEF Ring
  <2>5. QED
    BY <2>3, <2>4
<1>10. Ring(new, D, W, p + 1)
  <2>1. ASSUME NEW u, u = p + 1
        PROVE  Ring(new, D, W, u)
    <3>1. \A q \in 0..(u - 1) : q > u - 1 - W => IsStreak(D, Len(D), new.zeros[q % W], q)
      BY <1>9, <2>1
    <3>2. QED
      BY <1>2, <1>5, <1>6, <1>7, <1>8, <2>1, <3>1, ZenonT(30) DEF Ring
  <2>2. QED
    BY <2>1
<1>11. new.chain[w] \in Slots(W) /\ new.chain[w] < p + 1
  <2>1. new.chain[w] \in Slots(W) /\ (new.chain[w] = w \/ new.chain[w] < p + 1)
    BY <1>1, <1>6 DEF Chained
  <2>2. QED
    BY <1>1, <2>1
<1>12. QED
  BY <1>10, <1>11 DEF new, w

LEMMA RingNew ==
  ASSUME NEW D, NEW W \in Nat
  PROVE  Ring(NewHash(W), D, W, 0)
BY DEF Ring, NewHash, IsHash, Entered, Chained, Slots, Unset

(* Taking entries out of the tables leaves a ring. *)
LEMMA RingForgets ==
  ASSUME NEW hash, NEW D, NEW W \in Nat, NEW v \in Nat, Ring(hash, D, W, v), NEW k, NEW l
  PROVE  Ring([[hash EXCEPT !.head = Put(hash.head, k, Unset)]
                    EXCEPT !.headz = Put(hash.headz, l, Unset)], D, W, v)
<1> DEFINE new == [[hash EXCEPT !.head = Put(hash.head, k, Unset)]
                        EXCEPT !.headz = Put(hash.headz, l, Unset)]
<1>1. /\ new.head = Put(hash.head, k, Unset) /\ new.headz = Put(hash.headz, l, Unset)
      /\ new.chain = hash.chain /\ new.chainz = hash.chainz /\ new.zeros = hash.zeros
      /\ IsHash(new)
  BY DEF Ring, IsHash
<1> HIDE DEF new
<1>2. Entered(new.head, W, v) /\ Entered(new.headz, W, v)
  BY <1>1, PutEntered DEF Ring
<1>3. QED
  BY <1>1, <1>2 DEF Ring, new

-----------------------------------------------------------------------------
(* The turns of the matcher, field by field *)

LEMMA VisitFields ==
  ASSUME NEW m, IsMatcher(m), NEW D, NEW size, NEW s
  PROVE  LET r == Visit(m, D, size, s)
             n == NextZeros(m.numzeros, D, size, m.pos)
         IN  /\ DOMAIN r = DOMAIN m
             /\ r.numzeros = n
             /\ r.hash = UpdateHashChain(m.hash, m.pos % s.windowsize, GetHash(D, size, m.pos), n)
             /\ r.phase = m.phase /\ r.pos = m.pos /\ r.out = m.out /\ r.lazy = m.lazy
             /\ r.deferred = m.deferred /\ r.left = m.left /\ r.best = m.best
BY DEF Visit, IsMatcher

LEMMA ArriveFields ==
  ASSUME NEW m, IsMatcher(m), NEW D, NEW size, NEW s
  PROVE  LET r == Arrive(m, D, size, s)
             h == Visit(m, D, size, s)
         IN  /\ DOMAIN r = DOMAIN m
             /\ r.phase = "search" /\ r.hash = h.hash /\ r.numzeros = h.numzeros
             /\ r.hashpos = h.hash.chain[m.pos % s.windowsize]
             /\ r.best = <<0, 0>> /\ r.pos = m.pos /\ r.out = m.out /\ r.lazy = m.lazy
             /\ r.deferred = m.deferred /\ r.left = m.left
<1> DEFINE h == Visit(m, D, size, s)
<1>1. /\ DOMAIN h = DOMAIN m /\ h.pos = m.pos /\ h.out = m.out /\ h.lazy = m.lazy
      /\ h.deferred = m.deferred /\ h.left = m.left
  BY VisitFields
<1> HIDE DEF h
<1>2. QED
  BY <1>1 DEF Arrive, IsMatcher, h

LEMMA CoverFields ==
  ASSUME NEW m, IsMatcher(m), NEW D, NEW size, NEW s
  PROVE  LET r == Cover(m, D, size, s)
             h == Visit(m, D, size, s)
         IN  /\ DOMAIN r = DOMAIN m
             /\ r.phase = (IF m.left = 1 THEN "arrive" ELSE "cover")
             /\ r.hash = h.hash /\ r.numzeros = h.numzeros
             /\ r.pos = m.pos + 1 /\ r.left = m.left - 1
             /\ r.out = m.out /\ r.lazy = m.lazy /\ r.deferred = m.deferred
<1> DEFINE h == Visit(m, D, size, s)
<1>1. /\ DOMAIN h = DOMAIN m /\ h.pos = m.pos /\ h.out = m.out /\ h.lazy = m.lazy
      /\ h.deferred = m.deferred /\ h.left = m.left
  BY VisitFields
<1> HIDE DEF h
<1>2. QED
  BY <1>1 DEF Cover, IsMatcher, h

LEMMA ForgetFields ==
  ASSUME NEW m, IsMatcher(m), IsHash(m.hash), NEW s
  PROVE  LET r == Forget(m, s)
         IN  /\ DOMAIN r = DOMAIN m
             /\ r.hash = [[m.hash EXCEPT !.head = Put(m.hash.head, m.hash.val[m.pos % s.windowsize], Unset)]
                              EXCEPT !.headz = Put(m.hash.headz, m.numzeros, Unset)]
             /\ r.pos = m.pos - 1 /\ r.numzeros = m.numzeros
             /\ r.phase = m.phase /\ r.out = m.out /\ r.lazy = m.lazy /\ r.left = m.left
BY DEF Forget, IsMatcher, IsHash

-----------------------------------------------------------------------------
(* A visit, and the turns that make one *)

LEMMA VisitOK ==
  ASSUME NEW D \in Seq(Byte), NEW size \in Nat, size <= Len(D), NEW s, NEW W \in Nat \ {0},
         W = s.windowsize, NEW m, IsMatcher(m), m.pos < size,
         NEW v \in {m.pos, m.pos + 1}, Matching(m, D, size, W, v)
  PROVE  LET r == Visit(m, D, size, s)
         IN  /\ Matching(r, D, size, W, m.pos + 1)
             /\ r.hash.chain[m.pos % W] \in Slots(W) /\ r.hash.chain[m.pos % W] < m.pos + 1
<1> DEFINE r == Visit(m, D, size, s)
           p == m.pos
           n == NextZeros(m.numzeros, D, size, p)
<1>1. p \in Nat /\ v \in Nat /\ p \in {v - 1, v} /\ p < size
  BY DEF IsMatcher
<1>2. r.numzeros = n /\ r.out = m.out
      /\ r.hash = UpdateHashChain(m.hash, p % W, GetHash(D, size, p), n)
  BY VisitFields
<1>3. IsStreak(D, size, n, p)
  <2>1. v \in {p, p + 1}
    OBVIOUS
  <2>2. IsStreak(D, size, m.numzeros, v - 1)
    BY DEF Matching
  <2> HIDE DEF p
  <2>3. QED
    BY <1>1, <2>1, <2>2, ZerosCarried
<1> HIDE DEF r, p, n
<1>4. IsStreak(D, Len(D), n, p) /\ n \in Int /\ Len(D) \in Nat
  BY <1>1, <1>3, StreakOfData DEF IsStreak
<1>5. Ring(m.hash, D, W, v)
  BY DEF Matching
<1>6. Ring(r.hash, D, W, p + 1) /\ r.hash.chain[p % W] \in Slots(W)
      /\ r.hash.chain[p % W] < p + 1
  BY <1>1, <1>2, <1>4, <1>5, RingStep
<1>7. IsStreak(D, size, r.numzeros, p + 1 - 1) /\ p + 1 <= size
  BY <1>1, <1>2, <1>3
<1>8. \A i \in DOMAIN r.out : Len(r.out[i]) = 2 => r.out[i][2] \in 1..(W - 1)
  BY <1>2 DEF Matching
<1>9. Matching(r, D, size, W, p + 1)
  <2>1. ASSUME NEW u, u = p + 1  PROVE Matching(r, D, size, W, u)
    BY <1>1, <1>6, <1>7, <1>8, <2>1 DEF Matching
  <2>2. QED
    BY <2>1
<1>10. QED
  BY <1>6, <1>9 DEF r, p

LEMMA ArriveOK ==
  ASSUME NEW D \in Seq(Byte), NEW size \in Nat, size <= Len(D), NEW s, NEW W \in Nat \ {0},
         W = s.windowsize, NEW m, NEW v, BlockOK(m, D, size, W, v),
         m.phase = "arrive", m.pos < size
  PROVE  BlockOK(Arrive(m, D, size, s), D, size, W, m.pos + 1)
<1> DEFINE r == Arrive(m, D, size, s)
           h == Visit(m, D, size, s)
<1>1. IsMatcher(m) /\ m.pos \in Nat
  BY DEF BlockOK, IsMatcher
<1>2. /\ m.left = 0 /\ v \in {m.pos, m.pos + 1}
      /\ Deferring(m, D, size, W) /\ Matching(m, D, size, W, v)
  BY DEF BlockOK, Arriving
<1>3. /\ DOMAIN r = DOMAIN m
      /\ r.phase = "search" /\ r.hash = h.hash /\ r.numzeros = h.numzeros
      /\ r.hashpos = h.hash.chain[m.pos % W]
      /\ r.best = <<0, 0>> /\ r.pos = m.pos /\ r.out = m.out /\ r.lazy = m.lazy
      /\ r.deferred = m.deferred /\ r.left = m.left
  BY <1>1, ArriveFields
<1>4. Matching(h, D, size, W, m.pos + 1)
      /\ h.hash.chain[m.pos % W] \in Slots(W) /\ h.hash.chain[m.pos % W] < m.pos + 1
  BY <1>1, <1>2, VisitOK
<1>5. h.out = m.out
  BY <1>1, VisitFields
<1> HIDE DEF r, h
<1>6. IsMatcher(r)
  BY <1>1, <1>3 DEF IsMatcher
<1>7. Matching(r, D, size, W, m.pos + 1)
  BY <1>3, <1>4, <1>5 DEF Matching
<1>8. Deferring(r, D, size, W)
  BY <1>2, <1>3 DEF Deferring
<1>9. IsMatch(r.best, D, size, W, r.pos)
  BY <1>3 DEF IsMatch
<1>10. Searching(r, D, size, W, m.pos + 1)
  BY <1>2, <1>3, <1>4, <1>8, <1>9 DEF Searching
<1>11. Arriving(r, D, size, W, m.pos + 1) /\ Emitting(r, D, size, W, m.pos + 1)
       /\ Covering(r, D, size, W, m.pos + 1)
  BY <1>3 DEF Arriving, Emitting, Covering
<1>12. QED
  BY <1>6, <1>7, <1>10, <1>11 DEF BlockOK, r

LEMMA CoverOK ==
  ASSUME NEW D \in Seq(Byte), NEW size \in Nat, size <= Len(D), NEW s, NEW W \in Nat \ {0},
         W = s.windowsize, NEW m, NEW v, BlockOK(m, D, size, W, v), m.phase = "cover"
  PROVE  BlockOK(Cover(m, D, size, s), D, size, W, m.pos + 1)
<1> DEFINE r == Cover(m, D, size, s)
           h == Visit(m, D, size, s)
<1>1. IsMatcher(m) /\ m.pos \in Nat /\ m.left \in Nat
  BY DEF BlockOK, IsMatcher
<1>2. /\ m.left > 0 /\ m.pos + m.left <= size /\ v \in {m.pos, m.pos + 1} /\ ~m.lazy
      /\ Matching(m, D, size, W, v)
  BY DEF BlockOK, Covering
<1>3. /\ DOMAIN r = DOMAIN m
      /\ r.phase = (IF m.left = 1 THEN "arrive" ELSE "cover")
      /\ r.hash = h.hash /\ r.numzeros = h.numzeros
      /\ r.pos = m.pos + 1 /\ r.left = m.left - 1
      /\ r.out = m.out /\ r.lazy = m.lazy /\ r.deferred = m.deferred
  BY <1>1, CoverFields
<1>4. Matching(h, D, size, W, m.pos + 1)
  BY <1>1, <1>2, VisitOK
<1>5. h.out = m.out
  BY <1>1, VisitFields
<1> HIDE DEF r, h
<1>6. IsMatcher(r)
  BY <1>1, <1>2, <1>3 DEF IsMatcher
<1>7. Matching(r, D, size, W, m.pos + 1)
  BY <1>3, <1>4, <1>5 DEF Matching
<1>8. Arriving(r, D, size, W, m.pos + 1)
  BY <1>1, <1>2, <1>3 DEF Arriving, Deferring
<1>9. Covering(r, D, size, W, m.pos + 1)
  BY <1>1, <1>2, <1>3 DEF Covering
<1>10. Searching(r, D, size, W, m.pos + 1) /\ Emitting(r, D, size, W, m.pos + 1)
  BY <1>3 DEF Searching, Emitting
<1>11. QED
  BY <1>6, <1>7, <1>8, <1>9, <1>10 DEF BlockOK, r

-----------------------------------------------------------------------------
(* A candidate *)

LEMMA CandidateOK ==
  ASSUME NEW D \in Seq(Byte), NEW size \in Nat, size <= Len(D), NEW s, NEW W \in Nat \ {0},
         W = s.windowsize, NEW m, NEW v, BlockOK(m, D, size, W, v), m.phase = "search"
  PROVE  /\ m.hashpos \in Slots(W) /\ m.hash.zeros[m.hashpos] \in Nat
         /\ Back(m, s) \in 0..(W - 1) /\ Back(m, s) <= m.pos
         /\ Skip(m, m.hashpos) \in 0..MaxLength /\ m.pos + Skip(m, m.hashpos) <= size
         /\ \A q \in m.pos..(m.pos + Skip(m, m.hashpos) - 1) : D[q + 1] = D[q - Back(m, s) + 1]
<1> DEFINE back == Back(m, s)
           skip == Skip(m, m.hashpos)
           pos == m.pos
           n == m.numzeros
           z == m.hash.zeros[m.hashpos]
<1>1. IsMatcher(m) /\ pos \in Nat
  BY DEF BlockOK, IsMatcher
<1>2. /\ v = pos + 1 /\ m.hashpos \in Slots(W) /\ m.hashpos < v
      /\ Matching(m, D, size, W, v)
  BY DEF BlockOK, Searching
<1>3. back = IF m.hashpos <= pos % W THEN (pos % W) - m.hashpos ELSE (pos % W) - m.hashpos + W
  BY DEF Back
<1> HIDE DEF back, pos
<1>4. back \in 0..(W - 1) /\ back <= pos /\ (pos - back) % W = m.hashpos
  <2>1. m.hashpos < pos + 1
    BY <1>2
  <2>2. ASSUME NEW h, h = m.hashpos
        PROVE  back \in 0..(W - 1) /\ back <= pos /\ (pos - back) % W = h
    <3>1. back = IF h <= pos % W THEN (pos % W) - h ELSE (pos % W) - h + W
      BY <1>3, <2>2
    <3>2. h \in Slots(W) /\ h < pos + 1
      BY <1>2, <2>1, <2>2
    <3>3. LET b == IF h <= pos % W THEN (pos % W) - h ELSE (pos % W) - h + W
          IN  b \in 0..(W - 1) /\ b <= pos /\ (pos - b) % W = h
      BY <1>1, <3>2, SlotPosition, SMTT(60)
    <3>4. QED
      BY <3>1, <3>3
  <2>3. QED
    BY <2>2
<1>5. IsStreak(D, Len(D), z, pos - back)
  <2>1. pos - back \in 0..(v - 1) /\ pos - back > v - 1 - W
    BY <1>1, <1>2, <1>4
  <2>2. \A p \in 0..(v - 1) : p > v - 1 - W => IsStreak(D, Len(D), m.hash.zeros[p % W], p)
    BY <1>2 DEF Matching, Ring
  <2>3. QED
    BY <1>4, <2>1, <2>2
<1>6. z \in Nat /\ \A q \in (pos - back)..(pos - back + z - 1) : D[q + 1] = 0
  BY <1>5 DEF IsStreak
<1>7. IsStreak(D, size, n, pos)
  <2>1. ASSUME NEW u, u = v - 1, IsStreak(D, size, n, u)  PROVE IsStreak(D, size, n, pos)
    BY <1>1, <1>2, <2>1
  <2>2. QED
    BY <1>2, <2>1 DEF Matching
<1>8. n \in 0..MaxLength /\ pos + n <= size /\ \A q \in pos..(pos + n - 1) : D[q + 1] = 0
  BY <1>7 DEF IsStreak
<1>9. skip = IF n >= 3 THEN Least(z, n) ELSE 0
  BY DEF Skip
<1> HIDE DEF skip, n, z
<1>10. skip \in Nat /\ skip <= n /\ (skip = 0 \/ skip <= z)
  BY <1>6, <1>8, <1>9 DEF Least
<1>11. skip \in 0..MaxLength /\ pos + skip <= size
  BY <1>1, <1>8, <1>10, SMTT(30) DEF MaxLength
<1>12. \A q \in pos..(pos + skip - 1) : D[q + 1] = D[q - back + 1]
  <2> TAKE q \in pos..(pos + skip - 1)
  <2>1. q \in pos..(pos + n - 1)
    BY <1>1, <1>8, <1>10
  <2>2. q - back \in (pos - back)..(pos - back + z - 1)
    BY <1>1, <1>4, <1>6, <1>10
  <2>3. QED
    BY <1>6, <1>8, <2>1, <2>2
<1>13. QED
  BY <1>2, <1>4, <1>6, <1>11, <1>12 DEF back, skip, pos, z

LEMMA FoundOK ==
  ASSUME NEW D \in Seq(Byte), NEW size \in Nat, size <= Len(D), NEW s, NEW W \in Nat \ {0},
         W = s.windowsize, NEW m, NEW v, BlockOK(m, D, size, W, v), m.phase = "search"
  PROVE  IsMatch(Found(m, D, size, s), D, size, W, m.pos)
<1> DEFINE back == Back(m, s)
           skip == Skip(m, m.hashpos)
           length == IF back > 0 THEN MatchLength(D, size, m.pos, back, skip) ELSE 0
<1>1. m.pos \in Nat /\ IsMatch(m.best, D, size, W, m.pos)
  BY DEF BlockOK, IsMatcher, Searching
<1>2. /\ back \in 0..(W - 1) /\ back <= m.pos
      /\ skip \in 0..MaxLength /\ m.pos + skip <= size
      /\ \A q \in m.pos..(m.pos + skip - 1) : D[q + 1] = D[q - back + 1]
  BY CandidateOK
<1>3. Found(m, D, size, s) = IF length > m.best[1] THEN <<length, back>> ELSE m.best
  BY DEF Found
<1> HIDE DEF back, skip
<1>4. CASE back > 0
  <2>1. back \in 1..(W - 1)
    BY <1>2, <1>4
  <2>2. IsMatch(<<MatchLength(D, size, m.pos, back, skip), back>>, D, size, W, m.pos)
    BY <1>1, <1>2, <2>1, Compared
  <2>3. QED
    BY <1>1, <1>3, <1>4, <2>2
<1>5. CASE ~ (back > 0)
  <2>1. length = 0 /\ m.best[1] \in Nat
    BY <1>1, <1>5 DEF IsMatch
  <2>2. QED
    BY <1>1, <1>3, <2>1
<1>6. QED
  BY <1>4, <1>5

LEMMA TryFields ==
  ASSUME NEW m, IsMatcher(m), m.phase = "search", NEW D, NEW size, NEW s
  PROVE  LET r == Try(m, D, size, s)
         IN  /\ DOMAIN r = DOMAIN m
             /\ r.phase \in {"search", "decide"}
             /\ r.best \in {m.best, Found(m, D, size, s)}
             /\ r.hashpos \in {m.hashpos, m.hash.chain[m.hashpos], m.hash.chainz[m.hashpos]}
             /\ r.hash = m.hash /\ r.numzeros = m.numzeros /\ r.pos = m.pos /\ r.out = m.out
             /\ r.lazy = m.lazy /\ r.deferred = m.deferred /\ r.left = m.left
<1> DEFINE r == Try(m, D, size, s)
           found == Found(m, D, size, s)
           along == m.numzeros >= 3 /\ found[1] > m.numzeros
           next == IF along THEN m.hash.chainz[m.hashpos] ELSE m.hash.chain[m.hashpos]
           back == Back(m, s)
<1>1. \/ r = [m EXCEPT !.phase = "decide"]
      \/ r = [m EXCEPT !.phase = "decide", !.best = found]
      \/ r = [m EXCEPT !.best = found, !.hashpos = next, !.tries = @ + 1, !.prev = back]
  BY DEF Try
<1>2. next \in {m.hash.chain[m.hashpos], m.hash.chainz[m.hashpos]}
  OBVIOUS
<1> HIDE DEF r, found, next, back
<1>3. CASE r = [m EXCEPT !.phase = "decide"]
  BY <1>3 DEF IsMatcher, r
<1>4. CASE r = [m EXCEPT !.phase = "decide", !.best = found]
  BY <1>4 DEF IsMatcher, r, found
<1>5. CASE r = [m EXCEPT !.best = found, !.hashpos = next, !.tries = @ + 1, !.prev = back]
  BY <1>2, <1>5 DEF IsMatcher, r, found
<1>6. QED
  BY <1>1, <1>3, <1>4, <1>5

LEMMA TryOK ==
  ASSUME NEW D \in Seq(Byte), NEW size \in Nat, size <= Len(D), NEW s, NEW W \in Nat \ {0},
         W = s.windowsize, NEW m, NEW v, BlockOK(m, D, size, W, v), m.phase = "search"
  PROVE  BlockOK(Try(m, D, size, s), D, size, W, v)
<1> DEFINE r == Try(m, D, size, s)
<1>1. IsMatcher(m)
  BY DEF BlockOK
<1>2. /\ m.left = 0 /\ v = m.pos + 1 /\ m.pos \in Nat
      /\ Deferring(m, D, size, W) /\ IsMatch(m.best, D, size, W, m.pos)
      /\ m.hashpos \in Slots(W) /\ m.hashpos < v
      /\ Matching(m, D, size, W, v)
  BY DEF BlockOK, Searching, IsMatcher
<1>3. /\ DOMAIN r = DOMAIN m
      /\ r.phase \in {"search", "decide"}
      /\ r.best \in {m.best, Found(m, D, size, s)}
      /\ r.hashpos \in {m.hashpos, m.hash.chain[m.hashpos], m.hash.chainz[m.hashpos]}
      /\ r.hash = m.hash /\ r.numzeros = m.numzeros /\ r.pos = m.pos /\ r.out = m.out
      /\ r.lazy = m.lazy /\ r.deferred = m.deferred /\ r.left = m.left
  BY <1>1, TryFields
<1> HIDE DEF r
<1>4. IsMatch(r.best, D, size, W, r.pos)
  BY <1>2, <1>3, FoundOK
<1>5. r.hashpos \in Slots(W) /\ r.hashpos < v
  <2>1. Chained(m.hash.chain, W, v) /\ Chained(m.hash.chainz, W, v)
    BY <1>2 DEF Matching, Ring
  <2>2. ASSUME NEW chain, Chained(chain, W, v)
        PROVE  chain[m.hashpos] \in Slots(W) /\ chain[m.hashpos] < v
    BY <1>2, <2>2 DEF Chained
  <2>3. QED
    BY <1>2, <1>3, <2>1, <2>2
<1>6. IsMatcher(r)
  BY <1>1, <1>3 DEF IsMatcher
<1>7. Matching(r, D, size, W, v)
  BY <1>2, <1>3 DEF Matching
<1>8. Deferring(r, D, size, W)
  BY <1>2, <1>3 DEF Deferring
<1>9. Searching(r, D, size, W, v)
  BY <1>2, <1>3, <1>4, <1>5, <1>8 DEF Searching
<1>10. Arriving(r, D, size, W, v) /\ Emitting(r, D, size, W, v) /\ Covering(r, D, size, W, v)
  BY <1>3 DEF Arriving, Emitting, Covering
<1>11. QED
  BY <1>6, <1>7, <1>9, <1>10 DEF BlockOK, r

-----------------------------------------------------------------------------
(* The turns that add tokens *)

LEMMA LiteralIsToken ==
  ASSUME NEW D \in Seq(Byte), NEW pos \in Nat, pos < Len(D)
  PROVE  Literal(D, pos) \in Tokens /\ Len(Literal(D, pos)) = 1 /\ Literal(D, pos) = <<D[pos + 1]>>
<1>1. D[pos + 1] \in Byte
  BY ElementOfSeq
<1>2. QED
  BY <1>1 DEF Literal, Tokens

(* Appending a token that is a literal or reaches back less than a window. *)
LEMMA TokenAdded ==
  ASSUME NEW W, NEW out \in Seq(Tokens), NEW t \in Tokens,
         \A i \in DOMAIN out : Len(out[i]) = 2 => out[i][2] \in 1..(W - 1),
         Len(t) = 2 => t[2] \in 1..(W - 1)
  PROVE  /\ Append(out, t) \in Seq(Tokens)
         /\ Append(out, t)[Len(Append(out, t))] = t /\ Append(out, t) # out
         /\ \A i \in DOMAIN Append(out, t) :
              Len(Append(out, t)[i]) = 2 => Append(out, t)[i][2] \in 1..(W - 1)
<1>1. Append(out, t) \in Seq(Tokens) /\ Len(Append(out, t)) = Len(out) + 1
      /\ Len(out) \in Nat
  BY AppendProperties, LenProperties
<1>2. \A i \in 1..Len(out) + 1 : Append(out, t)[i] = IF i <= Len(out) THEN out[i] ELSE t
  BY AppendProperties
<1>3. DOMAIN Append(out, t) = 1..(Len(out) + 1) /\ DOMAIN out = 1..Len(out)
  BY <1>1, LenProperties
<1>4. \A i \in DOMAIN Append(out, t) :
        Len(Append(out, t)[i]) = 2 => Append(out, t)[i][2] \in 1..(W - 1)
  <2> TAKE i \in DOMAIN Append(out, t)
  <2>1. CASE i <= Len(out)
    BY <1>1, <1>2, <1>3, <2>1
  <2>2. CASE ~ (i <= Len(out))
    BY <1>1, <1>2, <1>3, <2>2
  <2>3. QED
    BY <2>1, <2>2
<1>5. QED
  BY <1>1, <1>2, <1>4

LEMMA DecideFields ==
  ASSUME NEW m, IsMatcher(m), IsHash(m.hash), NEW D, NEW s
  PROVE  LET r == Decide(m, D, s)
         IN  /\ DOMAIN r = DOMAIN m /\ r.left = m.left /\ r.numzeros = m.numzeros
             /\ \/ /\ Defers(m, s)
                   /\ r.phase = "arrive" /\ r.lazy = TRUE /\ r.deferred = m.best
                   /\ r.pos = m.pos + 1 /\ r.hash = m.hash /\ r.out = m.out
                \/ /\ m.lazy /\ m.best[1] > m.deferred[1] + 1
                   /\ r.phase = "emit" /\ r.lazy = FALSE /\ r.best = m.best
                   /\ r.pos = m.pos /\ r.hash = m.hash
                   /\ r.out = Append(m.out, Literal(D, m.pos - 1))
                \/ /\ m.lazy /\ m.best[1] <= m.deferred[1] + 1
                   /\ r.phase = "emit" /\ r.lazy = FALSE /\ r.best = m.deferred
                   /\ r.pos = m.pos - 1 /\ r.hash = Forget(m, s).hash /\ r.out = m.out
                \/ /\ ~Defers(m, s)
                   /\ ~ (m.lazy /\ m.best[1] > m.deferred[1] + 1)
                   /\ ~ (m.lazy /\ m.best[1] <= m.deferred[1] + 1)
                   /\ r.phase = "emit" /\ r.lazy = m.lazy /\ r.best = m.best
                   /\ r.pos = m.pos /\ r.hash = m.hash /\ r.out = m.out
<1> DEFINE r == Decide(m, D, s)
           f == Forget(m, s)
           longer == m.lazy /\ m.best[1] > m.deferred[1] + 1
           shorter == m.lazy /\ m.best[1] <= m.deferred[1] + 1
           l == Literal(D, m.pos - 1)
           defers == Defers(m, s)
<1>1. \/ defers /\ r = [m EXCEPT !.phase = "arrive", !.lazy = TRUE, !.deferred = m.best, !.pos = @ + 1]
      \/ longer /\ r = [m EXCEPT !.phase = "emit", !.lazy = FALSE, !.out = Append(@, l)]
      \/ shorter /\ r = [f EXCEPT !.phase = "emit", !.lazy = FALSE, !.best = m.deferred]
      \/ ~defers /\ ~longer /\ ~shorter /\ r = [m EXCEPT !.phase = "emit"]
  BY DEF Decide
<1>2. /\ DOMAIN f = DOMAIN m /\ f.pos = m.pos - 1 /\ f.numzeros = m.numzeros
      /\ f.out = m.out /\ f.left = m.left
  BY ForgetFields
<1> HIDE DEF r, f, l, defers
<1>3. CASE defers /\ r = [m EXCEPT !.phase = "arrive", !.lazy = TRUE, !.deferred = m.best, !.pos = @ + 1]
  BY <1>3 DEF IsMatcher, r, defers
<1>4. CASE longer /\ r = [m EXCEPT !.phase = "emit", !.lazy = FALSE, !.out = Append(@, l)]
  BY <1>4 DEF IsMatcher, r, l
<1>5. CASE shorter /\ r = [f EXCEPT !.phase = "emit", !.lazy = FALSE, !.best = m.deferred]
  BY <1>2, <1>5 DEF IsMatcher, r, f
<1>6. CASE ~defers /\ ~longer /\ ~shorter /\ r = [m EXCEPT !.phase = "emit"]
  BY <1>6 DEF IsMatcher, r, defers
<1>7. QED
  BY <1>1, <1>3, <1>4, <1>5, <1>6

(* How far the tokens reach that a matcher has put out. *)
Reach(m) == IF m.lazy THEN m.pos - 1 ELSE m.pos + m.left

LEMMA DecideOK ==
  ASSUME NEW D \in Seq(Byte), NEW size \in Nat, size <= Len(D), NEW s, NEW W \in Nat \ {0},
         W = s.windowsize, NEW m, NEW v, BlockOK(m, D, size, W, v), m.phase = "decide"
  PROVE  LET r == Decide(m, D, s)
         IN  /\ BlockOK(r, D, size, W, v)
             /\ \/ r.out = m.out /\ Reach(r) = Reach(m)
                \/ /\ Reach(m) \in Nat /\ Reach(m) < size /\ Reach(r) = Reach(m) + 1
                   /\ r.out = Append(m.out, Literal(D, Reach(m)))
                   /\ r.out # m.out
                   /\ r.out[Len(r.out)] = Literal(D, Reach(m))
<1> DEFINE r == Decide(m, D, s)
           f == Forget(m, s)
           l == Literal(D, m.pos - 1)
<1>1. IsMatcher(m) /\ m.pos \in Nat /\ m.out \in Seq(Tokens) /\ m.lazy \in BOOLEAN /\ Len(D) \in Nat
  BY LenProperties DEF BlockOK, IsMatcher
<1>2. /\ m.left = 0 /\ v = m.pos + 1 /\ v <= size
      /\ Deferring(m, D, size, W) /\ IsMatch(m.best, D, size, W, m.pos)
      /\ Matching(m, D, size, W, v) /\ IsHash(m.hash) /\ Ring(m.hash, D, W, v)
      /\ \A i \in DOMAIN m.out : Len(m.out[i]) = 2 => m.out[i][2] \in 1..(W - 1)
  BY DEF BlockOK, Searching, Matching, Ring
<1>3. /\ DOMAIN r = DOMAIN m /\ r.left = m.left /\ r.numzeros = m.numzeros
      /\ \/ /\ Defers(m, s)
            /\ r.phase = "arrive" /\ r.lazy = TRUE /\ r.deferred = m.best
            /\ r.pos = m.pos + 1 /\ r.hash = m.hash /\ r.out = m.out
         \/ /\ m.lazy /\ m.best[1] > m.deferred[1] + 1
            /\ r.phase = "emit" /\ r.lazy = FALSE /\ r.best = m.best
            /\ r.pos = m.pos /\ r.hash = m.hash
            /\ r.out = Append(m.out, l)
         \/ /\ m.lazy /\ m.best[1] <= m.deferred[1] + 1
            /\ r.phase = "emit" /\ r.lazy = FALSE /\ r.best = m.deferred
            /\ r.pos = m.pos - 1 /\ r.hash = f.hash /\ r.out = m.out
         \/ /\ ~Defers(m, s)
            /\ ~ (m.lazy /\ m.best[1] > m.deferred[1] + 1)
            /\ ~ (m.lazy /\ m.best[1] <= m.deferred[1] + 1)
            /\ r.phase = "emit" /\ r.lazy = m.lazy /\ r.best = m.best
            /\ r.pos = m.pos /\ r.hash = m.hash /\ r.out = m.out
  BY <1>1, <1>2, DecideFields, ZenonT(60)
<1>4. m.lazy => /\ m.pos > 0 /\ m.pos < size
                /\ m.deferred[1] >= 3 /\ IsMatch(m.deferred, D, size, W, m.pos - 1)
  BY <1>2 DEF Deferring
<1>5. m.lazy => /\ l \in Tokens /\ Len(l) = 1
  <2>1. m.lazy => m.pos - 1 \in Nat /\ m.pos - 1 < Len(D)
    BY <1>1, <1>4
  <2>2. QED
    BY <2>1, LiteralIsToken
<1>6. Ring(f.hash, D, W, v)
  <2>1. v \in Nat
    BY <1>1, <1>2
  <2>2. f.hash = [[m.hash EXCEPT !.head = Put(m.hash.head, m.hash.val[m.pos % s.windowsize], Unset)]
                     EXCEPT !.headz = Put(m.hash.headz, m.numzeros, Unset)]
    BY <1>1, <1>2, ForgetFields
  <2>3. Ring([[m.hash EXCEPT !.head = Put(m.hash.head, m.hash.val[m.pos % s.windowsize], Unset)]
                  EXCEPT !.headz = Put(m.hash.headz, m.numzeros, Unset)], D, W, v)
    BY <1>2, <2>1, RingForgets
  <2> HIDE DEF f
  <2>4. QED
    BY <2>2, <2>3, Zenon
<1>7. m.lazy => /\ Append(m.out, l) \in Seq(Tokens)
                /\ Append(m.out, l)[Len(Append(m.out, l))] = l /\ Append(m.out, l) # m.out
                /\ \A i \in DOMAIN Append(m.out, l) :
                     Len(Append(m.out, l)[i]) = 2 => Append(m.out, l)[i][2] \in 1..(W - 1)
  <2>1. m.lazy => (Len(l) = 2 => l[2] \in 1..(W - 1))
    BY <1>5
  <2>2. QED
    BY <1>1, <1>2, <1>5, <2>1, TokenAdded, SMTT(30)
<1>8. m.best[1] \in Nat /\ (m.lazy => m.deferred[1] \in Nat)
  BY <1>2, <1>4 DEF IsMatch
<1> HIDE DEF r, f, l
<1>9. /\ IsMatcher(r)
      /\ Ring(r.hash, D, W, v)
      /\ \A i \in DOMAIN r.out : Len(r.out[i]) = 2 => r.out[i][2] \in 1..(W - 1)
  <2>1. r.phase \in {"arrive", "emit"} /\ r.pos \in Nat /\ r.lazy \in BOOLEAN
    <3>1. r.pos \in {m.pos, m.pos + 1} \/ (m.lazy /\ r.pos = m.pos - 1)
      BY <1>3
    <3>2. r.pos \in Nat
      BY <1>1, <1>4, <3>1
    <3>3. r.phase \in {"arrive", "emit"} /\ r.lazy \in {TRUE, FALSE, m.lazy}
      BY <1>3
    <3>4. QED
      BY <1>1, <3>2, <3>3
  <2>2. r.out = m.out \/ (m.lazy /\ r.out = Append(m.out, l))
    BY <1>3
  <2>3. r.out \in Seq(Tokens)
        /\ \A i \in DOMAIN r.out : Len(r.out[i]) = 2 => r.out[i][2] \in 1..(W - 1)
    BY <1>1, <1>2, <1>7, <2>2
  <2>4. Ring(r.hash, D, W, v)
    BY <1>2, <1>3, <1>6
  <2>5. IsMatcher(r)
    BY <1>1, <1>3, <2>1, <2>3 DEF IsMatcher
  <2>6. QED
    BY <2>3, <2>4, <2>5
<1>10. Matching(r, D, size, W, v)
  BY <1>2, <1>3, <1>9 DEF Matching
<1>11. Arriving(r, D, size, W, v)
  <2>1. SUFFICES ASSUME r.phase = "arrive"
                 PROVE  r.left = 0 /\ v = r.pos /\ r.pos <= size /\ Deferring(r, D, size, W)
    BY DEF Arriving
  <2>2. /\ m.best[1] >= 3
        /\ r.phase = "arrive" /\ r.lazy = TRUE /\ r.deferred = m.best /\ r.pos = m.pos + 1
    BY <1>3, <2>1 DEF Defers
  <2>3. m.pos + m.best[1] <= size
    BY <1>2, <1>8, <2>2 DEF IsMatch
  <2>4. r.pos - 1 = m.pos /\ r.pos > 0 /\ r.pos < size
    BY <1>1, <1>2, <1>8, <2>2, <2>3, SMTT(60)
  <2>5. Deferring(r, D, size, W)
    BY <1>2, <2>2, <2>4 DEF Deferring
  <2>6. QED
    BY <1>2, <1>3, <2>2, <2>4, <2>5
<1>12. Emitting(r, D, size, W, v)
  <2>1. SUFFICES ASSUME r.phase = "emit"
                 PROVE  /\ r.left = 0 /\ v \in {r.pos + 1, r.pos + 2} /\ ~r.lazy
                        /\ IsMatch(r.best, D, size, W, r.pos)
    BY DEF Emitting
  <2>2. \/ r.best = m.best /\ r.pos = m.pos
        \/ m.lazy /\ r.best = m.deferred /\ r.pos = m.pos - 1
    BY <1>3, <2>1
  <2>3. ~r.lazy
    BY <1>1, <1>3, <1>8, <2>1
  <2>4. QED
    BY <1>1, <1>2, <1>3, <1>4, <2>2, <2>3
<1>13. Searching(r, D, size, W, v) /\ Covering(r, D, size, W, v)
  BY <1>3 DEF Searching, Covering
<1>14. BlockOK(r, D, size, W, v)
  BY <1>9, <1>10, <1>11, <1>12, <1>13 DEF BlockOK
<1>15. \/ r.out = m.out /\ Reach(r) = Reach(m)
       \/ /\ Reach(m) \in Nat /\ Reach(m) < size /\ Reach(r) = Reach(m) + 1
          /\ m.lazy /\ r.out = Append(m.out, l) /\ l = Literal(D, Reach(m))
  <2>1. CASE r.phase = "arrive"
    BY <1>1, <1>2, <1>3, <2>1 DEF Reach, Defers
  <2>2. CASE m.lazy /\ m.best[1] > m.deferred[1] + 1 /\ r.phase = "emit"
    <3>1. r.lazy = FALSE /\ r.pos = m.pos /\ r.left = 0 /\ r.out = Append(m.out, l)
      <4>1. ~ (m.best[1] <= m.deferred[1] + 1)
        BY <1>8, <2>2
      <4>2. \/ /\ Defers(m, s) /\ r.phase = "arrive"
            \/ m.best[1] <= m.deferred[1] + 1
            \/ ~ (m.lazy /\ m.best[1] > m.deferred[1] + 1)
            \/ r.lazy = FALSE /\ r.pos = m.pos /\ r.out = Append(m.out, l)
        BY <1>3
      <4>3. r.phase # "arrive"
        BY <2>2
      <4>4. QED
        BY <1>2, <1>3, <2>2, <4>1, <4>2, <4>3
    <3>2. Reach(m) = m.pos - 1 /\ Reach(r) = m.pos
      BY <1>1, <2>2, <3>1 DEF Reach
    <3>3. l = Literal(D, Reach(m))
      BY <3>2 DEF l
    <3>4. QED
      BY <1>1, <1>2, <1>4, <2>2, <3>1, <3>2, <3>3
  <2>3. CASE ~ (m.lazy /\ m.best[1] > m.deferred[1] + 1) /\ r.phase = "emit"
    BY <1>1, <1>2, <1>3, <1>4, <1>8, <2>3 DEF Reach
  <2>4. QED
    BY <1>3, <2>1, <2>2, <2>3
<1>16. QED
  BY <1>7, <1>14, <1>15 DEF r

(* The token that takes a matcher from m to r: a literal, or a match. *)
Emitted(m, r, D, size, W) ==
  /\ Reach(m) \in Nat /\ Reach(m) < size
  /\ \/ /\ Reach(r) = Reach(m) + 1
        /\ r.out[Len(r.out)] = Literal(D, Reach(m))
     \/ /\ Reach(r) = Reach(m) + m.best[1] /\ m.best[1] >= 3
        /\ IsMatch(m.best, D, size, W, Reach(m))
        /\ r.out[Len(r.out)] = m.best

LEMMA EmitOK ==
  ASSUME NEW D \in Seq(Byte), NEW size \in Nat, size <= Len(D), NEW s, NEW W \in Nat \ {0},
         W = s.windowsize, NEW m, NEW v, BlockOK(m, D, size, W, v), m.phase = "emit"
  PROVE  LET r == Emit(m, D, s)
         IN  BlockOK(r, D, size, W, v) /\ Emitted(m, r, D, size, W)
<1> DEFINE r == Emit(m, D, s)
           p == m.pos
           l == Literal(D, p)
<1>1. /\ IsMatcher(m) /\ p \in Nat /\ m.out \in Seq(Tokens) /\ m.lazy = FALSE
      /\ m.left = 0 /\ v \in {p + 1, p + 2} /\ v <= size /\ Len(D) \in Nat
      /\ IsMatch(m.best, D, size, W, p) /\ Matching(m, D, size, W, v)
      /\ Reach(m) = p
  BY LenProperties DEF BlockOK, IsMatcher, Emitting, Matching, Reach
<1>2. p < size /\ p < Len(D)
  BY <1>1
<1>3. l \in Tokens /\ Len(l) = 1
  BY <1>1, <1>2, LiteralIsToken
<1>4. m.best \in Nat \X Nat /\ m.best[1] \in Nat /\ m.best \in Tokens /\ Len(m.best) = 2
  BY <1>1 DEF IsMatch, Tokens
<1>5. \/ r = [m EXCEPT !.phase = "arrive", !.pos = @ + 1, !.out = Append(@, l)]
      \/ /\ m.best[1] >= 3
         /\ r = [m EXCEPT !.phase = "cover", !.pos = @ + 1, !.left = m.best[1] - 1,
                          !.out = Append(@, m.best)]
  BY <1>4 DEF Emit
<1>6. \A i \in DOMAIN m.out : Len(m.out[i]) = 2 => m.out[i][2] \in 1..(W - 1)
  BY <1>1 DEF Matching
<1>7. /\ Append(m.out, l) \in Seq(Tokens)
      /\ Append(m.out, l)[Len(Append(m.out, l))] = l
      /\ \A i \in DOMAIN Append(m.out, l) :
           Len(Append(m.out, l)[i]) = 2 => Append(m.out, l)[i][2] \in 1..(W - 1)
  <2>1. Len(l) = 2 => l[2] \in 1..(W - 1)
    BY <1>3
  <2>2. QED
    BY <1>1, <1>3, <1>6, <2>1, TokenAdded
<1>8. m.best[2] \in 1..(W - 1) =>
        /\ Append(m.out, m.best) \in Seq(Tokens)
        /\ Append(m.out, m.best)[Len(Append(m.out, m.best))] = m.best
        /\ \A i \in DOMAIN Append(m.out, m.best) :
             Len(Append(m.out, m.best)[i]) = 2 => Append(m.out, m.best)[i][2] \in 1..(W - 1)
  BY <1>1, <1>4, <1>6, TokenAdded, SMTT(60)
<1> HIDE DEF r, p, l
<1>9. CASE r = [m EXCEPT !.phase = "arrive", !.pos = @ + 1, !.out = Append(@, l)]
  <2>1. /\ DOMAIN r = DOMAIN m /\ r.phase = "arrive" /\ r.pos = p + 1
        /\ r.out = Append(m.out, l) /\ r.hash = m.hash /\ r.numzeros = m.numzeros
        /\ r.lazy = FALSE /\ r.left = 0
    BY <1>1, <1>9 DEF IsMatcher, p
  <2>2. /\ r.out \in Seq(Tokens) /\ r.out[Len(r.out)] = l
        /\ \A i \in DOMAIN r.out : Len(r.out[i]) = 2 => r.out[i][2] \in 1..(W - 1)
    BY <1>1, <2>1, <1>7
  <2>3. IsMatcher(r)
    <3>1. r.pos \in Nat /\ r.left \in Nat
      BY <1>1, <2>1
    <3>2. r.lazy \in BOOLEAN
      BY <2>1, Zenon
    <3>3. QED
      BY <1>1, <2>1, <2>2, <3>1, <3>2 DEF IsMatcher
  <2>4. Matching(r, D, size, W, v)
    BY <1>1, <2>1, <2>2 DEF Matching
  <2>5. Arriving(r, D, size, W, v)
    BY <1>1, <1>2, <2>1 DEF Arriving, Deferring
  <2>6. Searching(r, D, size, W, v) /\ Emitting(r, D, size, W, v) /\ Covering(r, D, size, W, v)
    BY <2>1 DEF Searching, Emitting, Covering
  <2>7. Reach(r) = p + 1
    BY <1>1, <2>1 DEF Reach
  <2>8. QED
    BY <1>1, <1>2, <2>2, <2>3, <2>4, <2>5, <2>6, <2>7 DEF BlockOK, Emitted, r, l
<1>10. CASE /\ m.best[1] >= 3
           /\ r = [m EXCEPT !.phase = "cover", !.pos = @ + 1, !.left = m.best[1] - 1,
                            !.out = Append(@, m.best)]
  <2>1. /\ DOMAIN r = DOMAIN m /\ r.phase = "cover" /\ r.pos = p + 1
        /\ r.out = Append(m.out, m.best) /\ r.hash = m.hash /\ r.numzeros = m.numzeros
        /\ r.lazy = FALSE /\ r.left = m.best[1] - 1
    BY <1>1, <1>10 DEF IsMatcher, p
  <2>2. m.best[2] \in 1..(W - 1) /\ p + m.best[1] <= size
    BY <1>1, <1>10 DEF IsMatch
  <2>3. /\ r.out \in Seq(Tokens) /\ r.out[Len(r.out)] = m.best
        /\ \A i \in DOMAIN r.out : Len(r.out[i]) = 2 => r.out[i][2] \in 1..(W - 1)
    BY <1>8, <2>1, <2>2
  <2>4. IsMatcher(r)
    BY <1>1, <1>4, <1>10, <2>1, <2>3 DEF IsMatcher
  <2>5. Matching(r, D, size, W, v)
    BY <1>1, <2>1, <2>3 DEF Matching
  <2>6. Covering(r, D, size, W, v)
    BY <1>1, <1>4, <1>10, <2>1, <2>2, SMTT(30) DEF Covering
  <2>7. Searching(r, D, size, W, v) /\ Emitting(r, D, size, W, v) /\ Arriving(r, D, size, W, v)
    BY <2>1 DEF Searching, Emitting, Arriving
  <2>8. Reach(r) = p + m.best[1]
    BY <1>1, <1>4, <2>1, SMTT(30) DEF Reach
  <2>9. QED
    BY <1>1, <1>2, <1>10, <2>3, <2>4, <2>5, <2>6, <2>7, <2>8 DEF BlockOK, Emitted, r
<1>11. QED
  BY <1>5, <1>9, <1>10

-----------------------------------------------------------------------------
(* What the tokens say *)

LEMMA ModSmall ==
  ASSUME NEW b \in Nat \ {0}, NEW a \in Nat, a < b
  PROVE  a % b = a
OBVIOUS

LEMMA ModDown ==
  ASSUME NEW b \in Nat \ {0}, NEW a \in Nat, a >= b
  PROVE  (a - b) % b = a % b
<1> DEFINE j == a \div b
           r == a % b
<1>1. j \in Int /\ r \in 0..(b - 1) /\ a = b * j + r
  OBVIOUS
<1>2. \A i \in Int : \A x \in 0..(b - 1) : (b * i + x) % b = x
  OBVIOUS
<1> HIDE DEF j, r
<1>3. a - b = b * (j - 1) + r
  BY <1>1
<1>4. (a - b) % b = r
  BY <1>1, <1>2, <1>3
<1>5. QED
  BY <1>4 DEF r

(* The bytes of a match are those just before it, over and over. *)
LEMMA MatchRepeats ==
  ASSUME NEW D \in Seq(Byte), NEW W \in Nat, NEW size \in Nat, NEW pos \in Nat,
         NEW m, IsMatch(m, D, size, W, pos)
  PROVE  \A k \in 1..m[1] :
           /\ (k - 1) % m[2] \in 0..(m[2] - 1)
           /\ D[pos + k] = D[pos - m[2] + 1 + ((k - 1) % m[2])]
<1> TAKE k \in 1..m[1]
<1> DEFINE length == m[1]
           back == m[2]
           Right(i) == D[pos + i] = D[pos - back + 1 + ((i - 1) % back)]
           Wrong == {i \in 1..length : ~Right(i)}
<1>1. /\ length \in Nat /\ back \in Nat \ {0} /\ back <= pos
      /\ \A q \in pos..(pos + length - 1) : D[q + 1] = D[q - back + 1]
  BY DEF IsMatch
<1>2. (k - 1) % back \in 0..(back - 1)
  BY <1>1
<1>3. k \in 1..length
  OBVIOUS
<1> HIDE DEF length, back
<1>4. ASSUME Wrong # {}  PROVE FALSE
  <2>1. Wrong \in SUBSET Nat
    BY <1>1
  <2>2. PICK i \in Wrong : \A q \in Wrong : i <= q
    BY <1>4, <2>1, LeastElement
  <2>3. i \in 1..length /\ ~Right(i)
    BY <2>2
  <2>4. D[pos + i] = D[pos + i - back]
    <3>1. pos + i - 1 \in pos..(pos + length - 1)
      BY <1>1, <2>3
    <3>2. pos + i - 1 + 1 = pos + i /\ pos + i - 1 - back + 1 = pos + i - back
      BY <1>1, <2>3
    <3>3. D[pos + i - 1 + 1] = D[pos + i - 1 - back + 1]
      BY <1>1, <3>1
    <3>4. QED
      BY <3>2, <3>3
  <2>5. CASE i <= back
    <3>1. (i - 1) % back = i - 1
      <4>1. i - 1 \in Nat /\ i - 1 < back
        BY <1>1, <2>3, <2>5
      <4>2. QED
        BY <1>1, <4>1, ModSmall
    <3>2. pos - back + 1 + (i - 1) = pos + i - back
      BY <1>1, <2>3
    <3>3. QED
      BY <2>3, <2>4, <3>1, <3>2
  <2>6. CASE ~ (i <= back)
    <3>1. i - back \in 1..length /\ i - back < i
      BY <1>1, <2>3, <2>6
    <3>2. i - back \notin Wrong
      BY <2>2, <2>3, <3>1
    <3> DEFINE j == i - back
    <3>3. Right(j)
      BY <3>1, <3>2
    <3>4. j - 1 = (i - 1) - back /\ i - 1 \in Nat /\ i - 1 >= back /\ pos + j = pos + i - back
      BY <1>1, <2>3, <2>6
    <3>5. (j - 1) % back = (i - 1) % back
      <4>1. ((i - 1) - back) % back = (i - 1) % back
        <5>1. back \in Nat \ {0} /\ i - 1 \in Nat /\ i - 1 >= back
          BY <1>1, <3>4
        <5>2. QED
          BY <5>1, ModDown, Zenon
      <4>2. QED
        BY <3>4, <4>1
    <3> HIDE DEF j
    <3>6. QED
      BY <2>3, <2>4, <3>3, <3>4, <3>5
  <2>7. QED
    BY <1>1, <2>3, <2>5, <2>6
<1>5. Right(k)
  BY <1>4, <1>3
<1>6. QED
  BY <1>2, <1>5 DEF back

(* The bytes of a stretch of the data. *)
LEMMA Stretch ==
  ASSUME NEW D \in Seq(Byte), NEW pos \in Nat, NEW n \in Nat, pos + n <= Len(D)
  PROVE  /\ SubSeq(D, pos + 1, pos + n) \in Seq(Byte)
         /\ Len(SubSeq(D, pos + 1, pos + n)) = n
         /\ \A i \in 1..n : SubSeq(D, pos + 1, pos + n)[i] = D[pos + i]
<1>1. \A i \in 1..Len(D) : D[i] \in Byte
  BY ElementOfSeq
<1>2. Len(D) \in Nat
  BY LenProperties
<1>3. ASSUME NEW a, NEW b, a = pos + 1, b = pos + n
      PROVE  /\ SubSeq(D, a, b) \in Seq(Byte)
             /\ Len(SubSeq(D, a, b)) = n
             /\ \A i \in 1..n : SubSeq(D, a, b)[i] = D[pos + i]
  <2>1. a \in Int /\ b \in Int /\ \A i \in a..b : D[i] \in Byte
    BY <1>1, <1>2, <1>3
  <2>2. /\ SubSeq(D, a, b) \in Seq(Byte)
        /\ Len(SubSeq(D, a, b)) = IF a <= b THEN b - a + 1 ELSE 0
        /\ \A i \in 1..(b - a + 1) : SubSeq(D, a, b)[i] = D[a + i - 1]
    BY <2>1, SubSeqProperties
  <2>3. \A i \in 1..n : i \in 1..(b - a + 1) /\ a + i - 1 = pos + i
    BY <1>3
  <2>4. QED
    BY <1>3, <2>2, <2>3
<1>4. QED
  BY <1>3

LEMMA UndoneMatch ==
  ASSUME NEW D \in Seq(Byte), NEW W \in Nat, NEW size \in Nat, size <= Len(D), NEW pos \in Nat,
         NEW m, IsMatch(m, D, size, W, pos), m[1] >= 3
  PROVE  Undo(SubSeq(D, 1, pos), m) = SubSeq(D, 1, pos + m[1])
<1> DEFINE bytes == SubSeq(D, 1, pos)
           length == m[1]
           back == m[2]
           ext == [k \in 1..length |-> bytes[Len(bytes) - back + 1 + ((k - 1) % back)]]
           rest == SubSeq(D, pos + 1, pos + length)
<1>1. /\ length \in Nat /\ back \in 1..pos /\ pos + length <= Len(D) /\ Len(D) \in Nat
      /\ \A q \in pos..(pos + length - 1) : D[q + 1] = D[q - back + 1]
  BY LenProperties DEF IsMatch
<1>2. \A i \in 1..Len(D) : D[i] \in Byte
  BY ElementOfSeq
<1>3. Undo(bytes, m) = bytes \o ext
  <2>1. m \in Nat \X Nat /\ Len(m) = 2
    BY DEF IsMatch
  <2>2. QED
    BY <2>1 DEF Undo, Repeat
<1>4. \A k \in 1..length : /\ (k - 1) % back \in 0..(back - 1)
                             /\ D[pos + k] = D[pos - back + 1 + ((k - 1) % back)]
  <2>1. \A k \in 1..m[1] : /\ (k - 1) % m[2] \in 0..(m[2] - 1)
                            /\ D[pos + k] = D[pos - m[2] + 1 + ((k - 1) % m[2])]
    BY MatchRepeats
  <2>2. QED
    BY <2>1
<1> HIDE DEF length, back
<1>5. Len(bytes) = pos /\ \A i \in 1..pos : bytes[i] = D[i]
  <2>1. \A i \in 1..pos : D[i] \in Byte
    BY <1>1, <1>2
  <2>2. QED
    BY <1>1, <2>1, SubSeqProperties
<1>6. rest \in Seq(Byte) /\ Len(rest) = length
      /\ \A i \in 1..length : rest[i] = D[pos + i]
  BY <1>1, Stretch
<1> HIDE DEF bytes, rest
<1>7. ASSUME NEW k \in 1..length
      PROVE  bytes[Len(bytes) - back + 1 + ((k - 1) % back)] = rest[k]
  <2>1. (k - 1) % back \in 0..(back - 1)
        /\ D[pos + k] = D[pos - back + 1 + ((k - 1) % back)]
    BY <1>4
  <2>2. pos - back + 1 + ((k - 1) % back) \in 1..pos
    BY <1>1, <2>1
  <2>3. QED
    BY <1>5, <1>6, <2>1, <2>2
<1>8. ext = rest
  <2>1. rest = [k \in 1..length |-> rest[k]]
    BY <1>6, LenProperties
  <2>2. QED
    BY <1>7, <2>1
<1>9. bytes \o rest = SubSeq(D, 1, pos + length)
  <2>1. 1 \in 1..(Len(D) + 1) /\ pos \in (1 - 1)..Len(D) /\ pos + length \in pos..Len(D)
    BY <1>1
  <2>2. QED
    BY <2>1, ConcatAdjacentSubSeq DEF bytes, rest
<1>10. QED
  BY <1>3, <1>8, <1>9 DEF bytes, length

LEMMA UndoneLiteral ==
  ASSUME NEW D \in Seq(Byte), NEW pos \in Nat, pos < Len(D)
  PROVE  Undo(SubSeq(D, 1, pos), Literal(D, pos)) = SubSeq(D, 1, pos + 1)
<1>1. Len(D) \in Nat
  BY LenProperties
<1>2. 1 \in 1..Len(D) /\ pos + 1 \in 1..Len(D)
  BY <1>1
<1>3. SubSeq(D, 1, pos + 1) = SubSeq(D, 1, pos + 1 - 1) \o <<D[pos + 1]>>
  BY <1>2, SubSeqRecursiveSecond
<1>4. pos + 1 - 1 = pos
  OBVIOUS
<1>5. QED
  BY <1>3, <1>4 DEF Undo, Literal

LEMMA ReachBounds ==
  ASSUME NEW D, NEW size \in Nat, NEW W \in Nat \ {0}, NEW m, NEW v, BlockOK(m, D, size, W, v)
  PROVE  Reach(m) \in Nat /\ Reach(m) <= size
<1>1. /\ m.phase \in {"arrive", "search", "decide", "emit", "cover"}
      /\ m.pos \in Nat /\ m.left \in Nat /\ v <= size
  BY DEF BlockOK, IsMatcher, Matching
<1>2. CASE m.phase = "arrive"
  BY <1>1, <1>2 DEF BlockOK, Arriving, Deferring, Reach
<1>3. CASE m.phase \in {"search", "decide"}
  BY <1>1, <1>3 DEF BlockOK, Searching, Deferring, Reach
<1>4. CASE m.phase = "emit"
  BY <1>1, <1>4 DEF BlockOK, Emitting, Reach
<1>5. CASE m.phase = "cover"
  BY <1>1, <1>5 DEF BlockOK, Covering, Reach
<1>6. QED
  BY <1>1, <1>2, <1>3, <1>4, <1>5

LEMMA ReachKept ==
  ASSUME NEW m, IsMatcher(m), NEW D, NEW size, NEW s
  PROVE  /\ Reach(Arrive(m, D, size, s)) = Reach(m)
         /\ m.phase = "search" => Reach(Try(m, D, size, s)) = Reach(m)
         /\ ~m.lazy => Reach(Cover(m, D, size, s)) = Reach(m)
<1>1. Reach(Arrive(m, D, size, s)) = Reach(m)
  BY ArriveFields DEF Reach
<1>2. ASSUME m.phase = "search"  PROVE Reach(Try(m, D, size, s)) = Reach(m)
  BY <1>2, TryFields DEF Reach
<1>3. ASSUME ~m.lazy  PROVE Reach(Cover(m, D, size, s)) = Reach(m)
  <2>1. /\ Cover(m, D, size, s).pos = m.pos + 1 /\ Cover(m, D, size, s).left = m.left - 1
        /\ Cover(m, D, size, s).lazy = m.lazy
    BY CoverFields
  <2>2. m.pos \in Nat /\ m.left \in Nat
    BY DEF IsMatcher
  <2>3. QED
    BY <1>3, <2>1, <2>2 DEF Reach
<1>4. QED
  BY <1>1, <1>2, <1>3

-----------------------------------------------------------------------------
(* The inductive invariant *)

CallOK == data \in Seq(Byte) /\ SettingsOK /\ start \in 0..Len(data)

BetweenOK ==
  ~InBlock =>
    /\ lz.out = <<>>
    /\ lz.phase = "idle" /\ start > 0 =>
         /\ settings.windowsize \in Nat \ {0}
         /\ Ring(lz.hash, data, settings.windowsize, start)

WithinOK ==
  InBlock =>
    /\ settings.windowsize \in Nat \ {0}
    /\ \E v \in Nat : BlockOK(lz, data, Size, settings.windowsize, v)

ToldOK == told = SubSeq(data, 1, TokensReach)

MatcherInv == CallOK /\ BetweenOK /\ WithinOK /\ ToldOK

LEMMA SettingsType ==
  ASSUME CallOK
  PROVE  /\ settings.windowsize \in Nat
         /\ Len(data) \in Nat /\ Size \in Nat /\ start <= Size /\ Size <= Len(data)
<1>1. Len(data) \in Nat /\ start \in Nat /\ start <= Len(data)
  BY LenProperties DEF CallOK
<1>2. settings.windowsize \in Nat
  BY DEF CallOK, SettingsOK
<1>3. BlockSize(Len(data), settings) \in Nat
  BY <1>1, MatcherAssumption DEF BlockSize, Least
<1>4. QED
  BY <1>1, <1>2, <1>3 DEF Size, Least

LEMMA ReachInBlock ==
  ASSUME InBlock, lz.lazy \in BOOLEAN
  PROVE  TokensReach = Reach(lz)
BY DEF TokensReach, Reach

(* The matcher at the start of a block. *)
LEMMA MatcherNew ==
  ASSUME NEW hash, NEW D, NEW size \in Nat, NEW W \in Nat \ {0}, NEW v \in Nat, v <= size,
         Ring(hash, D, W, v)
  PROVE  /\ BlockOK(NewMatcher(hash, v), D, size, W, v)
         /\ NewMatcher(hash, v).phase = "arrive"
         /\ Reach(NewMatcher(hash, v)) = v
<1> DEFINE r == NewMatcher(hash, v)
<1>1. /\ r.phase = "arrive" /\ r.hash = hash /\ r.pos = v /\ r.out = <<>> /\ r.numzeros = 0
      /\ r.lazy = FALSE /\ r.left = 0
      /\ DOMAIN r = {"phase", "hash", "pos", "out", "numzeros", "lazy", "deferred",
                     "hashpos", "tries", "prev", "best", "left"}
  BY DEF NewMatcher
<1> HIDE DEF r
<1>2. r.out \in Seq(Tokens) /\ DOMAIN r.out = {}
  BY <1>1, EmptySeq
<1>3. IsMatcher(r)
  <2>1. r.lazy \in BOOLEAN
    BY <1>1, Zenon
  <2>2. QED
    BY <1>1, <1>2, <2>1 DEF IsMatcher
<1>4. IsStreak(D, size, r.numzeros, v - 1)
  BY <1>1 DEF IsStreak, MaxLength
<1>5. Matching(r, D, size, W, v)
  BY <1>1, <1>2, <1>4 DEF Matching
<1>6. Arriving(r, D, size, W, v)
  BY <1>1 DEF Arriving, Deferring
<1>7. Searching(r, D, size, W, v) /\ Emitting(r, D, size, W, v) /\ Covering(r, D, size, W, v)
  BY <1>1 DEF Searching, Emitting, Covering
<1>8. Reach(r) = v
  BY <1>1 DEF Reach
<1>9. QED
  BY <1>1, <1>3, <1>5, <1>6, <1>7, <1>8 DEF BlockOK, r

LEMMA NoBlockFields ==
  ASSUME NEW hash, NEW phase
  PROVE  /\ NoBlock(hash, phase).phase = phase /\ NoBlock(hash, phase).out = <<>>
         /\ NoBlock(hash, phase).hash = hash
BY DEF NoBlock, NewMatcher

LEMMA MatcherInitInv == MatcherInit => MatcherInv
<1> SUFFICES ASSUME MatcherInit  PROVE MatcherInv
  OBVIOUS
<1>1. lz.phase = "idle" /\ lz.out = <<>> /\ start = 0 /\ told = <<>>
  BY NoBlockFields DEF MatcherInit
<1>2. CallOK
  <2>1. data \in Seq(Byte) /\ SettingsOK
    BY DEF MatcherInit, Byte
  <2>2. Len(data) \in Nat
    BY <2>1, LenProperties
  <2>3. QED
    BY <1>1, <2>1, <2>2 DEF CallOK
<1>3. SubSeq(data, 1, 0) = <<>>
  BY SubSeqEmpty
<1>4. QED
  BY <1>1, <1>2, <1>3 DEF MatcherInv, BetweenOK, WithinOK, ToldOK, InBlock, TokensReach

-----------------------------------------------------------------------------
(* The actions *)

LEMMA WindowNotEmpty ==
  ASSUME NEW window, WindowError(window) = 0
  PROVE  window # 0
BY DEF WindowError

LEMMA SetDataInv == MatcherInv /\ SetData => MatcherInv'
<1> SUFFICES ASSUME MatcherInv, SetData  PROVE MatcherInv'
  OBVIOUS
<1>1. /\ SettingsOK /\ lz.phase = "idle" /\ start = 0 /\ data' \in Seq(Byte)
      /\ settings' = settings /\ start' = start /\ lz' = lz /\ told' = told
  BY DEF MatcherInv, CallOK, SetData, Byte
<1>2. ~InBlock /\ ~InBlock' /\ TokensReach = 0 /\ TokensReach' = 0
  BY <1>1 DEF InBlock, TokensReach
<1>3. CallOK'
  <2>1. Len(data') \in Nat
    BY <1>1, LenProperties
  <2>2. SettingsOK'
    BY <1>1 DEF SettingsOK
  <2>3. QED
    BY <1>1, <2>1, <2>2 DEF CallOK
<1>4. ToldOK'
  BY <1>1, <1>2, SubSeqEmpty DEF MatcherInv, ToldOK
<1>5. BetweenOK' /\ WithinOK'
  BY <1>1, <1>2 DEF MatcherInv, BetweenOK, WithinOK
<1>6. QED
  BY <1>3, <1>4, <1>5 DEF MatcherInv

LEMMA BeginInv == MatcherInv /\ Begin => MatcherInv'
<1> SUFFICES ASSUME MatcherInv, Begin  PROVE MatcherInv'
  OBVIOUS
<1> DEFINE W == settings.windowsize
           r == NewMatcher(NewHash(W), 0)
<1>1. /\ CallOK /\ start = 0 /\ lz' = r /\ lz.phase = "idle" /\ WindowError(W) = 0
      /\ data' = data /\ settings' = settings /\ start' = 0 /\ told' = told
  BY DEF MatcherInv, Begin
<1>2. W \in Nat \ {0}
  <2>1. W \in Nat
    BY <1>1, SettingsType
  <2>2. W # 0
    BY <1>1, WindowNotEmpty
  <2>3. QED
    BY <2>1, <2>2
<1>3. CallOK' /\ Size' = Size /\ Size \in Nat
  BY <1>1, SettingsType DEF CallOK, SettingsOK, Size
<1>4. BlockOK(r, data, Size, W, 0) /\ r.phase = "arrive" /\ Reach(r) = 0
  <2>1. Ring(NewHash(W), data, W, 0)
    BY <1>2, RingNew
  <2>2. QED
    BY <1>2, <1>3, <2>1, MatcherNew
<1>5. r.lazy = FALSE /\ r.pos = 0 /\ r.left = 0
  BY DEF NewMatcher
<1>6. told = SubSeq(data, 1, 0)
  BY <1>1 DEF MatcherInv, ToldOK, TokensReach, InBlock
<1> HIDE DEF r
<1>7. InBlock' /\ TokensReach' = 0
  BY <1>1, <1>4, <1>5 DEF InBlock, TokensReach
<1>8. ToldOK'
  BY <1>1, <1>6, <1>7 DEF ToldOK
<1>9. WithinOK' /\ BetweenOK'
  BY <1>1, <1>2, <1>3, <1>4, <1>7 DEF WithinOK, BetweenOK
<1>10. QED
  BY <1>3, <1>8, <1>9 DEF MatcherInv

LEMMA OpenBlockInv == MatcherInv /\ OpenBlock => MatcherInv'
<1> SUFFICES ASSUME MatcherInv, OpenBlock  PROVE MatcherInv'
  OBVIOUS
<1> DEFINE W == settings.windowsize
           r == NewMatcher(lz.hash, start)
<1>1. /\ CallOK /\ start > 0 /\ lz' = r /\ lz.phase = "idle"
      /\ data' = data /\ settings' = settings /\ start' = start /\ told' = told
  BY DEF MatcherInv, OpenBlock
<1>2. W \in Nat \ {0} /\ Ring(lz.hash, data, W, start)
  BY <1>1 DEF MatcherInv, BetweenOK, InBlock
<1>3. CallOK' /\ Size' = Size
  BY <1>1 DEF CallOK, SettingsOK, Size
<1>4. Size \in Nat /\ start \in Nat /\ start <= Size
  BY <1>1, SettingsType DEF CallOK
<1>5. BlockOK(r, data, Size, W, start) /\ r.phase = "arrive" /\ Reach(r) = start
  BY <1>2, <1>4, MatcherNew
<1>6. r.lazy = FALSE /\ r.pos = start /\ r.left = 0
  BY DEF NewMatcher
<1>7. told = SubSeq(data, 1, start)
  BY <1>1 DEF MatcherInv, ToldOK, TokensReach, InBlock
<1> HIDE DEF r
<1>8. InBlock' /\ TokensReach' = start
  BY <1>1, <1>4, <1>5, <1>6 DEF InBlock, TokensReach
<1>9. ToldOK'
  BY <1>1, <1>7, <1>8 DEF ToldOK
<1>10. WithinOK' /\ BetweenOK'
  BY <1>1, <1>2, <1>3, <1>4, <1>5, <1>8 DEF WithinOK, BetweenOK
<1>11. QED
  BY <1>3, <1>9, <1>10 DEF MatcherInv

(* A turn of the matcher keeps the invariant when it keeps the block, and   *)
(* the tokens of it have been told.                                        *)
LEMMA TurnInv ==
  ASSUME MatcherInv, InBlock, data' = data, settings' = settings, start' = start,
         NEW v \in Nat, BlockOK(lz', data, Size, settings.windowsize, v),
         told' = SubSeq(data, 1, Reach(lz'))
  PROVE  MatcherInv'
<1>1. CallOK' /\ Size' = Size
  BY DEF MatcherInv, CallOK, SettingsOK, Size
<1>2. InBlock' /\ lz'.lazy \in BOOLEAN
  BY DEF BlockOK, IsMatcher, InBlock
<1>3. TokensReach' = Reach(lz')
  BY <1>2 DEF TokensReach, Reach
<1>4. ToldOK'
  BY <1>3 DEF ToldOK
<1>5. settings.windowsize \in Nat \ {0}
  BY DEF MatcherInv, WithinOK
<1>6. WithinOK'
  BY <1>1, <1>5 DEF WithinOK
<1>7. BetweenOK'
  BY <1>2 DEF BetweenOK
<1>8. QED
  BY <1>1, <1>4, <1>6, <1>7 DEF MatcherInv

LEMMA InTurn ==
  ASSUME MatcherInv, InBlock
  PROVE  /\ data \in Seq(Byte) /\ Size \in Nat /\ Size <= Len(data)
         /\ settings.windowsize \in Nat \ {0}
         /\ \E v \in Nat : BlockOK(lz, data, Size, settings.windowsize, v)
         /\ IsMatcher(lz) /\ told = SubSeq(data, 1, Reach(lz))
<1>1. data \in Seq(Byte) /\ Size \in Nat /\ Size <= Len(data)
  BY SettingsType DEF MatcherInv, CallOK
<1>2. PICK v \in Nat : BlockOK(lz, data, Size, settings.windowsize, v)
  BY DEF MatcherInv, WithinOK
<1>3. IsMatcher(lz) /\ lz.lazy \in BOOLEAN
  BY <1>2 DEF BlockOK, IsMatcher
<1>4. told = SubSeq(data, 1, Reach(lz))
  BY <1>3, ReachInBlock DEF MatcherInv, ToldOK
<1>5. QED
  BY <1>1, <1>2, <1>3, <1>4 DEF MatcherInv, WithinOK

LEMMA NextPositionInv == MatcherInv /\ NextPosition => MatcherInv'
<1> SUFFICES ASSUME MatcherInv, NextPosition  PROVE MatcherInv'
  OBVIOUS
<1>1. /\ InBlock /\ lz.phase = "arrive" /\ lz.pos < Size
      /\ lz' = Arrive(lz, data, Size, settings)
      /\ data' = data /\ settings' = settings /\ start' = start /\ told' = told
  BY DEF NextPosition, InBlock, Silent
<1>2. PICK v \in Nat : BlockOK(lz, data, Size, settings.windowsize, v)
  BY <1>1, InTurn
<1>3. BlockOK(lz', data, Size, settings.windowsize, lz.pos + 1)
  BY <1>1, <1>2, InTurn, ArriveOK
<1>4. lz.pos + 1 \in Nat
  BY <1>1, InTurn DEF IsMatcher
<1>5. told' = SubSeq(data, 1, Reach(lz'))
  BY <1>1, InTurn, ReachKept
<1>6. QED
  BY <1>1, <1>3, <1>4, <1>5, TurnInv

LEMMA TryCandidateInv == MatcherInv /\ TryCandidate => MatcherInv'
<1> SUFFICES ASSUME MatcherInv, TryCandidate  PROVE MatcherInv'
  OBVIOUS
<1>1. /\ InBlock /\ lz.phase = "search"
      /\ lz' = Try(lz, data, Size, settings)
      /\ data' = data /\ settings' = settings /\ start' = start /\ told' = told
  BY DEF TryCandidate, InBlock, Silent
<1>2. PICK v \in Nat : BlockOK(lz, data, Size, settings.windowsize, v)
  BY <1>1, InTurn
<1>3. BlockOK(lz', data, Size, settings.windowsize, v)
  BY <1>1, <1>2, InTurn, TryOK
<1>4. told' = SubSeq(data, 1, Reach(lz'))
  BY <1>1, InTurn, ReachKept
<1>5. QED
  BY <1>1, <1>3, <1>4, TurnInv

LEMMA CoverPositionInv == MatcherInv /\ CoverPosition => MatcherInv'
<1> SUFFICES ASSUME MatcherInv, CoverPosition  PROVE MatcherInv'
  OBVIOUS
<1>1. /\ InBlock /\ lz.phase = "cover"
      /\ lz' = Cover(lz, data, Size, settings)
      /\ data' = data /\ settings' = settings /\ start' = start /\ told' = told
  BY DEF CoverPosition, InBlock, Silent
<1>2. PICK v \in Nat : BlockOK(lz, data, Size, settings.windowsize, v)
  BY <1>1, InTurn
<1>3. BlockOK(lz', data, Size, settings.windowsize, lz.pos + 1)
  BY <1>1, <1>2, InTurn, CoverOK
<1>4. lz.pos + 1 \in Nat /\ ~lz.lazy
  BY <1>1, <1>2, InTurn DEF IsMatcher, BlockOK, Covering
<1>5. told' = SubSeq(data, 1, Reach(lz'))
  BY <1>1, <1>4, InTurn, ReachKept
<1>6. QED
  BY <1>1, <1>3, <1>4, <1>5, TurnInv

LEMMA TakeMatchInv == MatcherInv /\ TakeMatch => MatcherInv'
<1> SUFFICES ASSUME MatcherInv, TakeMatch  PROVE MatcherInv'
  OBVIOUS
<1> DEFINE r == Decide(lz, data, settings)
<1>1. /\ InBlock /\ lz.phase = "decide" /\ lz' = r
      /\ data' = data /\ settings' = settings /\ start' = start
      /\ lz'.out = lz.out => told' = told
      /\ lz'.out # lz.out => told' = Undo(told, r.out[Len(r.out)])
  BY DEF TakeMatch, InBlock, Silent, Telling
<1>2. PICK v \in Nat : BlockOK(lz, data, Size, settings.windowsize, v)
  BY <1>1, InTurn
<1>3. /\ BlockOK(r, data, Size, settings.windowsize, v)
      /\ \/ r.out = lz.out /\ Reach(r) = Reach(lz)
         \/ /\ Reach(lz) \in Nat /\ Reach(lz) < Size /\ Reach(r) = Reach(lz) + 1
            /\ r.out # lz.out
            /\ r.out[Len(r.out)] = Literal(data, Reach(lz))
  BY <1>1, <1>2, InTurn, DecideOK
<1> HIDE DEF r
<1>4. told' = SubSeq(data, 1, Reach(lz'))
  <2>1. CASE r.out = lz.out /\ Reach(r) = Reach(lz)
    BY <1>1, <2>1, InTurn
  <2>2. CASE /\ Reach(lz) \in Nat /\ Reach(lz) < Size /\ Reach(r) = Reach(lz) + 1
             /\ r.out # lz.out
             /\ r.out[Len(r.out)] = Literal(data, Reach(lz))
    <3>1. told' = Undo(SubSeq(data, 1, Reach(lz)), Literal(data, Reach(lz)))
      BY <1>1, <2>2, InTurn
    <3>2. Reach(lz) < Len(data)
      BY <1>1, <2>2, InTurn, LenProperties
    <3>3. QED
      BY <1>1, <2>2, <3>1, <3>2, InTurn, UndoneLiteral
  <2>3. QED
    BY <1>3, <2>1, <2>2
<1>5. QED
  BY <1>1, <1>3, <1>4, TurnInv

LEMMA EmitTokenInv == MatcherInv /\ EmitToken => MatcherInv'
<1> SUFFICES ASSUME MatcherInv, EmitToken  PROVE MatcherInv'
  OBVIOUS
<1> DEFINE r == Emit(lz, data, settings)
<1>1. /\ InBlock /\ lz.phase = "emit" /\ lz' = r
      /\ data' = data /\ settings' = settings /\ start' = start
      /\ told' = Undo(told, r.out[Len(r.out)])
  BY DEF EmitToken, InBlock, Telling
<1>2. PICK v \in Nat : BlockOK(lz, data, Size, settings.windowsize, v)
  BY <1>1, InTurn
<1>3. /\ BlockOK(r, data, Size, settings.windowsize, v)
      /\ Reach(lz) \in Nat /\ Reach(lz) < Size
      /\ \/ /\ Reach(r) = Reach(lz) + 1
            /\ r.out[Len(r.out)] = Literal(data, Reach(lz))
         \/ /\ Reach(r) = Reach(lz) + lz.best[1] /\ lz.best[1] >= 3
            /\ IsMatch(lz.best, data, Size, settings.windowsize, Reach(lz))
            /\ r.out[Len(r.out)] = lz.best
  <2>1. /\ data \in Seq(Byte) /\ Size \in Nat /\ Size <= Len(data)
        /\ settings.windowsize \in Nat \ {0}
    BY <1>1, InTurn
  <2>2. /\ BlockOK(r, data, Size, settings.windowsize, v)
        /\ Emitted(lz, r, data, Size, settings.windowsize)
    BY <1>1, <1>2, <2>1, EmitOK
  <2> HIDE DEF r
  <2>3. QED
    BY <2>2 DEF Emitted
<1> HIDE DEF r
<1>4. told' = SubSeq(data, 1, Reach(lz'))
  <2>1. CASE /\ Reach(r) = Reach(lz) + 1
             /\ r.out[Len(r.out)] = Literal(data, Reach(lz))
    <3>1. told' = Undo(SubSeq(data, 1, Reach(lz)), Literal(data, Reach(lz)))
      BY <1>1, <2>1, InTurn
    <3>2. Reach(lz) < Len(data)
      BY <1>1, <1>3, InTurn, LenProperties
    <3>3. QED
      BY <1>1, <1>3, <2>1, <3>1, <3>2, InTurn, UndoneLiteral
  <2>2. CASE /\ Reach(r) = Reach(lz) + lz.best[1] /\ lz.best[1] >= 3
             /\ IsMatch(lz.best, data, Size, settings.windowsize, Reach(lz))
             /\ r.out[Len(r.out)] = lz.best
    <3>1. told' = Undo(SubSeq(data, 1, Reach(lz)), lz.best)
      BY <1>1, <2>2, InTurn
    <3>2. settings.windowsize \in Nat /\ data \in Seq(Byte) /\ Size \in Nat /\ Size <= Len(data)
      BY <1>1, InTurn
    <3>3. Undo(SubSeq(data, 1, Reach(lz)), lz.best) = SubSeq(data, 1, Reach(lz) + lz.best[1])
      BY <1>3, <2>2, <3>2, UndoneMatch
    <3>4. QED
      BY <1>1, <2>2, <3>1, <3>3
  <2>3. QED
    BY <1>3, <2>1, <2>2
<1>5. QED
  BY <1>1, <1>3, <1>4, TurnInv

LEMMA CloseBlockInv == MatcherInv /\ CloseBlock => MatcherInv'
<1> SUFFICES ASSUME MatcherInv, CloseBlock  PROVE MatcherInv'
  OBVIOUS
<1> DEFINE W == settings.windowsize
           phase == IF Size = Len(data) THEN "done" ELSE "idle"
<1>1. /\ InBlock /\ lz.phase = "arrive" /\ lz.pos >= Size
      /\ lz' = NoBlock(lz.hash, phase)
      /\ data' = data /\ settings' = settings /\ start' = Size /\ told' = told
  BY DEF CloseBlock, AtEnd, InBlock
<1>2. PICK v \in Nat : BlockOK(lz, data, Size, W, v)
  BY <1>1, InTurn
<1>3. /\ lz.left = 0 /\ v \in {lz.pos, lz.pos + 1} /\ lz.pos <= Size /\ v <= Size
      /\ lz.pos \in Nat /\ lz.lazy \in BOOLEAN /\ Ring(lz.hash, data, W, v)
      /\ (lz.lazy => lz.pos < Size)
  BY <1>1, <1>2 DEF BlockOK, Arriving, Matching, IsMatcher, Deferring
<1>4. v = Size /\ Reach(lz) = Size /\ Size \in Nat
  BY <1>1, <1>3, InTurn DEF Reach
<1>5. lz'.phase \in {"idle", "done"} /\ lz'.out = <<>> /\ lz'.hash = lz.hash
  BY <1>1, NoBlockFields
<1>6. ~InBlock' /\ TokensReach' = Size
  BY <1>1, <1>5 DEF InBlock, TokensReach
<1>7. CallOK'
  BY <1>1, <1>4, SettingsType DEF MatcherInv, CallOK, SettingsOK
<1>8. ToldOK'
  BY <1>1, <1>4, <1>6, InTurn DEF ToldOK
<1>9. BetweenOK'
  BY <1>1, <1>3, <1>4, <1>5, InTurn DEF BetweenOK
<1>10. WithinOK'
  BY <1>6 DEF WithinOK
<1>11. QED
  BY <1>7, <1>8, <1>9, <1>10 DEF MatcherInv

LEMMA MatcherStutterInv == MatcherInv /\ UNCHANGED matcherVars => MatcherInv'
<1> SUFFICES ASSUME MatcherInv, UNCHANGED matcherVars  PROVE MatcherInv'
  OBVIOUS
<1>1. data' = data /\ settings' = settings /\ start' = start /\ lz' = lz /\ told' = told
  BY DEF matcherVars
<1>2. InBlock' = InBlock /\ Size' = Size /\ TokensReach' = TokensReach
  BY <1>1 DEF InBlock, Size, TokensReach
<1>3. QED
  BY <1>1, <1>2 DEF MatcherInv, CallOK, SettingsOK, BetweenOK, WithinOK, ToldOK

(***************************************************************************)
(* The matcher keeps its ring, its streak of zeros, its matches and the    *)
(* tokens it has written in order, turn by turn (encodeLZ77(), and the     *)
(* blocks of lodepng_deflatev()): for all data, settings and block sizes.  *)
(***************************************************************************)
THEOREM MatcherInvariant == MatcherSpec => []MatcherInv
<1>1. MatcherInit => MatcherInv
  BY MatcherInitInv
<1>2. MatcherInv /\ [MatcherNext]_matcherVars => MatcherInv'
  <2> SUFFICES ASSUME MatcherInv, [MatcherNext]_matcherVars  PROVE MatcherInv'
    OBVIOUS
  <2>1. CASE SetData
    BY <2>1, SetDataInv
  <2>2. CASE Begin
    BY <2>2, BeginInv
  <2>3. CASE OpenBlock
    BY <2>3, OpenBlockInv
  <2>4. CASE NextPosition
    BY <2>4, NextPositionInv
  <2>5. CASE TryCandidate
    BY <2>5, TryCandidateInv
  <2>6. CASE TakeMatch
    BY <2>6, TakeMatchInv
  <2>7. CASE EmitToken
    BY <2>7, EmitTokenInv
  <2>8. CASE CoverPosition
    BY <2>8, CoverPositionInv
  <2>9. CASE CloseBlock
    BY <2>9, CloseBlockInv
  <2>10. CASE UNCHANGED matcherVars
    BY <2>10, MatcherStutterInv
  <2>11. QED
    BY <2>1, <2>2, <2>3, <2>4, <2>5, <2>6, <2>7, <2>8, <2>9, <2>10 DEF MatcherNext, NextTurn
<1>3. QED
  BY <1>1, <1>2, PTL DEF MatcherSpec

LEMMA InvMatches == MatcherInv => MatchesReachBack
<1> SUFFICES ASSUME MatcherInv  PROVE MatchesReachBack
  OBVIOUS
<1>1. told = SubSeq(data, 1, TokensReach)
  BY DEF MatcherInv, ToldOK
<1>2. CASE InBlock
  <2>1. PICK v \in Nat : BlockOK(lz, data, Size, settings.windowsize, v)
    BY <1>2, InTurn
  <2>2. lz.lazy \in BOOLEAN
    BY <2>1 DEF BlockOK, IsMatcher
  <2>3. Reach(lz) \in Nat /\ Reach(lz) <= Size
    BY <1>2, <2>1, InTurn, ReachBounds
  <2>4. Size <= Len(data) /\ Size \in Nat /\ Len(data) \in Nat
    BY <1>2, InTurn, LenProperties
  <2>5. TokensReach = Reach(lz)
    BY <1>2, <2>2, ReachInBlock
  <2>6. TokensReach <= Len(data)
    BY <2>3, <2>4, <2>5
  <2>7. \A i \in DOMAIN lz.out :
          Len(lz.out[i]) = 2 => lz.out[i][2] \in 1..(settings.windowsize - 1)
    BY <2>1 DEF BlockOK, Matching
  <2>8. QED
    BY <1>1, <2>6, <2>7 DEF MatchesReachBack
<1>3. CASE ~InBlock
  <2>1. TokensReach = start /\ start <= Len(data)
    BY <1>3 DEF TokensReach, MatcherInv, CallOK
  <2>2. DOMAIN lz.out = {}
    BY <1>3 DEF MatcherInv, BetweenOK
  <2>3. QED
    BY <1>1, <2>1, <2>2 DEF MatchesReachBack
<1>4. QED
  BY <1>2, <1>3

LEMMA InvZeros == MatcherInv => ZerosCounted
<1> SUFFICES ASSUME MatcherInv, lz.phase = "search",
                    NEW p \in 0..lz.pos, p > lz.pos - settings.windowsize,
                    NEW q \in p..(p + lz.hash.zeros[p % settings.windowsize] - 1)
             PROVE  q < Len(data) /\ data[q + 1] = 0
  BY DEF ZerosCounted
<1> DEFINE W == settings.windowsize
           n == lz.hash.zeros[p % W]
<1>1. InBlock
  BY DEF InBlock
<1>2. PICK v \in Nat : BlockOK(lz, data, Size, settings.windowsize, v)
  BY <1>1, InTurn
<1>3. v = lz.pos + 1 /\ lz.pos \in Nat /\ Ring(lz.hash, data, W, v)
  BY <1>2 DEF BlockOK, Searching, Matching, IsMatcher
<1>4. p \in 0..(v - 1) /\ p > v - 1 - W
  BY <1>1, <1>3, InTurn
<1>5. IsStreak(data, Len(data), n, p)
  BY <1>3, <1>4 DEF Ring
<1>6. n \in Nat /\ p + n <= Len(data) /\ Len(data) \in Nat /\ p \in Nat
      /\ \A k \in p..(p + n - 1) : data[k + 1] = 0
  BY <1>1, <1>3, <1>5, InTurn, LenProperties DEF IsStreak
<1>7. q \in p..(p + n - 1)
  OBVIOUS
<1> HIDE DEF n
<1>8. QED
  BY <1>6, <1>7

LEMMA InvCandidates == MatcherInv => CandidatesSeen
<1> SUFFICES ASSUME MatcherInv, lz.phase = "search"
             PROVE  /\ lz.hashpos \in DOMAIN lz.hash.zeros
                    /\ lz.hash.zeros[lz.hashpos] # Unset
                    /\ Back(lz, settings) \in 0..lz.pos
                    /\ lz.pos + Skip(lz, lz.hashpos) <= Size
  BY DEF CandidatesSeen
<1>1. InBlock
  BY DEF InBlock
<1>2. PICK v \in Nat : BlockOK(lz, data, Size, settings.windowsize, v)
  BY <1>1, InTurn
<1>3. /\ lz.hashpos \in Slots(settings.windowsize) /\ lz.hash.zeros[lz.hashpos] \in Nat
      /\ Back(lz, settings) \in 0..(settings.windowsize - 1) /\ Back(lz, settings) <= lz.pos
      /\ lz.pos + Skip(lz, lz.hashpos) <= Size
  BY <1>1, <1>2, InTurn, CandidateOK
<1>4. DOMAIN lz.hash.zeros = Slots(settings.windowsize)
  BY <1>2 DEF BlockOK, Matching, Ring
<1>5. lz.pos \in Nat /\ settings.windowsize \in Nat
  BY <1>1, InTurn DEF IsMatcher
<1>6. QED
  BY <1>3, <1>4, <1>5 DEF Unset

(***************************************************************************)
(* Whatever is compressed, with whatever settings and in blocks of any     *)
(* size: the tokens say the data, neither less nor more than what has been *)
(* matched, and no match reaches out of the window (encodeLZ77()).         *)
(***************************************************************************)
THEOREM TokensSayTheData == MatcherSpec => []MatchesReachBack
BY MatcherInvariant, InvMatches, PTL

(***************************************************************************)
(* No streak of zeros that the ring records is longer than the zeros that  *)
(* are there, although streaks are carried from position to position and   *)
(* the hash is only a guess at three zeros; and the search never looks at  *)
(* a slot of the ring that was not written, nor at bytes outside of the    *)
(* data, although the slots' streaks are not initialised (hash_init()) and *)
(* chains outlive what they led to (encodeLZ77()).                         *)
(***************************************************************************)
THEOREM SearchIsSound == MatcherSpec => []SearchSound
<1>1. MatcherInv => SearchSound
  BY InvZeros, InvCandidates DEF SearchSound
<1>2. QED
  BY <1>1, MatcherInvariant, PTL
=============================================================================
