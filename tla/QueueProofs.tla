---------------------------- MODULE QueueProofs ----------------------------
(* What appending to a queue and taking its head do to the count of the    *)
(* entries of a kind, and to the order of those that are numbered.         *)
EXTENDS Queues, FiniteSetTheorems, TLAPS

(* Shorthand for the positions that CountIn counts. *)
Positions(q, S) == {i \in DOMAIN q : q[i] \in S}

(* The counted positions are finitely many. *)
LEMMA PositionsFinite ==
  ASSUME NEW T, NEW q \in Seq(T), NEW S
  PROVE  IsFiniteSet(Positions(q, S)) /\ CountIn(q, S) \in Nat
<1>1. Positions(q, S) \subseteq 1 .. Len(q)
  BY DEF Positions
<1>2. IsFiniteSet(1 .. Len(q))
  BY FS_Interval
<1>3. IsFiniteSet(Positions(q, S))
  BY <1>1, <1>2, FS_Subset
<1>4. QED
  BY <1>3, FS_CardinalityType DEF CountIn, Positions

(* An empty queue has nothing to count. *)
LEMMA CountEmpty ==
  ASSUME NEW S
  PROVE  CountIn(<<>>, S) = 0
<1>1. {i \in DOMAIN <<>> : <<>>[i] \in S} = {}
  OBVIOUS
<1>2. QED
  BY <1>1, FS_EmptySet DEF CountIn

(* Append() adds one when the new entry is of the kind. *)
LEMMA CountAppend ==
  ASSUME NEW T, NEW q \in Seq(T), NEW e \in T, NEW S
  PROVE  CountIn(Append(q, e), S) = CountIn(q, S) + (IF e \in S THEN 1 ELSE 0)
<1> DEFINE P == Positions(q, S)
           n == Len(q) + 1
<1>1. IsFiniteSet(P) /\ Cardinality(P) = CountIn(q, S)
  BY PositionsFinite DEF CountIn, Positions
<1>2. n \notin P
  BY DEF Positions
<1>3. Positions(Append(q, e), S) = IF e \in S THEN P \union {n} ELSE P
  BY DEF Positions
<1>4. Cardinality(P \union {n}) = Cardinality(P) + 1
  BY <1>1, <1>2, FS_AddElement
<1>5. CountIn(q, S) \in Nat
  BY PositionsFinite
<1>6. CountIn(Append(q, e), S) = Cardinality(Positions(Append(q, e), S))
  BY DEF CountIn, Positions
<1>7. QED
  <2>1. CASE e \in S
    BY <2>1, <1>1, <1>3, <1>4, <1>5, <1>6
  <2>2. CASE e \notin S
    BY <2>2, <1>1, <1>3, <1>5, <1>6
  <2>3. QED
    BY <2>1, <2>2

(* Tail() takes one away when the head was of the kind. *)
LEMMA CountTail ==
  ASSUME NEW T, NEW q \in Seq(T), NEW S, q # <<>>
  PROVE  CountIn(q, S) = CountIn(Tail(q), S) + (IF Head(q) \in S THEN 1 ELSE 0)
<1> DEFINE P == Positions(q, S)
           R == Positions(Tail(q), S)
           shift == [i \in R |-> i + 1]
<1>1. Tail(q) \in Seq(T) /\ Len(q) \in Nat \ {0} /\ Len(Tail(q)) = Len(q) - 1
  OBVIOUS
<1>2. IsFiniteSet(P) /\ IsFiniteSet(R)
  BY <1>1, PositionsFinite
<1>3. \A i \in 1 .. Len(q) - 1 : Tail(q)[i] = q[i + 1]
  OBVIOUS
<1>4. shift \in Bijection(R, P \ {1})
  <2>1. \A i \in R : i + 1 \in P \ {1}
    BY <1>1, <1>3 DEF Positions
  <2>2. \A i \in P \ {1} : i - 1 \in R /\ (i - 1) + 1 = i
    BY <1>1, <1>3 DEF Positions
  <2>3. shift \in Injection(R, P \ {1})
    BY <1>1, <2>1 DEF Injection, IsInjective, Positions
  <2>4. shift \in Surjection(R, P \ {1})
    BY <2>1, <2>2 DEF Surjection
  <2>5. QED
    BY <2>3, <2>4 DEF Bijection
<1>5. Cardinality(R) = Cardinality(P \ {1})
  BY <1>2, <1>4, FS_Bijection DEF ExistsBijection
<1>6. 1 \in P <=> Head(q) \in S
  BY <1>1 DEF Positions
<1>7. Cardinality(P \ {1}) = IF 1 \in P THEN Cardinality(P) - 1 ELSE Cardinality(P)
  BY <1>2, FS_RemoveElement
<1>8. Cardinality(P) \in Nat /\ Cardinality(R) \in Nat
  BY <1>2, FS_CardinalityType
<1>9. CountIn(q, S) = Cardinality(P) /\ CountIn(Tail(q), S) = Cardinality(R)
  BY DEF CountIn, Positions
<1> HIDE DEF P, R
<1>10. QED
  BY <1>5, <1>6, <1>7, <1>8, <1>9

-----------------------------------------------------------------------------
(* The order of numbered entries *)

(* The number in a place for one entry. *)
SlotOf(e, num) == IF e \in DOMAIN num THEN {num[e]} ELSE {}

(* The places of a path, the last one first, and the numbers in each of    *)
(* them: whatever is further on its way has a smaller number.              *)
Chain(L) == \A i, j \in DOMAIN L : i < j => Before(L[i], L[j])

(* An empty queue has no numbers. *)
LEMMA OrderEmpty ==
  ASSUME NEW num
  PROVE  NumsOf(<<>>, num) = {} /\ InOrder(<<>>, num)
BY DEF NumsOf, InOrder

(* Append() of an entry that is later than all in the queue. *)
LEMMA OrderAppend ==
  ASSUME NEW T, NEW q \in Seq(T), NEW e \in T, NEW num
  PROVE  /\ NumsOf(Append(q, e), num) = NumsOf(q, num) \union SlotOf(e, num)
         /\ InOrder(q, num) /\ Before(NumsOf(q, num), SlotOf(e, num)) => InOrder(Append(q, e), num)
<1> DEFINE r == Append(q, e)
           n == Len(q) + 1
<1>1. /\ DOMAIN r = DOMAIN q \union {n} /\ r[n] = e /\ Len(q) \in Nat
      /\ DOMAIN q = 1 .. Len(q)
      /\ \A i \in DOMAIN q : r[i] = q[i] /\ i # n
  OBVIOUS
<1> HIDE DEF r, n
<1>2. NumsOf(r, num) = NumsOf(q, num) \union SlotOf(e, num)
  <2>1. NumsOf(r, num) \subseteq NumsOf(q, num) \union SlotOf(e, num)
    BY <1>1 DEF NumsOf, SlotOf
  <2>2. NumsOf(q, num) \subseteq NumsOf(r, num)
    BY <1>1 DEF NumsOf
  <2>3. SlotOf(e, num) \subseteq NumsOf(r, num)
    BY <1>1 DEF NumsOf, SlotOf
  <2>4. QED
    BY <2>1, <2>2, <2>3
<1>3. ASSUME InOrder(q, num), Before(NumsOf(q, num), SlotOf(e, num))
      PROVE  InOrder(r, num)
  <2> SUFFICES ASSUME NEW i \in DOMAIN r, NEW j \in DOMAIN r, i < j,
                      r[i] \in DOMAIN num, r[j] \in DOMAIN num
               PROVE  num[r[i]] < num[r[j]]
    BY DEF InOrder
  <2>1. i \in DOMAIN q
    BY <1>1 DEF n
  <2>2. CASE j \in DOMAIN q
    BY <1>1, <1>3, <2>1, <2>2 DEF InOrder
  <2>3. CASE j = n
    <3>1. num[r[i]] \in NumsOf(q, num) /\ num[r[j]] \in SlotOf(e, num)
      BY <1>1, <2>1, <2>3 DEF NumsOf, SlotOf
    <3>2. QED
      BY <1>3, <3>1 DEF Before
  <2>4. QED
    BY <1>1, <2>2, <2>3
<1>4. QED
  BY <1>2, <1>3 DEF r

(* Tail() leaves what is later than the head. *)
LEMMA OrderTail ==
  ASSUME NEW T, NEW q \in Seq(T), NEW num, q # <<>>
  PROVE  /\ NumsOf(q, num) = NumsOf(Tail(q), num) \union SlotOf(Head(q), num)
         /\ InOrder(q, num) =>
              /\ InOrder(Tail(q), num)
              /\ Before(SlotOf(Head(q), num), NumsOf(Tail(q), num))
<1> DEFINE r == Tail(q)
<1>1. /\ Len(q) \in Nat \ {0} /\ DOMAIN q = 1 .. Len(q) /\ DOMAIN r = 1 .. Len(q) - 1
      /\ \A i \in DOMAIN r : r[i] = q[i + 1] /\ i + 1 \in DOMAIN q
      /\ Head(q) = q[1]
  OBVIOUS
<1>2. \A i \in DOMAIN q : i # 1 => i - 1 \in DOMAIN r /\ q[i] = r[i - 1]
  BY <1>1
<1> HIDE DEF r
<1>3. NumsOf(q, num) = NumsOf(r, num) \union SlotOf(Head(q), num)
  <2>1. NumsOf(q, num) \subseteq NumsOf(r, num) \union SlotOf(Head(q), num)
    <3> SUFFICES ASSUME NEW i \in DOMAIN q, q[i] \in DOMAIN num
                 PROVE  num[q[i]] \in NumsOf(r, num) \union SlotOf(Head(q), num)
      BY DEF NumsOf
    <3>1. CASE i = 1
      BY <1>1, <3>1 DEF SlotOf
    <3>2. CASE i # 1
      BY <1>2, <3>2 DEF NumsOf
    <3>3. QED
      BY <3>1, <3>2
  <2>2. NumsOf(r, num) \subseteq NumsOf(q, num)
    BY <1>1 DEF NumsOf
  <2>3. SlotOf(Head(q), num) \subseteq NumsOf(q, num)
    BY <1>1 DEF NumsOf, SlotOf
  <2>4. QED
    BY <2>1, <2>2, <2>3
<1>4. ASSUME InOrder(q, num)
      PROVE  /\ InOrder(r, num)
             /\ Before(SlotOf(Head(q), num), NumsOf(r, num))
  <2>1. InOrder(r, num)
    BY <1>1, <1>4 DEF InOrder
  <2>2. ASSUME Head(q) \in DOMAIN num, NEW i \in DOMAIN r, r[i] \in DOMAIN num
        PROVE  num[Head(q)] < num[r[i]]
    BY <1>1, <1>4, <2>2 DEF InOrder
  <2>3. QED
    BY <2>1, <2>2 DEF NumsOf, SlotOf, Before
<1>5. QED
  BY <1>3, <1>4 DEF r

(* A queue behind another. *)
LEMMA OrderConcat ==
  ASSUME NEW T, NEW q \in Seq(T), NEW r \in Seq(T), NEW num
  PROVE  /\ NumsOf(q \o r, num) = NumsOf(q, num) \union NumsOf(r, num)
         /\ InOrder(q, num) /\ InOrder(r, num) /\ Before(NumsOf(q, num), NumsOf(r, num))
              => InOrder(q \o r, num)
<1> DEFINE s == q \o r
           n == Len(q)
<1>1. /\ n \in Nat /\ DOMAIN q = 1 .. n /\ Len(r) \in Nat /\ DOMAIN r = 1 .. Len(r)
      /\ s \in Seq(T) /\ DOMAIN s = 1 .. n + Len(r)
      /\ \A i \in 1 .. n : s[i] = q[i]
      /\ \A i \in 1 .. Len(r) : s[n + i] = r[i]
  OBVIOUS
<1> HIDE DEF s, n
<1>2. \A i \in DOMAIN q : i \in DOMAIN s /\ s[i] = q[i]
  BY <1>1
<1>3. \A i \in DOMAIN r : n + i \in DOMAIN s /\ s[n + i] = r[i]
  BY <1>1
<1>4. \A i \in DOMAIN s : i \in DOMAIN q \/ (i - n \in DOMAIN r /\ s[i] = r[i - n] /\ i > n)
  <2> SUFFICES ASSUME NEW i \in DOMAIN s, i \notin DOMAIN q
               PROVE  i - n \in DOMAIN r /\ s[i] = r[i - n] /\ i > n
    OBVIOUS
  <2>1. i - n \in 1 .. Len(r) /\ n + (i - n) = i /\ i > n
    BY <1>1
  <2>2. QED
    BY <1>1, <2>1
<1>5. NumsOf(s, num) = NumsOf(q, num) \union NumsOf(r, num)
  <2>1. NumsOf(s, num) \subseteq NumsOf(q, num) \union NumsOf(r, num)
    BY <1>2, <1>4 DEF NumsOf
  <2>2. NumsOf(q, num) \subseteq NumsOf(s, num)
    BY <1>2 DEF NumsOf
  <2>3. NumsOf(r, num) \subseteq NumsOf(s, num)
    BY <1>3 DEF NumsOf
  <2>4. QED
    BY <2>1, <2>2, <2>3
<1>6. ASSUME InOrder(q, num), InOrder(r, num), Before(NumsOf(q, num), NumsOf(r, num))
      PROVE  InOrder(s, num)
  <2> SUFFICES ASSUME NEW i \in DOMAIN s, NEW j \in DOMAIN s, i < j,
                      s[i] \in DOMAIN num, s[j] \in DOMAIN num
               PROVE  num[s[i]] < num[s[j]]
    BY DEF InOrder
  <2>1. CASE i \in DOMAIN q /\ j \in DOMAIN q
    BY <1>2, <1>6, <2>1 DEF InOrder
  <2>2. CASE i \in DOMAIN q /\ j \notin DOMAIN q
    <3>1. num[s[i]] \in NumsOf(q, num) /\ num[s[j]] \in NumsOf(r, num)
      BY <1>2, <1>4, <2>2 DEF NumsOf
    <3>2. QED
      BY <1>6, <3>1 DEF Before
  <2>3. CASE i \notin DOMAIN q
    <3>1. j \notin DOMAIN q /\ i - n \in DOMAIN r /\ j - n \in DOMAIN r /\ i - n < j - n
      BY <1>1, <1>4, <2>3
    <3>2. QED
      BY <1>4, <1>6, <2>3, <3>1 DEF InOrder
  <2>4. QED
    BY <2>1, <2>2, <2>3
<1>7. QED
  BY <1>5, <1>6 DEF s

(* A queue of one. *)
LEMMA OrderOne ==
  ASSUME NEW e, NEW num
  PROVE  NumsOf(<<e>>, num) = SlotOf(e, num) /\ InOrder(<<e>>, num)
<1>1. DOMAIN <<e>> = {1} /\ <<e>>[1] = e
  OBVIOUS
<1>2. QED
  BY <1>1 DEF NumsOf, SlotOf, InOrder

(***************************************************************************)
(* One step of a path: of the numbers at a place, those in X go one place  *)
(* on, or are lost, and are the smallest there; the last place may be      *)
(* refilled with greater ones; any may be lost.                            *)
(***************************************************************************)
LEMMA ChainMove ==
  ASSUME NEW K \in Nat, NEW L, NEW M, DOMAIN L = 1 .. K, DOMAIN M = 1 .. K,
         \A k \in 1 .. K : L[k] \subseteq Int /\ M[k] \subseteq Int,
         Chain(L),
         NEW j \in 2 .. K, NEW X \in SUBSET L[j],
         \A k \in (1 .. K) \ {j - 1, j} : M[k] \subseteq L[k],
         M[j - 1] \subseteq L[j - 1] \union X,
         Before(X, M[j]),
         M[j] \subseteq L[j] \/ (j = K /\ X # {})
  PROVE  Chain(M)
<1> SUFFICES ASSUME NEW i \in 1 .. K, NEW k \in 1 .. K, i < k,
                    NEW x \in M[i], NEW y \in M[k]
             PROVE  x < y
  BY DEF Chain, Before
<1>0. /\ \A a, b \in 1 .. K : a < b => \A u \in L[a], v \in L[b] : u < v
      /\ x \in Int /\ y \in Int
  BY DEF Chain, Before
<1>1. CASE i = j
  <2>1. y \in L[k] /\ x \in L[i]
    BY <1>1
  <2>2. QED
    BY <1>0, <2>1
<1>2. CASE i = j - 1
  <2>1. x \in L[j - 1] \/ x \in X
    BY <1>2
  <2>2. CASE k = j
    <3>1. CASE x \in X
      BY <2>2, <3>1 DEF Before
    <3>2. CASE x \in L[j - 1] /\ y \in L[j]
      BY <1>0, <2>2, <3>2
    <3>3. CASE x \in L[j - 1] /\ X # {}
      <4>1. PICK z \in X : TRUE
        BY <3>3
      <4>2. x < z /\ z < y /\ z \in Int
        BY <1>0, <2>2, <3>3, <4>1 DEF Before
      <4>3. QED
        BY <1>0, <4>2
    <3>4. QED
      BY <2>1, <2>2, <3>1, <3>2, <3>3
  <2>3. CASE k # j
    <3>1. y \in L[k] /\ j < k
      BY <1>2, <2>3
    <3>2. QED
      BY <1>0, <1>2, <2>1, <3>1
  <2>4. QED
    BY <2>2, <2>3
<1>3. CASE i \notin {j - 1, j}
  <2>1. x \in L[i]
    BY <1>3
  <2>2. CASE k = j
    <3>1. CASE y \in L[j]
      BY <1>0, <2>1, <2>2, <3>1
    <3>2. CASE X # {}
      <4>1. PICK z \in X : TRUE
        BY <3>2
      <4>2. x < z /\ z < y /\ z \in Int
        BY <1>0, <2>1, <2>2, <4>1 DEF Before
      <4>3. QED
        BY <1>0, <4>2
    <3>3. QED
      BY <2>2, <3>1, <3>2
  <2>3. CASE k = j - 1
    BY <1>0, <2>1, <2>3
  <2>4. CASE k \notin {j - 1, j}
    BY <1>0, <2>1, <2>4
  <2>5. QED
    BY <2>2, <2>3, <2>4
<1>4. QED
  BY <1>1, <1>2, <1>3

(* A step that only loses numbers. *)
LEMMA ChainShrink ==
  ASSUME NEW L, NEW M, DOMAIN M = DOMAIN L, Chain(L),
         \A k \in DOMAIN L : M[k] \subseteq L[k]
  PROVE  Chain(M)
BY DEF Chain, Before

=============================================================================
