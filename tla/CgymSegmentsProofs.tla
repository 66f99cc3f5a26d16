-------------------------- MODULE CgymSegmentsProofs --------------------------
(***************************************************************************)
(* The segments of cgym_get() are a partition of the file, for every size  *)
(* of int and unsigned long.                                               *)
(***************************************************************************)
EXTENDS CgymSegments, TLAPS

LEMMA ModSmall ==
  ASSUME NEW m \in Nat \ {0}, NEW x \in Nat, x < m
  PROVE  x % m = x
  OBVIOUS

LEMMA ModNegative ==
  ASSUME NEW m \in Nat \ {0}, NEW x \in Int, x < 0, 0 <= m + x
  PROVE  x % m = m + x
  OBVIOUS

LEMMA Quotient ==
  ASSUME NEW n \in Nat \ {0}, NEW a \in Nat, n <= a
  PROVE  /\ a \div n \in Nat \ {0}
         /\ n * (a \div n) <= a
         /\ a < n * (a \div n) + n
  OBVIOUS

LEMMA ToULongSmall ==
  ASSUME NEW x \in ULong_t
  PROVE  ToULong(x) = x
  BY WidthAssumption, ModSmall DEF ToULong, ULong_t

LEMMA TimesMonotone ==
  ASSUME NEW a \in Nat, NEW b \in Nat, NEW q \in Nat, a <= b
  PROVE  a * q <= b * q
  OBVIOUS

-----------------------------------------------------------------------------
(* A count of segments that fits the file and the type int.                *)
Fits(n, size) ==
  /\ size \in 1 .. ULONG_MAX
  /\ n \in 1 .. size
  /\ n <= INT_MAX

(* No product of the loop wraps: the ends of the segments are the products *)
(* themselves.                                                             *)
LEMMA SegmentEnds ==
  ASSUME NEW n \in Int, NEW size \in Int, Fits(n, size)
  PROVE  /\ SegmSize(n, size) \in Nat \ {0}
         /\ n * SegmSize(n, size) <= size
         /\ size < n * SegmSize(n, size) + n
         /\ \A i \in 0 .. n - 1 : SegmStart(i, n, size) = i * SegmSize(n, size)
         /\ \A i \in 0 .. n - 1 :
               SegmStop(i, n, size) = IF i < n - 1 THEN (i + 1) * SegmSize(n, size)
                                                   ELSE size
<1> DEFINE q == SegmSize(n, size)
<1>1. n \in Nat \ {0} /\ size \in Nat /\ n <= size /\ size <= ULONG_MAX
  BY WidthAssumption DEF Fits
<1>2. ToULong(n) = n
  BY <1>1, ToULongSmall, WidthAssumption DEF ULong_t
<1>3. q \in Nat \ {0} /\ n * q <= size /\ size < n * q + n
  BY <1>1, <1>2, Quotient DEF SegmSize
<1>4. ASSUME NEW j \in 0 .. n
      PROVE  ToULong(ToULong(j) * q) = j * q
  <2>1. j \in ULong_t /\ j \in Nat
    BY <1>1, WidthAssumption DEF ULong_t
  <2>2. j * q <= n * q /\ j * q \in Nat
    BY <1>1, <1>3, <2>1, TimesMonotone
  <2>3. j * q \in ULong_t
    <3> DEFINE x == j * q
               y == n * q
    <3>1. x \in Nat /\ x <= y /\ y <= size /\ y \in Int
      BY <1>1, <1>3, <2>2
    <3> HIDE DEF x, y
    <3>2. x \in ULong_t
      BY <1>1, <3>1, WidthAssumption DEF ULong_t
    <3> QED
      BY <3>2 DEF x
  <2> QED
    BY <2>1, <2>3, ToULongSmall
<1>5. \A i \in 0 .. n - 1 : SegmStart(i, n, size) = i * q
  BY <1>1, <1>4 DEF SegmStart
<1>6. \A i \in 0 .. n - 1 :
        SegmStop(i, n, size) = IF i < n - 1 THEN (i + 1) * q ELSE size
  BY <1>1, <1>4 DEF SegmStop
<1> QED
  BY <1>3, <1>5, <1>6

LEMMA FittingCountPartitions ==
  ASSUME NEW n \in Int, NEW size \in Int, Fits(n, size)
  PROVE  IsPartition(n, size) /\ IsBalanced(n, size)
<1> DEFINE q == SegmSize(n, size)
<1>1. n \in Nat \ {0} /\ size \in Nat
  BY WidthAssumption DEF Fits
<1>2. q \in Nat \ {0} /\ n * q <= size /\ size < n * q + n
  BY SegmentEnds
<1>3. ASSUME NEW i \in 0 .. n - 1
      PROVE  /\ SegmStart(i, n, size) = i * q
             /\ SegmStop(i, n, size) = IF i < n - 1 THEN (i + 1) * q ELSE size
  BY SegmentEnds
<1> HIDE DEF q
<1>4. ASSUME NEW i \in 0 .. n - 1
      PROVE  (i + 1) * q = i * q + q /\ i * q \in Nat
  BY <1>1, <1>2
<1>5. (n - 1) * q + q = n * q /\ (n - 1) * q \in Nat
  BY <1>1, <1>2
<1>6. SegmStart(0, n, size) = 0 /\ SegmStop(n - 1, n, size) = size
  BY <1>1, <1>2, <1>3
<1>7. ASSUME NEW i \in 0 .. n - 1
      PROVE  /\ SegmStart(i, n, size) < SegmStop(i, n, size)
             /\ i < n - 1 => Length(i, n, size) = q
             /\ i = n - 1 => Length(i, n, size) - q \in 0 .. n - 1
  BY <1>1, <1>2, <1>3, <1>4, <1>5 DEF Length
<1>8. ASSUME NEW i \in 0 .. n - 2
      PROVE  SegmStop(i, n, size) = SegmStart(i + 1, n, size)
  BY <1>1, <1>3
<1>9. IsPartition(n, size)
  BY <1>1, <1>6, <1>7, <1>8 DEF IsPartition, SegmIndices, Fits
<1>10. IsBalanced(n, size)
  BY <1>1, <1>7 DEF IsBalanced, SegmIndices, q
<1> QED
  BY <1>9, <1>10

LEMMA ToIntSmall ==
  ASSUME NEW x \in 0 .. INT_MAX
  PROVE  ToInt(x) = x
<1>1. x % (2 * (INT_MAX + 1)) = x
  BY WidthAssumption, ModSmall
<1> QED
  BY <1>1, WidthAssumption DEF ToInt

(* Any positive -n, with any file that is not empty: get.c:72-121 cut the  *)
(* file into non-empty, adjacent segments that cover it, of equal length   *)
(* but for the last.                                                       *)
THEOREM PositiveCount ==
  ASSUME NEW nr \in Int_t, NEW size \in ULong_t, nr > 0, size > 0
  PROVE  /\ IsPartition(ClampSegments(nr, size), size)
         /\ IsBalanced(ClampSegments(nr, size), size)
<1>1. nr \in ULong_t /\ nr <= INT_MAX /\ size \in Nat
  BY WidthAssumption DEF Int_t, ULong_t
<1>2. ToULong(nr) = nr
  BY <1>1, ToULongSmall
<1>3. CASE nr > size
  <2>1. ClampSegments(nr, size) = size
    BY <1>1, <1>2, <1>3, ToIntSmall, WidthAssumption DEF ClampSegments, Int_t
  <2>2. Fits(size, size)
    BY <1>1, <1>3, WidthAssumption DEF Fits, Int_t, ULong_t
  <2> QED
    BY <1>1, <2>1, <2>2, FittingCountPartitions
<1>4. CASE ~(nr > size)
  <2>1. ClampSegments(nr, size) = nr
    BY <1>2, <1>4 DEF ClampSegments
  <2>2. Fits(nr, size)
    BY <1>1, <1>4, WidthAssumption DEF Fits, Int_t, ULong_t
  <2> QED
    BY <1>1, <2>1, <2>2, FittingCountPartitions DEF Int_t
<1> QED
  BY <1>3, <1>4

(* A negative -n too, when the size of the file is an int: as an unsigned  *)
(* long the count exceeds every such size, and the file is cut into bytes. *)
THEOREM AnyCountPartitions ==
  ASSUME NEW nr \in Int_t, NEW size \in 1 .. INT_MAX, nr # 0
  PROVE  IsPartition(ClampSegments(nr, size), size)
<1>1. size \in ULong_t /\ size \in Nat \ {0}
  BY WidthAssumption DEF ULong_t
<1>2. CASE nr > 0
  BY <1>1, <1>2, PositiveCount
<1>3. CASE nr < 0
  <2>1. nr \in Int /\ 0 <= (ULONG_MAX + 1) + nr /\ size < (ULONG_MAX + 1) + nr
    BY <1>3, WidthAssumption DEF Int_t
  <2>2. ToULong(nr) = (ULONG_MAX + 1) + nr
    <3> DEFINE m == ULONG_MAX + 1
    <3>1. m \in Nat \ {0} /\ 0 <= m + nr
      BY <2>1, WidthAssumption
    <3> HIDE DEF m
    <3>2. nr % m = m + nr
      BY <1>3, <2>1, <3>1, ModNegative
    <3> QED
      BY <3>2 DEF ToULong, m
  <2>3. ClampSegments(nr, size) = size
    BY <1>1, <2>1, <2>2, ToIntSmall, WidthAssumption DEF ClampSegments
  <2>4. Fits(size, size)
    BY <1>1, WidthAssumption DEF Fits, ULong_t
  <2> QED
    BY <1>1, <2>3, <2>4, FittingCountPartitions
<1> QED
  BY <1>2, <1>3, WidthAssumption DEF Int_t
=============================================================================
