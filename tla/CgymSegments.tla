----------------------------- MODULE CgymSegments -----------------------------
(***************************************************************************)
(* How cgym_get() cuts a file into segments: cgym/src/get.c, lines 72-121. *)
(* The arithmetic is C's: the number of segments is an int, sizes and      *)
(* offsets are unsigned long, and every conversion between the two wraps.  *)
(***************************************************************************)
EXTENDS Integers

CONSTANTS
  INT_MAX,      \* the largest int
  ULONG_MAX     \* the largest unsigned long

ASSUME WidthAssumption ==
  /\ INT_MAX \in Nat \ {0}
  /\ ULONG_MAX \in Nat
  /\ 2 * INT_MAX + 1 <= ULONG_MAX   \* an unsigned long is at least as wide

Int_t   == -(INT_MAX + 1) .. INT_MAX
ULong_t == 0 .. ULONG_MAX

ToULong(n) == n % (ULONG_MAX + 1)

M_ToInt(u) == u

ToInt(u) ==
  LET w == u % (2 * (INT_MAX + 1))
  IN  IF w > INT_MAX THEN w - 2 * (INT_MAX + 1) ELSE w

-----------------------------------------------------------------------------
(* "cel mult un segment per octet": at most one segment per byte.  The     *)
(* comparison converts nr_segm to unsigned long, so that a negative count  *)
(* is a huge one.                                                          *)
M_ClampSegments(nr, size) == IF nr > size THEN ToInt(size) ELSE nr

ClampSegments(nr, size) == IF ToULong(nr) > size THEN ToInt(size) ELSE nr

(* The division is undefined (SIGFPE) when no segment is left.             *)
Divides(n) == ToULong(n) # 0

SegmSize(n, size) == size \div ToULong(n)

SegmStart(i, n, size) == ToULong(ToULong(i) * SegmSize(n, size))

M_SegmStop(i, n, size) == ToULong(ToULong(i + 1) * SegmSize(n, size))

SegmStop(i, n, size) ==
  IF i < n - 1 THEN ToULong(ToULong(i + 1) * SegmSize(n, size))
               ELSE size

(* The indices of the loop  for (i = 0; i < nr_segm; i++).                 *)
SegmIndices(n) == 0 .. n - 1

-----------------------------------------------------------------------------
(* The n segments of a file of size bytes are not empty, follow one        *)
(* another without a gap or an overlap, and cover the file: the pieces the *)
(* servers send can be put side by side (segment.c, 178-194) and the GET   *)
(* requests always have start < stop, as the server demands                *)
(* (cgymd_get.c, 43).                                                      *)
IsPartition(n, size) ==
  /\ n \in 1 .. size
  /\ SegmStart(0, n, size) = 0
  /\ SegmStop(n - 1, n, size) = size
  /\ \A i \in SegmIndices(n) : SegmStart(i, n, size) < SegmStop(i, n, size)
  /\ \A i \in SegmIndices(n - 1) :
        SegmStop(i, n, size) = SegmStart(i + 1, n, size)

Length(i, n, size) == SegmStop(i, n, size) - SegmStart(i, n, size)

(* All the segments have the same length except the last, which also takes *)
(* the remainder (get.c, 113) and is longer by less than one byte per      *)
(* segment.                                                                *)
IsBalanced(n, size) ==
  \A i \in SegmIndices(n) :
     IF i < n - 1 THEN Length(i, n, size) = SegmSize(n, size)
     ELSE Length(i, n, size) - SegmSize(n, size) \in 0 .. n - 1
=============================================================================
