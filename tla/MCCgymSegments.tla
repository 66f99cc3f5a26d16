---------------------------- MODULE MCCgymSegments ----------------------------
(***************************************************************************)
(* From the command line to the segments: CgymArgs on every short command  *)
(* line, and CgymSegments on every -n argument and every file size, of     *)
(* small machine types (an int of 4 bits, an unsigned long of 6).          *)
(***************************************************************************)
EXTENDS CgymArgs

MCIntMax   == 7
MCULongMax == 63

VARIABLES argv, size
vars == <<argv, size>>

(* A number of each kind: the longs that are no int are cut to one.        *)
Longs == -(MCIntMax + 1) .. 2 * MCIntMax + 4
Verbs == {Text("list"), Text("get"), Text("put")}
Words == {Text("-n"), Text("file"), Text("host"), Text("host:junk"), Text(""),
          Number(2)}
MaxWords == 6

Init == argv = <<>> /\ size = 0

(* One more word; with -n as an option, any number.                        *)
AddWord ==
  /\ size = 0 /\ Len(argv) < MaxWords
  /\ \E w \in CASE argv = <<>> -> Verbs
                [] argv = <<Text("get"), Text("-n")>> -> Words \cup {Number(n) : n \in Longs}
                [] OTHER -> Words :
       argv' = Append(argv, w)
  /\ UNCHANGED size

(* A download of a file that is one byte longer.                           *)
Grow ==
  /\ Len(argv) = 5 /\ argv[1] = Text("get") /\ argv[2] = Text("-n")
  /\ argv[3].text = "number" /\ argv[4] = Text("file") /\ argv[5] = Text("host")
  /\ size < ULONG_MAX /\ size' = size + 1
  /\ UNCHANGED argv

Done == (Len(argv) = MaxWords \/ size = ULONG_MAX) /\ UNCHANGED vars

Next == AddWord \/ Grow \/ Done
Spec == Init /\ [][Next]_vars

Command  == main(argv)
nr       == Command.segments
Segments == ClampSegments(nr, size)

TypeOK ==
  size > 0 => nr \in Int_t /\ size \in ULong_t /\ Segments \in Int_t

(* cgym.c:10-11: the program does what its usage message says of the words *)
(* it was given, and shows the message when that says nothing.  The only   *)
(* command line it does not take is that of a file called "-n" on a server *)
(* called like a number.                                                   *)
UsageUnderstood ==
  IF Command = Usage THEN Readings(argv) = {} \/ Ambiguous(argv)
                     ELSE Command \in Readings(argv)

(* Whatever the user asked for, a file that is not empty and whose size is *)
(* an int is cut into a partition, one segment per byte at most: also when *)
(* -n is negative or no int.  A count of 0, as -n 0 or as a multiple of    *)
(* the number of ints, is excluded: get.c:83 divides by it.                *)
SegmentsPartition ==
  size \in 1 .. INT_MAX /\ nr # 0 => IsPartition(Segments, size)

(* A positive count needs no bound on the size.                            *)
PositiveCountPartitions ==
  size > 0 /\ nr > 0 => IsPartition(Segments, size) /\ IsBalanced(Segments, size)
=============================================================================
