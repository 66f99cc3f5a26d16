--------------------------- MODULE CgymUsageProofs ---------------------------
(***************************************************************************)
(* From the command line to the segments: what main() makes of any command *)
(* line, and of any file, for every size of int and unsigned long.         *)
(***************************************************************************)
EXTENDS MCCgymSegments, CgymSegmentsProofs

(* The words of a command line: whatever their texts, strtol() makes an    *)
(* integer of them.                                                        *)
AreWords(S) == \A w \in S : w.value \in Int

LEMMA WordValue ==
  ASSUME NEW S, AreWords(S), argv \in Seq(S), NEW k \in 1 .. Len(argv)
  PROVE  argv[k].value \in Int
  BY DEF AreWords

LEMMA ToIntIsInt ==
  ASSUME NEW x \in Int
  PROVE  ToInt(x) \in Int_t
<1> DEFINE m == 2 * (INT_MAX + 1)
           w == x % m
<1>1. m \in Nat \ {0}
  BY WidthAssumption
<1>2. w \in 0 .. m - 1
  <2> HIDE DEF m
  <2> QED
    BY <1>1 DEF w
<1>3. ToInt(x) = IF w > INT_MAX THEN w - m ELSE w
  BY DEF ToInt, m, w
<1> HIDE DEF w
<1> QED
  BY <1>2, <1>3, WidthAssumption DEF Int_t, m

(* main() reads the verbs as the usage message does.                       *)
LEMMA ListUnderstood ==
  ASSUME NEW S, argv \in Seq(S), argv # <<>>, argv[1] = Text("list")
  PROVE  UsageUnderstood
<1>1. argv[1] # Text("get") /\ Len(argv) \in Nat \ {0}
  BY DEF Text
<1>2. Command = ListCommand(argv)
  BY DEF Command, main
<1>3. CASE Len(argv) = 2
  <2>1. Command = cgym_list(cgym_server_info_create(argv[2]), Text("/"))
    BY <1>2, <1>3 DEF ListCommand
  <2>2. Command # Usage
    BY <2>1 DEF cgym_list, Usage
  <2>3. Command \in Readings(argv)
    BY <1>3, <2>1 DEF Readings
  <2> QED
    BY <2>2, <2>3 DEF UsageUnderstood
<1>4. CASE Len(argv) = 3
  <2>1. Command = cgym_list(cgym_server_info_create(argv[3]), argv[2])
    BY <1>2, <1>4 DEF ListCommand
  <2>2. Command # Usage
    BY <2>1 DEF cgym_list, Usage
  <2>3. Command \in Readings(argv)
    BY <1>4, <2>1 DEF Readings
  <2> QED
    BY <2>2, <2>3 DEF UsageUnderstood
<1>5. CASE Len(argv) \notin 2 .. 3
  <2>1. Command = Usage
    BY <1>2, <1>5 DEF ListCommand
  <2>2. Readings(argv) = {}
    BY <1>1, <1>5 DEF Readings
  <2> QED
    BY <2>1, <2>2 DEF UsageUnderstood
<1> QED
  BY <1>1, <1>3, <1>4, <1>5

LEMMA GetUnderstood ==
  ASSUME NEW S, argv \in Seq(S), argv # <<>>, argv[1] = Text("get"),
         Len(argv) <= INT_MAX
  PROVE  UsageUnderstood
<1>1. argv[1] # Text("list") /\ Len(argv) \in Nat \ {0}
  BY DEF Text
<1>2. Command = GetCommand(argv)
  BY <1>1 DEF Command, main
<1>3. CASE Len(argv) < 3
  <2>1. Command = Usage
    BY <1>2, <1>3 DEF GetCommand
  <2>2. Readings(argv) = {}
    BY <1>1, <1>3 DEF Readings
  <2> QED
    BY <2>1, <2>2 DEF UsageUnderstood
<1>4. CASE Len(argv) \in 3 .. 4 /\ IsOption(argv)
  <2>1. Len(argv) < 5
    <3>1. \A n \in 3 .. 4 : n < 5
      OBVIOUS
    <3> QED
      BY <1>4, <3>1, Zenon
  <2>2. Command = Usage
    BY <1>2, <1>4, <2>1, Zenon DEF GetCommand
  <2>3. Ambiguous(argv)
    BY <1>4 DEF Ambiguous, IsOption
  <2> QED
    BY <2>2, <2>3 DEF UsageUnderstood
<1>5. CASE Len(argv) >= 3 /\ ~IsOption(argv)
  <2>1. ToInt(Len(argv) - 2) = Len(argv) - 2
    BY <1>1, <1>5, ToIntSmall, WidthAssumption
  <2>2. Command = cgym_get(argv[2], Len(argv) - 2, Servers(argv, 3))
    BY <1>1, <1>2, <1>5, <2>1 DEF GetCommand
  <2>3. Command # Usage
    BY <2>2 DEF cgym_get, Usage
  <2>4. Command \in Readings(argv)
    BY <1>5, <2>2 DEF Readings
  <2> QED
    BY <2>3, <2>4 DEF UsageUnderstood
<1>6. CASE Len(argv) >= 5 /\ IsOption(argv)
  <2>1. Command = cgym_get(argv[4], ToInt(argv[3].value), Servers(argv, 5))
    BY <1>1, <1>2, <1>6 DEF GetCommand
  <2>2. Command # Usage
    BY <2>1 DEF cgym_get, Usage
  <2>3. Command \in Readings(argv)
    BY <1>6, <2>1 DEF Readings, IsOption
  <2> QED
    BY <2>2, <2>3 DEF UsageUnderstood
<1>7. Len(argv) < 3 \/ Len(argv) \in 3 .. 4 \/ Len(argv) >= 5
  <2>1. \A n \in Nat : n < 3 \/ n \in 3 .. 4 \/ n >= 5
    OBVIOUS
  <2> QED
    BY <1>1, <2>1, Zenon
<1>8. Len(argv) < 3 \/ Len(argv) >= 3
  <2>1. \A n \in Nat : n < 3 \/ n >= 3
    OBVIOUS
  <2> QED
    BY <1>1, <2>1, Zenon
<1> QED
  BY <1>3, <1>4, <1>5, <1>6, <1>7, <1>8, Zenon

(* cgym.c:10-11 and 26-79: for a command line of any words and of any      *)
(* length that argc, an int, can have, main() calls what the usage message *)
(* says, and shows the message when that says nothing, but for a file      *)
(* called "-n" on a server called like a number.                           *)
THEOREM AnyCommandLineUnderstood ==
  ASSUME NEW S, argv \in Seq(S), Len(argv) <= INT_MAX
  PROVE  UsageUnderstood
<1>1. CASE argv = <<>>
  <2>1. Command = Usage /\ Readings(argv) = {}
    BY <1>1 DEF Command, main, Readings
  <2> QED
    BY <2>1 DEF UsageUnderstood
<1>2. CASE argv # <<>> /\ argv[1] \notin {Text("list"), Text("get")}
  <2>1. Command = Usage /\ Readings(argv) = {}
    BY <1>2 DEF Command, main, Readings
  <2> QED
    BY <2>1 DEF UsageUnderstood
<1> QED
  BY <1>1, <1>2, ListUnderstood, GetUnderstood

-----------------------------------------------------------------------------
(* The count that reaches cgym_get() is an int, whatever the option says.  *)
LEMMA CountIsInt ==
  ASSUME NEW S, AreWords(S), argv \in Seq(S), argv # <<>>,
         argv[1] = Text("get"), Len(argv) >= 5
  PROVE  nr \in Int_t
<1>1. argv[1] # Text("list") /\ Len(argv) \in Nat /\ argv[3].value \in Int
  BY WordValue DEF Text
<1>2. Command = GetCommand(argv)
  BY <1>1 DEF Command, main
<1>3. nr = ToInt(argv[3].value) \/ nr = ToInt(Len(argv) - 2)
  BY <1>1, <1>2 DEF nr, GetCommand, cgym_get
<1> QED
  BY <1>1, <1>3, ToIntIsInt

LEMMA SegmentsAreInt ==
  ASSUME nr \in Int_t, size \in ULong_t
  PROVE  Segments \in Int_t
<1>1. size \in Int
  BY DEF ULong_t
<1> QED
  BY <1>1, ToIntIsInt DEF Segments, ClampSegments

(* get.c:72-75 on any command line of a download and any file: also when   *)
(* -n is negative or no int, the segments of a file whose size is an int   *)
(* are a partition of it; with a positive count those of any file are.     *)
THEOREM AnyDownloadPartitions ==
  ASSUME NEW S, AreWords(S), argv \in Seq(S), argv # <<>>,
         argv[1] = Text("get"), Len(argv) >= 5, size \in ULong_t
  PROVE  TypeOK /\ SegmentsPartition /\ PositiveCountPartitions
<1>1. nr \in Int_t
  BY CountIsInt
<1>2. TypeOK
  BY <1>1, SegmentsAreInt DEF TypeOK
<1>3. SegmentsPartition
  BY <1>1, AnyCountPartitions DEF SegmentsPartition, Segments
<1>4. PositiveCountPartitions
  BY <1>1, PositiveCount DEF PositiveCountPartitions, Segments
<1> QED
  BY <1>2, <1>3, <1>4

-----------------------------------------------------------------------------
(* What the run enumerates is such a command line and such a file.         *)
RunWords == Verbs \cup Words \cup {Number(n) : n \in Longs}

Enumerated ==
  /\ argv \in Seq(RunWords) /\ Len(argv) <= MaxWords
  /\ size \in ULong_t
  /\ size > 0 => argv # <<>> /\ argv[1] = Text("get") /\ Len(argv) >= 5

LEMMA RunWordsAreWords == AreWords(RunWords)
<1>1. ASSUME NEW w \in Verbs
      PROVE  w.value = 0
  BY DEF Verbs, Text
<1>2. \A n \in Int : Number(n).value = n
  BY DEF Number
<1>3. Longs \subseteq Int
  BY DEF Longs, MCIntMax
<1>4. ASSUME NEW w \in Words
      PROVE  w.value \in {0, 2}
  <2>1. Number(2).value = 2 /\ \A t : Text(t).value = 0
    BY DEF Number, Text
  <2>2. w = Number(2) \/ \E t : w = Text(t)
    BY Zenon DEF Words
  <2> QED
    BY <2>1, <2>2, Zenon
<1>5. \A w \in {Number(n) : n \in Longs} : w.value \in Int
  BY <1>2, <1>3
<1> QED
  BY <1>1, <1>4, <1>5 DEF AreWords, RunWords

LEMMA EnumeratedInductive == Spec => []Enumerated
<1>1. Init => Enumerated
  BY WidthAssumption DEF Init, Enumerated, ULong_t, MaxWords
<1>2. ASSUME Enumerated, [Next]_vars
      PROVE  Enumerated'
  <2>1. CASE AddWord
    <3>1. PICK w \in RunWords : argv' = Append(argv, w)
      BY <2>1, Zenon DEF AddWord, RunWords
    <3>2. /\ argv \in Seq(RunWords) /\ Len(argv) \in Nat /\ Len(argv) < 6
          /\ size = 0 /\ size' = 0
      BY <1>2, <2>1 DEF Enumerated, AddWord, MaxWords
    <3>3. argv' \in Seq(RunWords) /\ Len(argv') = Len(argv) + 1
      BY <3>1, <3>2
    <3> QED
      BY <3>2, <3>3, WidthAssumption DEF Enumerated, MaxWords, ULong_t
  <2>2. CASE Grow
    <3>1. argv' = argv /\ Len(argv) = 5 /\ argv[1] = Text("get")
      BY <2>2 DEF Grow
    <3>2. size' \in ULong_t
      BY <1>2, <2>2, WidthAssumption DEF Enumerated, Grow, ULong_t
    <3>3. argv # <<>> /\ Len(argv) >= 5
      BY <3>1
    <3> QED
      BY <1>2, <3>1, <3>2, <3>3 DEF Enumerated
  <2>3. CASE UNCHANGED vars
    BY <1>2, <2>3 DEF Enumerated, vars
  <2> QED
    BY <1>2, <2>1, <2>2, <2>3 DEF Next, Done
<1> QED
  BY <1>1, <1>2, PTL DEF Spec

(* The run's properties for machine types of every width: the count and    *)
(* the size that reach the division are what the code's types hold, ...    *)
THEOREM RunTypeOK == Spec => []TypeOK
<1>1. Enumerated => TypeOK
  BY RunWordsAreWords, AnyDownloadPartitions DEF Enumerated, TypeOK
<1> QED
  BY <1>1, EnumeratedInductive, PTL

(* ... the file is partitioned for every -n but 0, ...                     *)
THEOREM RunSegmentsPartition == Spec => []SegmentsPartition
<1>1. Enumerated => SegmentsPartition
  BY RunWordsAreWords, AnyDownloadPartitions DEF Enumerated, SegmentsPartition
<1> QED
  BY <1>1, EnumeratedInductive, PTL

(* ... and into balanced segments for every positive one.                  *)
THEOREM RunPositiveCount == Spec => []PositiveCountPartitions
<1>1. Enumerated => PositiveCountPartitions
  BY RunWordsAreWords, AnyDownloadPartitions DEF Enumerated, PositiveCountPartitions
<1> QED
  BY <1>1, EnumeratedInductive, PTL

(* main() understands every command line the run enumerates, when an int   *)
(* holds the number of its words.                                          *)
THEOREM RunUsage ==
  ASSUME MaxWords <= INT_MAX
  PROVE  Spec => []UsageUnderstood
<1>1. Enumerated => UsageUnderstood
  BY AnyCommandLineUnderstood, WidthAssumption DEF Enumerated, MaxWords
<1> QED
  BY <1>1, EnumeratedInductive, PTL
=============================================================================
