------------------------------- MODULE CgymLine -------------------------------
(***************************************************************************)
(* How the server reads a command: readline() (cgymd/src/cgymd.c:261-291)  *)
(* and the loop over strtok() that cuts the line into words (126-161), as  *)
(* operators.  A line is a sequence of symbols: a command word, a digit or *)
(* a character of a name, "SP" between the words, "CR" and "LF" at the end.*)
(***************************************************************************)
EXTENDS Integers, Sequences

CONSTANTS
  Symbols,       \* what a line is made of
  CHAR_MAX,      \* the largest char, which is signed
  ADD,           \* the buffer grows by ADD
  MAX_LINE_LEN   \* libcgym.h:9, the longest name of a file

ASSUME LineAssumption ==
  /\ {"SP", "CR", "LF"} \subseteq Symbols
  /\ ADD \in Nat \ {0, 1} /\ CHAR_MAX \in Nat
  /\ CHAR_MAX >= ADD /\ (CHAR_MAX + 1) % ADD = 0
  /\ MAX_LINE_LEN \in Nat

ToChar(x) == ((x + CHAR_MAX + 1) % (2 * (CHAR_MAX + 1))) - (CHAR_MAX + 1)

(* The value of lim when size symbols are stored.                          *)
lim[size \in Nat] ==
  IF size = 0 THEN -1
  ELSE IF size - 1 >= lim[size - 1] THEN ToChar(lim[size - 1] + ADD)
  ELSE lim[size - 1]

(* realloc() of lim + ADD + 1 bytes: a negative number of them is too many.*)
HasRoom(size) == size >= lim[size] => ToChar(lim[size] + ADD) + 1 >= 0

(* How many symbols can be stored: the next one is read and dropped.       *)
MaxStored == CHOOSE n \in 0 .. CHAR_MAX + 1 :
               ~HasRoom(n) /\ \A m \in 0 .. n - 1 : HasRoom(m)

-----------------------------------------------------------------------------
Positions(in, x) == {p \in DOMAIN in : in[p] = x}
Before(in, x, n) == ~\E p \in Positions(in, x) : p <= n

(* The first CR of in, when the buffer does not fill up before it.         *)
IsEnd(in, p) == in[p] = "CR" /\ Before(in, "CR", p - 1) /\ p <= MaxStored

From(in, p) == SubSeq(in, p, Len(in))

(* The results of readline() on a stream with in to be read, closed by the *)
(* peer when eof; none while it waits for more.  What follows an end of    *)
(* line that is missing its LF is not looked at: the connection is closed. *)
NULL == [ok |-> FALSE, str |-> <<>>, rest |-> <<>>]
Line(str, rest) == [ok |-> TRUE, str |-> str, rest |-> rest]

M_readline(in, eof) ==
  IF \E p \in DOMAIN in : IsEnd(in, p)
  THEN LET p == CHOOSE p \in DOMAIN in : IsEnd(in, p)
       IN  IF p < Len(in)
           THEN IF in[p + 1] = "LF"
                THEN {Line(Append(SubSeq(in, 1, p - 1), "SP"), From(in, p + 2))}
                ELSE {NULL}
           ELSE {}
  ELSE IF Len(in) > MaxStored
  THEN {Line(SubSeq(in, 1, MaxStored), From(in, MaxStored + 2))}
  ELSE IF in = <<>> /\ eof THEN {NULL} ELSE {}

readline(in, eof) ==
  IF \E p \in DOMAIN in : IsEnd(in, p)
  THEN LET p == CHOOSE p \in DOMAIN in : IsEnd(in, p)
       IN  IF p < Len(in)
           THEN IF in[p + 1] = "LF"
                THEN {Line(Append(SubSeq(in, 1, p - 1), "SP"), From(in, p + 2))}
                ELSE {NULL}
           ELSE IF eof THEN {NULL} ELSE {}
  ELSE IF Len(in) > MaxStored
  THEN {Line(SubSeq(in, 1, MaxStored), From(in, MaxStored + 2))}
  ELSE IF ~eof THEN {}
  ELSE IF in = <<>> THEN {NULL} ELSE {Line(in, <<>>)}

-----------------------------------------------------------------------------
(* strtok(s, " ") with s at position s of str, where nuls are the spaces   *)
(* already overwritten; then s moves on by the length of the word plus one,*)
(* which is where the next word starts only after a single space.          *)
WordStart(str, s, nuls) ==
  {p \in s .. Len(str) :
     /\ str[p] # "SP" /\ p \notin nuls
     /\ \A q \in s .. p - 1 : str[q] = "SP" /\ q \notin nuls}

WordEnd(str, p) ==
  CHOOSE q \in p .. Len(str) :
    /\ q = Len(str) \/ str[q + 1] = "SP"
    /\ \A r \in p .. q : str[r] # "SP"

(* One turn of the loop: it is over when there is no word, or has read past*)
(* the end of the buffer when the line does not end in a space.            *)
Scans   == [words : Seq(Seq(Symbols)), s : Nat \ {0}, nuls : SUBSET Nat, past : BOOLEAN]
NoWords == [words |-> <<>>, s |-> 1, nuls |-> {}, past |-> FALSE]

NextWord(str, w) ==
  IF w.s > Len(str) + 1 THEN [w EXCEPT !.past = TRUE]
  ELSE IF WordStart(str, w.s, w.nuls) = {} THEN w
  ELSE LET p == CHOOSE p \in WordStart(str, w.s, w.nuls) : TRUE
           q == WordEnd(str, p)
       IN  [w EXCEPT !.words = Append(@, SubSeq(str, p, q)),
                     !.s = @ + (q - p + 1) + 1, !.nuls = @ \cup {q + 1}]

(* The words of str: each turn that finds one moves s on by two at least.  *)
Words(str) ==
  LET turn == [w \in Scans |-> NextWord(str, w)]
      loop[n \in Nat] == IF n = 0 THEN NoWords ELSE turn[loop[n - 1]]
  IN  loop[Len(str) + 1]
=============================================================================
