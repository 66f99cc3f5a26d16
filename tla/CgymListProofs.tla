---------------------------- MODULE CgymListProofs ----------------------------
(***************************************************************************)
(* The list programs and their server, for any programs, requests, files,  *)
(* directories and troubles.  What one of them has read is the beginning   *)
(* of the greeting and of the reply that the server owes it, and what it   *)
(* has made of it is the beginning of a listing.                           *)
(***************************************************************************)
EXTENDS CgymServerProofs, CgymList

(***************************************************************************)
(* The inductive invariant.                                                *)
(***************************************************************************)
Labelled == {"connect", "handshake", "send", "recv", "print", "exit", "killed"}

Progs ==
  [pc : Labelled, request : UNION {Lines[c] : c \in Clients}, got : Nat, entr : Seq(Units),
   head : Seq(Units \cup {Garbled}), ended : {"no", "end", "eof", "ERR"}, ret : {0},
   status : {0, 1}]

(* The connection a program has in each of its calls.                      *)
Linked(label, l) ==
  /\ label = "connect" => l = "away"
  /\ label \in {"handshake", "send", "recv", "print"} => l = "up"
  /\ label \in {"exit", "killed"} => l = "gone"

Unasked == {"connect", "handshake", "send"}

ProgOk(c) ==
  /\ prog[c].request \in Lines[c]
  /\ Linked(prog[c].pc, link[c])
  /\ lines[c] = <<>> \/ lines[c] = <<prog[c].request>>
  /\ prog[c].pc \in Unasked => lines[c] = <<>>
  /\ store \in seen[c]

ProgsOk ==
  /\ prog \in [Clients -> Progs] /\ seen \in [Clients -> SUBSET Stores]
  /\ \A c \in Clients : ProgOk(c)

(* Who was accepted is served or closed; who has asked nothing is sent the *)
(* greeting.                                                               *)
Greeting ==
  serving \in Clients \ spoilt /\ link[serving] = "up" /\ pc = "send" /\ lines[serving] = <<>>
    => job.todo = <<Message(AckMsg)>>

Attended ==
  /\ ~Running => closed = Clients
  /\ Running => \A c \in Accepted : c = serving \/ c \in closed
  /\ Greeting

(* The reply R of c, empty as long as there is none.                       *)
Transcript(c, R) == Told(c) = IF c \in Accepted THEN AckMsg \o R ELSE <<>>
Standing(c, R) ==
  /\ Given(c) = IF R = <<>> THEN 0 ELSE 1
  /\ c = serving => (Ending <=> R = ErrMsg)
  /\ c \in Accepted /\ c # serving => R = ErrMsg

Story(c, R) ==
  /\ Running => Transcript(c, R) /\ Standing(c, R)
  /\ ~Running => IsPrefix(out[c], AckMsg \o R)

Replies(L) == {<<>>, ErrMsg} \cup {ListReply(items) : items \in L}

(* Where program p is in the reply R, when its listings are L.             *)
AtStart(p)     == p.got = 2 /\ p.entr = <<>> /\ p.head = <<>>
AtStatus(p, R) == p.got = 3 /\ R # <<>> /\ p.entr = <<R[1]>> /\ p.head = <<>>
AtItem(p, items, k) ==
  k \in 0 .. Len(items) /\ p.got = 4 + 2 * k /\ p.entr = <<>> /\ p.head = SubSeq(items, 1, k)
AtEnd(p, items, k) ==
  /\ k \in 0 .. Len(items) - 1 /\ p.got = 5 + 2 * k
  /\ p.entr = <<items[k + 1]>> /\ p.head = SubSeq(items, 1, k)
InItems(p, items) == \E k \in 0 .. Len(items) : AtItem(p, items, k) \/ AtEnd(p, items, k)

Reading(p, L, R) ==
  \/ AtStart(p) \/ AtStatus(p, R)
  \/ \E items \in L : R = ListReply(items) /\ InItems(p, items)

Begun(head, L) == head = <<>> \/ \E items \in L : IsPrefix(head, items)

HasRead(p, L, R) ==
  /\ p.ended = "end" => p.got = Len(AckMsg \o R) /\ p.head \in L /\ R = ListReply(p.head)
  /\ p.ended = "eof" => Begun(p.head, L)
  /\ p.ended \in {"end", "eof"}

Reads(p, L, R) ==
  /\ p.pc \in {"connect", "handshake"} => p.got = 0 /\ p.entr = <<>> /\ p.head = <<>>
  /\ p.pc = "send" => AtStart(p)
  /\ p.pc = "recv" => Reading(p, L, R)
  /\ p.pc = "print" => HasRead(p, L, R)
  /\ p.pc # "print" => p.ended = "no"

(* What it has is there to be read, and the end of file is there when it   *)
(* has seen it.                                                            *)
Behind(c) ==
  /\ prog[c].pc \in {"send", "recv", "print"} => prog[c].got <= Len(out[c])
  /\ prog[c].ended = "eof" => ~Running

Finished(p, L) ==
  /\ p.pc = "exit" /\ p.ended = "end" => p.head \in L
  /\ p.pc = "exit" /\ p.ended = "eof" => Begun(p.head, L)

Ended(c) ==
  /\ Finished(prog[c], Listings(c))
  /\ prog[c].pc = "killed" => ~Running \/ <<>> \in Listings(c)

Knows(c) ==
  IF link[c] = "gone" THEN Ended(c)
  ELSE /\ \E R \in Replies(Listings(c)) : Story(c, R) /\ Reads(prog[c], Listings(c), R)
       /\ Behind(c)

Untroubled ==
  troubles = 0 /\ \A c \in Clients : Speaks(prog[c].request) /\ Opens(c)

ListInv ==
  /\ IInv /\ ProgsOk /\ Attended /\ troubles \in Nat
  /\ \A c \in Clients \ spoilt : Knows(c)
  /\ Untroubled => Running /\ spoilt = {}

-----------------------------------------------------------------------------
(* The reply to a LIST, unit by unit.                                      *)
ItemLines(items) == [k \in DOMAIN items |-> ListLine(items[k])]

LEMMA ItemLinesType ==
  ASSUME NEW items \in Seq(Items)
  PROVE  /\ ItemLines(items) \in Seq(Seq(Units)) /\ Len(ItemLines(items)) = Len(items)
         /\ \A k \in 1 .. Len(items) :
              /\ items[k] \in Items /\ items[k] \in Units
              /\ ItemLines(items)[k] = <<items[k], CRLF>>
<1>1. \A k \in 1 .. Len(items) : items[k] \in Items /\ items[k] \in Units
  BY ElementOfSeq DEF Units, Shows
<1>2. \A k \in 1 .. Len(items) : ListLine(items[k]) \in Seq(Units)
  BY <1>1, ListLineType DEF Shows
<1>3. DOMAIN items = 1 .. Len(items) /\ Len(items) \in Nat
  BY LenProperties
<1> QED
  BY <1>1, <1>2, <1>3 DEF ItemLines, ListLine

Paired(items, s) ==
  /\ Len(s) = 2 * Len(items)
  /\ \A k \in 1 .. Len(items) : s[2 * k - 1] = items[k] /\ s[2 * k] = CRLF

LEMMA OneMorePair ==
  ASSUME NEW items \in Seq(Items), NEW s \in Seq(Units), Paired(items, s), NEW x \in Items
  PROVE  Paired(Append(items, x), s \o <<x, CRLF>>)
<1> DEFINE n == Len(items)
           t == Append(items, x)
           l == <<x, CRLF>>
           u == s \o l
<1>1. n \in Nat /\ Len(t) = n + 1 /\ t[n + 1] = x /\ \A k \in 1 .. n : t[k] = items[k]
  BY AppendProperties, LenProperties
<1>2. l \in Seq(Units) /\ Len(l) = 2 /\ l[1] = x /\ l[2] = CRLF
  BY UnitsType DEF Units, Shows
<1>3. Len(s) = 2 * n /\ \A k \in 1 .. n : s[2 * k - 1] = items[k] /\ s[2 * k] = CRLF
  BY DEF Paired
<1> HIDE DEF n, t, l
<1>4. /\ Len(u) = 2 * n + 2
      /\ \A i \in 1 .. 2 * n + 2 : u[i] = IF i <= 2 * n THEN s[i] ELSE l[i - 2 * n]
  <2>1. /\ Len(u) = Len(s) + Len(l)
        /\ \A i \in 1 .. Len(s) + Len(l) : u[i] = IF i <= Len(s) THEN s[i] ELSE l[i - Len(s)]
    BY <1>2, ConcatProperties
  <2> HIDE DEF u
  <2> QED
    BY <1>2, <1>3, <2>1
<1> HIDE DEF u
<1>5. ASSUME NEW k \in 1 .. n + 1 PROVE u[2 * k - 1] = t[k] /\ u[2 * k] = CRLF
  <2>1. CASE k = n + 1
    <3>1. 2 * k - 1 \in 1 .. 2 * n + 2 /\ ~(2 * k - 1 <= 2 * n) /\ 2 * k - 1 - 2 * n = 1
      BY <1>1, <2>1
    <3>2. 2 * k \in 1 .. 2 * n + 2 /\ ~(2 * k <= 2 * n) /\ 2 * k - 2 * n = 2
      BY <1>1, <2>1
    <3>3. u[2 * k - 1] = l[1] /\ u[2 * k] = l[2]
      BY <1>4, <3>1, <3>2
    <3> QED
      BY <1>1, <1>2, <2>1, <3>3
  <2>2. CASE k # n + 1
    <3>1. k \in 1 .. n
      BY <1>1, <2>2
    <3>2. 2 * k - 1 \in 1 .. 2 * n + 2 /\ 2 * k - 1 <= 2 * n
      BY <1>1, <3>1
    <3>3. 2 * k \in 1 .. 2 * n + 2 /\ 2 * k <= 2 * n
      BY <1>1, <3>1
    <3>4. u[2 * k - 1] = s[2 * k - 1] /\ u[2 * k] = s[2 * k]
      BY <1>4, <3>2, <3>3
    <3> QED
      BY <1>1, <1>3, <3>1, <3>4
  <2> QED
    BY <2>1, <2>2
<1>6. Len(t) = n + 1 /\ Len(u) = 2 * Len(t)
  BY <1>1, <1>4
<1> QED
  BY <1>5, <1>6 DEF Paired, t, l, u

LEMMA ItemsPaired ==
  ASSUME NEW items \in Seq(Items)
  PROVE  Paired(items, FlattenSeq(ItemLines(items))) /\ FlattenSeq(ItemLines(items)) \in Seq(Units)
<1> DEFINE Ok(n) == \A s \in Seq(Items) : Len(s) = n => Paired(s, FlattenSeq(ItemLines(s)))
           T == {n \in Nat : Ok(n)}
<1>1. 0 \in T
  <2>1. ASSUME NEW s \in Seq(Items), Len(s) = 0 PROVE Paired(s, FlattenSeq(ItemLines(s)))
    <3>1. s = <<>>
      BY <2>1, EmptySeq
    <3>2. ItemLines(s) = <<>>
      BY <3>1 DEF ItemLines
    <3>3. FlattenSeq(ItemLines(s)) = <<>>
      BY <3>2, FlattenEmpty
    <3> QED
      BY <3>1, <3>3 DEF Paired
  <2> QED
    BY <2>1
<1>2. ASSUME NEW n \in Nat, n \in T PROVE n + 1 \in T
  <2>1. ASSUME NEW s \in Seq(Items), Len(s) = n + 1
        PROVE  Paired(s, FlattenSeq(ItemLines(s)))
    <3> DEFINE a == SubSeq(s, 1, n)
               x == s[n + 1]
               b == ItemLines(a)
               l == <<x, CRLF>>
    <3>1. \A i \in 1 .. n + 1 : s[i] \in Items
      BY <2>1, ElementOfSeq
    <3>2. a \in Seq(Items) /\ Len(a) = n /\ \A i \in 1 .. n : a[i] = s[i]
      <4>1. \A i \in 1 .. n : s[i] \in Items
        BY <3>1
      <4>2. /\ a \in Seq(Items) /\ Len(a) = IF 1 <= n THEN n - 1 + 1 ELSE 0
            /\ \A i \in 1 .. n - 1 + 1 : a[i] = s[1 + i - 1]
        BY <4>1, SubSeqProperties
      <4> HIDE DEF a
      <4> QED
        BY <4>2
    <3>3. x \in Items
      BY <3>1
    <3> HIDE DEF a, x
    <3>4. s = Append(a, x)
      <4>1. /\ Append(a, x) \in Seq(Items) /\ Len(Append(a, x)) = n + 1
            /\ \A i \in 1 .. n : Append(a, x)[i] = a[i]
            /\ Append(a, x)[n + 1] = x
        BY <3>2, <3>3, AppendProperties
      <4>2. \A i \in 1 .. n + 1 : s[i] = Append(a, x)[i]
        BY <3>2, <4>1 DEF x
      <4> QED
        BY <2>1, <4>1, <4>2, SeqEqual
    <3>5. /\ b \in Seq(Seq(Units)) /\ Len(b) = n
          /\ \A k \in 1 .. n : b[k] = <<a[k], CRLF>>
      BY <3>2, ItemLinesType
    <3>6. l \in Seq(Units)
      BY <3>3, UnitsType DEF Units, Shows
    <3> HIDE DEF b, l
    <3>7. ItemLines(s) = Append(b, l)
      <4>1. /\ ItemLines(s) \in Seq(Seq(Units)) /\ Len(ItemLines(s)) = n + 1
            /\ \A k \in 1 .. n + 1 : ItemLines(s)[k] = <<s[k], CRLF>>
        BY <2>1, ItemLinesType
      <4>2. /\ Append(b, l) \in Seq(Seq(Units)) /\ Len(Append(b, l)) = n + 1
            /\ \A k \in 1 .. n : Append(b, l)[k] = b[k]
            /\ Append(b, l)[n + 1] = l
        BY <3>5, <3>6, AppendProperties
      <4>3. ASSUME NEW k \in 1 .. n + 1 PROVE ItemLines(s)[k] = Append(b, l)[k]
        <5>1. CASE k = n + 1
          BY <4>1, <4>2, <5>1 DEF l, x
        <5>2. CASE k # n + 1
          <6>1. k \in 1 .. n
            BY <5>2
          <6>2. s[k] = a[k] /\ b[k] = <<a[k], CRLF>>
            BY <3>2, <3>5, <6>1
          <6> QED
            BY <4>1, <4>2, <6>1, <6>2
        <5> QED
          BY <5>1, <5>2
      <4> QED
        BY <4>1, <4>2, <4>3, SeqEqual
    <3>8. FlattenSeq(ItemLines(s)) = FlattenSeq(b) \o l
      BY <3>5, <3>6, <3>7, FlattenAppend
    <3>9. FlattenSeq(b) \in Seq(Units) /\ Paired(a, FlattenSeq(b))
      BY <1>2, <3>2, <3>5, FlattenType DEF b
    <3> QED
      BY <3>2, <3>3, <3>4, <3>8, <3>9, OneMorePair DEF l
  <2> QED
    BY <2>1
<1> HIDE DEF T
<1>3. Nat \subseteq T
  BY <1>1, <1>2, NatSetInduction
<1>4. Len(items) \in T
  BY <1>3, LenProperties
<1>5. Ok(Len(items))
  BY <1>4 DEF T
<1>6. FlattenSeq(ItemLines(items)) \in Seq(Units)
  <2>1. ItemLines(items) \in Seq(Seq(Units))
    BY ItemLinesType
  <2> QED
    BY <2>1, FlattenType
<1> QED
  BY <1>5, <1>6

(* OK, each item on a line, an empty line.                                 *)
LEMMA ListReplyUnits ==
  ASSUME NEW items \in Seq(Items)
  PROVE  /\ ListReply(items) \in Seq(Units) /\ Len(items) \in Nat
         /\ Len(ListReply(items)) = 2 * Len(items) + 3
         /\ ListReply(items)[1] = Word("OK") /\ ListReply(items)[2] = CRLF
         /\ \A k \in 0 .. Len(items) - 1 : /\ ListReply(items)[2 * k + 3] = items[k + 1]
                                           /\ ListReply(items)[2 * k + 4] = CRLF
         /\ ListReply(items)[2 * Len(items) + 3] = CRLF
<1> DEFINE n == Len(items)
           s == FlattenSeq(ItemLines(items))
           a == OkMsg \o s
           r == a \o EndMsg
<1>1. n \in Nat
  BY LenProperties
<1>2. /\ s \in Seq(Units) /\ Len(s) = 2 * n
      /\ \A k \in 1 .. n : s[2 * k - 1] = items[k] /\ s[2 * k] = CRLF
  BY ItemsPaired DEF Paired
<1>3. /\ OkMsg \in Seq(Units) /\ Len(OkMsg) = 2 /\ OkMsg[1] = Word("OK") /\ OkMsg[2] = CRLF
      /\ EndMsg \in Seq(Units) /\ Len(EndMsg) = 1 /\ EndMsg[1] = CRLF
  BY UnitsType DEF OkMsg, EndMsg
<1>4. r = ListReply(items)
  BY DEF ListReply, ItemLines
<1> HIDE DEF n, s, a
<1>5. /\ a \in Seq(Units) /\ Len(a) = 2 + 2 * n
      /\ \A i \in 1 .. 2 + 2 * n : a[i] = IF i <= 2 THEN OkMsg[i] ELSE s[i - 2]
  <2>1. /\ a \in Seq(Units) /\ Len(a) = Len(OkMsg) + Len(s)
        /\ \A i \in 1 .. Len(OkMsg) + Len(s) :
             a[i] = IF i <= Len(OkMsg) THEN OkMsg[i] ELSE s[i - Len(OkMsg)]
    BY <1>2, <1>3, ConcatProperties DEF a
  <2> QED
    BY <1>2, <1>3, <2>1
<1>6. /\ r \in Seq(Units) /\ Len(r) = 3 + 2 * n
      /\ \A i \in 1 .. 3 + 2 * n : r[i] = IF i <= 2 + 2 * n THEN a[i] ELSE EndMsg[i - (2 + 2 * n)]
  <2>1. /\ r \in Seq(Units) /\ Len(r) = Len(a) + Len(EndMsg)
        /\ \A i \in 1 .. Len(a) + Len(EndMsg) :
             r[i] = IF i <= Len(a) THEN a[i] ELSE EndMsg[i - Len(a)]
    BY <1>3, <1>5, ConcatProperties
  <2> HIDE DEF r
  <2>2. Len(a) + Len(EndMsg) = 3 + 2 * n
    BY <1>1, <1>3, <1>5
  <2> QED
    BY <1>5, <2>1, <2>2
<1> HIDE DEF r
<1>7. r[1] = Word("OK") /\ r[2] = CRLF
  <2>1. 1 \in 1 .. 3 + 2 * n /\ 2 \in 1 .. 3 + 2 * n /\ 1 <= 2 + 2 * n /\ 2 <= 2 + 2 * n
        /\ 1 \in 1 .. 2 + 2 * n /\ 2 \in 1 .. 2 + 2 * n
    BY <1>1
  <2>2. r[1] = a[1] /\ r[2] = a[2]
    BY <1>6, <2>1
  <2>3. a[1] = OkMsg[1] /\ a[2] = OkMsg[2]
    BY <1>5, <2>1
  <2> QED
    BY <1>3, <2>2, <2>3
<1>8. ASSUME NEW k \in 0 .. n - 1 PROVE r[2 * k + 3] = items[k + 1] /\ r[2 * k + 4] = CRLF
  <2> DEFINE i == 2 * k + 3
             j == 2 * k + 4
             m == k + 1
  <2>1. /\ i \in 1 .. 3 + 2 * n /\ i <= 2 + 2 * n /\ i \in 1 .. 2 + 2 * n /\ ~(i <= 2)
        /\ j \in 1 .. 3 + 2 * n /\ j <= 2 + 2 * n /\ j \in 1 .. 2 + 2 * n /\ ~(j <= 2)
        /\ i - 2 = 2 * m - 1 /\ j - 2 = 2 * m /\ m \in 1 .. n
    BY <1>1
  <2> HIDE DEF i, j, m
  <2>2. r[i] = a[i] /\ r[j] = a[j]
    BY <1>6, <2>1
  <2>3. a[i] = s[2 * m - 1] /\ a[j] = s[2 * m]
    BY <1>5, <2>1
  <2>4. s[2 * m - 1] = items[m] /\ s[2 * m] = CRLF
    BY <1>2, <2>1
  <2> QED
    BY <2>2, <2>3, <2>4 DEF i, j, m
<1>9. r[2 * n + 3] = CRLF
  <2> DEFINE i == 2 * n + 3
  <2>1. i \in 1 .. 3 + 2 * n /\ ~(i <= 2 + 2 * n) /\ i - (2 + 2 * n) = 1
    BY <1>1
  <2> HIDE DEF i
  <2>2. r[i] = EndMsg[1]
    BY <1>6, <2>1
  <2> QED
    BY <1>3, <2>2 DEF i
<1>10. Len(r) = 2 * n + 3
  BY <1>1, <1>6
<1> QED
  BY <1>1, <1>4, <1>6, <1>7, <1>8, <1>9, <1>10 DEF n

(* What tells the units of a reply apart.                                  *)
LEMMA UnitsDiffer ==
  /\ Word("OK") # CRLF /\ Word("ERR") # CRLF /\ Word("OK") # Word("ERR")
  /\ Word("OK").kind = "OK" /\ Word("ERR").kind = "ERR"
  /\ \A x \in Items : /\ x # CRLF /\ x # Word("OK") /\ x # Word("ERR")
                      /\ x.kind \in {"file", "dir"}
<1>1. /\ CRLF.kind = "CRLF" /\ Word("OK").kind = "OK" /\ Word("ERR").kind = "ERR"
  BY DEF CRLF, Word
<1>2. \A x \in Items : x.kind \in {"file", "dir"}
  BY DEF Items
<1> QED
  BY <1>1, <1>2

LEMMA AckUnits ==
  /\ AckMsg \in Seq(Units) /\ Len(AckMsg) = 2 /\ AckMsg[1] = Word("CGYM") /\ AckMsg[2] = CRLF
  /\ ErrMsg \in Seq(Units) /\ Len(ErrMsg) = 2 /\ ErrMsg[1] = Word("ERR") /\ ErrMsg[2] = CRLF
BY UnitsType DEF AckMsg, ErrMsg

(* What follows the greeting.                                              *)
LEMMA AfterGreeting ==
  ASSUME NEW R \in Seq(Units)
  PROVE  /\ AckMsg \o R \in Seq(Units) /\ Len(R) \in Nat /\ Len(AckMsg \o R) = Len(R) + 2
         /\ (AckMsg \o R)[1] = Word("CGYM") /\ (AckMsg \o R)[2] = CRLF
         /\ \A n \in 1 .. Len(R) : (AckMsg \o R)[n + 2] = R[n]
<1> DEFINE s == AckMsg \o R
<1>1. Len(R) \in Nat
  BY LenProperties
<1>2. /\ s \in Seq(Units) /\ Len(s) = Len(AckMsg) + Len(R)
      /\ \A i \in 1 .. Len(AckMsg) + Len(R) :
           s[i] = IF i <= Len(AckMsg) THEN AckMsg[i] ELSE R[i - Len(AckMsg)]
  BY AckUnits, ConcatProperties
<1> HIDE DEF s
<1>3. Len(s) = Len(R) + 2
  BY <1>1, <1>2, AckUnits
<1>4. s[1] = Word("CGYM") /\ s[2] = CRLF
  <2>1. 1 \in 1 .. 2 + Len(R) /\ 2 \in 1 .. 2 + Len(R)
    BY <1>1
  <2> QED
    BY <1>2, <2>1, AckUnits
<1>5. ASSUME NEW n \in 1 .. Len(R) PROVE s[n + 2] = R[n]
  <2> DEFINE i == n + 2
  <2>1. i \in 1 .. 2 + Len(R) /\ ~(i <= 2) /\ i - 2 = n
    BY <1>1
  <2> HIDE DEF i
  <2>2. s[i] = R[n]
    BY <1>2, <2>1, AckUnits
  <2> QED
    BY <2>2 DEF i
<1> QED
  BY <1>1, <1>2, <1>3, <1>4, <1>5 DEF s

(* A prefix has the units of the whole.                                    *)
LEMMA PrefixUnits ==
  ASSUME NEW S, NEW s \in Seq(S), NEW t \in Seq(S)
  PROVE  /\ IsPrefix(s, t) <=> /\ Len(s) <= Len(t)
                               /\ \A i \in 1 .. Len(s) : s[i] = t[i]
         /\ Len(s) \in Nat /\ Len(t) \in Nat
<1>1. /\ Len(s) \in Nat /\ Len(t) \in Nat
      /\ SubSeq(s, 1, Len(s)) = s
  BY LenProperties, SubSeqFull
<1>2. CASE Len(s) <= Len(t)
  <2> DEFINE u == SubSeq(t, 1, Len(s))
             n == Len(s)
  <2>1. u \in Seq(S) /\ Len(u) = n /\ \A i \in 1 .. n : u[i] = t[i]
    <3>1. \A i \in 1 .. n : t[i] \in S
      <4>1. \A i \in 1 .. n : i \in 1 .. Len(t)
        BY <1>1, <1>2
      <4> QED
        BY <4>1, ElementOfSeq
    <3> HIDE DEF n
    <3>2. n \in Nat
      BY <1>1 DEF n
    <3>3. /\ SubSeq(t, 1, n) \in Seq(S) /\ Len(SubSeq(t, 1, n)) = IF 1 <= n THEN n - 1 + 1 ELSE 0
          /\ \A i \in 1 .. n - 1 + 1 : SubSeq(t, 1, n)[i] = t[1 + i - 1]
      BY <3>1, <3>2, SubSeqProperties
    <3>4. u = SubSeq(t, 1, n)
      BY DEF n
    <3> HIDE DEF u
    <3> QED
      BY <3>2, <3>3, <3>4
  <2> HIDE DEF u
  <2>2. (\A i \in 1 .. n : s[i] = t[i]) <=> s = u
    <3>1. ASSUME \A i \in 1 .. n : s[i] = t[i] PROVE s = u
      BY <2>1, <3>1, SeqEqual
    <3> QED
      BY <2>1, <3>1
  <2>3. IsPrefix(s, t) <=> s = u
    BY <1>1, <1>2 DEF IsPrefix, u
  <2> QED
    BY <1>1, <1>2, <2>2, <2>3
<1>3. CASE ~(Len(s) <= Len(t))
  BY <1>1, <1>3 DEF IsPrefix
<1> QED
  BY <1>1, <1>2, <1>3

LEMMA PrefixOfConcat ==
  ASSUME NEW S, NEW a \in Seq(S), NEW b \in Seq(S)
  PROVE  IsPrefix(a, a \o b)
<1> DEFINE t == a \o b
<1>1. /\ t \in Seq(S) /\ Len(t) = Len(a) + Len(b)
      /\ \A i \in 1 .. Len(a) + Len(b) : t[i] = IF i <= Len(a) THEN a[i] ELSE b[i - Len(a)]
  BY ConcatProperties
<1>2. Len(a) \in Nat /\ Len(b) \in Nat
  BY LenProperties
<1> HIDE DEF t
<1>3. Len(a) <= Len(t) /\ \A i \in 1 .. Len(a) : a[i] = t[i]
  BY <1>1, <1>2
<1> QED
  BY <1>1, <1>3, PrefixUnits DEF t

-----------------------------------------------------------------------------
(***************************************************************************)
(* What CgymService says of a step of the server, as one client sees it.   *)
(***************************************************************************)
Spared(c) == Told(c)' = Told(c) /\ Given(c)' = Given(c)

Alike(c)  == c \in Accepted' <=> c \in Accepted

Same(c) ==
  /\ Spared(c) /\ Alike(c)
  /\ serving' = c <=> serving = c
  /\ c = serving => (Ending' <=> Ending)

Greeted(c) ==
  /\ Running' /\ c \notin Accepted /\ c \in Accepted' /\ serving = NoClient /\ serving' = c
  /\ ~Ending' /\ Given(c)' = Given(c) /\ Told(c)' = Told(c) \o AckMsg

Replied(c) ==
  /\ Running' /\ c = serving /\ serving' = serving /\ Alike(c)
  /\ ~Ending /\ Given(c) < Len(lines[c]) /\ Given(c)' = Given(c) + 1 /\ store' = store
  /\ LET r   == Meaning(lines[c][Given(c) + 1])
         msg == IF Lost THEN ErrMsg ELSE Reply(r, store)
     IN  r.op # "quit" /\ Told(c)' = Told(c) \o msg /\ (Ending' <=> msg = ErrMsg)

Quits(c) ==
  /\ c = serving /\ Given(c) < Len(lines[c])
  /\ Meaning(lines[c][Given(c) + 1]).op = "quit"

Hung(c) ==
  /\ Running' /\ c = serving /\ Ending /\ serving' = NoClient
  /\ Spared(c) /\ Alike(c)

Sees(c) == Same(c) \/ Greeted(c) \/ Replied(c) \/ Quits(c) \/ Hung(c)

LEMMA KeptOf ==
  ASSUME NEW c \in Clients, c \notin spoilt
  PROVE  /\ Answers[c] = Told(c) /\ Answered[c] = Given(c)
         /\ Asked[c] = [k \in DOMAIN lines[c] |-> Meaning(lines[c][k])]
BY DEF Answers, Answered, Asked, Told, Given, Kept

LEMMA KeptOfNext ==
  ASSUME NEW c \in Clients, c \notin spoilt'
  PROVE  Answers'[c] = Told(c)' /\ Answered'[c] = Given(c)'
BY DEF Answers, Answered, Told, Given, Kept

LEMMA SparedIf ==
  ASSUME NEW c \in Clients, c \notin spoilt, c \notin spoilt',
         Answers'[c] = Answers[c], Answered'[c] = Answered[c]
  PROVE  Spared(c)
BY KeptOf, KeptOfNext DEF Spared

LEMMA SameIf ==
  ASSUME NEW c \in Clients, Spared(c), Accepted' = Accepted, serving' = serving,
         Ending' <=> Ending
  PROVE  Same(c)
BY DEF Same, Alike

LEMMA SeesAccept ==
  ASSUME NEW d \in Clients, Service!Accept(d), Base, NEW c \in Clients, c \notin spoilt,
         c \notin spoilt'
  PROVE  Sees(c)
<1>1. /\ Running /\ serving = NoClient /\ d \notin Accepted
      /\ Accepted' = Accepted \cup {d} /\ serving' = d /\ Running' = Running
      /\ Ending' = Ending /\ Answered' = Answered
  BY DEF Service!Accept, Service!files, Accepted, Ending, Left, Asked, Answered, Lost
<1>2. Answers' = IF d \in spoilt THEN Answers ELSE [Answers EXCEPT ![d] = @ \o AckMsg]
  BY SameMessages DEF Service!Accept, Service!Say, Answers
<1>3. ~Ending
  BY <1>1 DEF Base, ServerOk, Ending
<1>4. CASE c = d
  <2>1. Answers'[c] = Answers[c] \o AckMsg /\ Answered'[c] = Answered[c]
    BY <1>1, <1>2, <1>4 DEF Answers
  <2>2. Told(c)' = Told(c) \o AckMsg /\ Given(c)' = Given(c)
    BY <2>1, KeptOf, KeptOfNext
  <2>3. Greeted(c)
    BY <1>1, <1>3, <1>4, <2>2 DEF Greeted
  <2> QED
    BY <2>3 DEF Sees
<1>5. CASE c # d
  <2>1. Answers'[c] = Answers[c] /\ Answered'[c] = Answered[c]
    BY <1>1, <1>2, <1>5 DEF Answers
  <2>2. Spared(c)
    BY <2>1, SparedIf
  <2>3. c # serving
    BY <1>1, ServerAssumption
  <2>4. Same(c)
    BY <1>1, <1>5, <2>2, <2>3 DEF Same, Alike
  <2> QED
    BY <2>4 DEF Sees
<1> QED
  BY <1>4, <1>5

(* An excused client is another one.                                       *)
LEMMA ExcusedOther ==
  ASSUME NEW d, Service!Excuse(d), NEW c \in Clients, c \notin spoilt, c \notin spoilt'
  PROVE  c # d /\ Spared(c)
<1>1. /\ spoilt' = spoilt \cup {d} /\ Answered' = [Answered EXCEPT ![d] = 0]
      /\ Answers' = [Answers EXCEPT ![d] = <<>>]
  BY DEF Service!Excuse, Answered, Answers
<1>2. c # d
  BY <1>1
<1>3. Answers'[c] = Answers[c] /\ Answered'[c] = Answered[c]
  BY <1>1, <1>2 DEF Answers, Answered
<1> QED
  BY <1>2, <1>3, SparedIf

LEMMA SeesRefuse ==
  ASSUME NEW d \in Clients, Service!Refuse(d), NEW c \in Clients, c \notin spoilt,
         c \notin spoilt'
  PROVE  Sees(c)
<1>1. /\ serving' = serving /\ Accepted' = Accepted \cup {d} /\ Ending' = Ending
      /\ Service!Excuse(d)
  BY DEF Service!Refuse, Service!files, Accepted, Ending
<1>2. c # d /\ Spared(c)
  BY <1>1, ExcusedOther
<1> QED
  BY <1>1, <1>2 DEF Sees, Same, Alike

LEMMA SeesAsk ==
  ASSUME NEW d \in Clients, NEW r, Service!Ask(d, r), NEW c \in Clients, c \notin spoilt,
         c \notin spoilt'
  PROVE  Sees(c)
<1>1. /\ serving' = serving /\ Accepted' = Accepted /\ Ending' = Ending
      /\ Answers' = Answers /\ Answered' = Answered
  BY DEF Service!Ask, Service!files, Accepted, Ending, Answers, Answered
<1>2. Spared(c)
  BY <1>1, SparedIf
<1> QED
  BY <1>1, <1>2, SameIf DEF Sees

LEMMA SeesMisserve ==
  ASSUME NEW d \in Clients, Service!Misserve(d), NEW c \in Clients, c \notin spoilt,
         c \notin spoilt'
  PROVE  Sees(c)
<1>1. /\ serving' = serving /\ Accepted' = Accepted /\ serving \in spoilt
      /\ Answers' = Answers /\ Answered' = Answered
  BY DEF Service!Misserve, Service!clients, Service!requests, Accepted, Answers, Answered
<1>2. Spared(c)
  BY <1>1, SparedIf
<1> QED
  BY <1>1, <1>2 DEF Sees, Same, Alike

LEMMA SeesClose ==
  ASSUME NEW d \in Clients, Service!Close(d), NEW c \in Clients, c \notin spoilt,
         c \notin spoilt', c \notin Left
  PROVE  Sees(c)
<1>1. /\ Running' = Running /\ Running /\ d = serving /\ serving' = NoClient
      /\ Ending \/ d \in Left \cup spoilt
      /\ ~Ending' /\ Accepted' = Accepted /\ Answers' = Answers /\ Answered' = Answered
  BY DEF Service!Close, Service!clients, Service!requests, Accepted, Answers, Answered,
         Ending, Left
<1>2. Spared(c)
  BY <1>1, SparedIf
<1>3. CASE c = serving
  <2>1. Hung(c)
    BY <1>1, <1>2, <1>3 DEF Hung, Alike
  <2> QED
    BY <2>1 DEF Sees
<1>4. CASE c # serving
  <2>1. c # serving'
    BY <1>1, ServerAssumption
  <2>2. Same(c)
    BY <1>1, <1>2, <1>4, <2>1 DEF Same, Alike
  <2> QED
    BY <2>2 DEF Sees
<1> QED
  BY <1>3, <1>4

LEMMA SeesLeave ==
  ASSUME NEW d \in Clients, Service!Leave(d), NEW c \in Clients, c \notin spoilt,
         c \notin spoilt'
  PROVE  Sees(c)
<1>1. /\ serving' = serving /\ Accepted' = Accepted /\ Ending' = Ending
      /\ (Answers' = Answers /\ Answered' = Answered) \/ Service!Excuse(d)
  BY DEF Service!Leave, Service!files, Service!requests, Accepted, Ending, Answers, Answered
<1>2. Spared(c)
  BY <1>1, SparedIf, ExcusedOther
<1> QED
  BY <1>1, <1>2, SameIf DEF Sees

LEMMA SeesOffend ==
  ASSUME NEW d \in Clients, Service!Offend(d), NEW c \in Clients, c \notin spoilt,
         c \notin spoilt'
  PROVE  Sees(c)
<1>1. /\ serving' = serving /\ Accepted' = Accepted /\ Ending' = Ending
      /\ Service!Excuse(d)
  BY DEF Service!Offend, Service!files, Accepted, Ending
<1>2. Spared(c)
  BY <1>1, ExcusedOther
<1> QED
  BY <1>1, <1>2, SameIf DEF Sees

LEMMA SeesEdit ==
  ASSUME Service!Edit, NEW c \in Clients, c \notin spoilt, c \notin spoilt'
  PROVE  Sees(c)
<1>1. /\ serving' = serving /\ Accepted' = Accepted /\ Ending' = Ending
      /\ (Answers' = Answers /\ Answered' = Answered) \/ Service!Excuse(serving)
  BY DEF Service!Edit, Service!requests, Accepted, Ending, Answers, Answered
<1>2. Spared(c)
  <2>1. CASE Answers' = Answers /\ Answered' = Answered
    BY <2>1, SparedIf
  <2>2. CASE Service!Excuse(serving)
    <3>1. PICK d : d = serving
      OBVIOUS
    <3>2. Service!Excuse(d)
      BY <2>2, <3>1 DEF Service!Excuse
    <3> QED
      BY <3>2, ExcusedOther
  <2> QED
    BY <1>1, <2>1, <2>2
<1> QED
  BY <1>1, <1>2, SameIf DEF Sees

LEMMA SeesDie ==
  ASSUME Service!Die, NEW c \in Clients, c \notin spoilt, c \notin spoilt'
  PROVE  Sees(c)
<1>1. /\ serving' = NoClient /\ Accepted' = Accepted /\ serving \in spoilt
      /\ Answers' = Answers /\ Answered' = Answered
  BY DEF Service!Die, Service!clients, Service!requests, Accepted, Answers, Answered
<1>2. Spared(c)
  BY <1>1, SparedIf
<1>3. c # serving /\ c # serving'
  BY <1>1, ServerAssumption
<1> QED
  BY <1>1, <1>2, <1>3 DEF Sees, Same, Alike

LEMMA SeesAnswer ==
  ASSUME NEW d \in Clients, Service!Answer(d), Base, NEW c \in Clients, c \notin spoilt,
         c \notin spoilt', Given(c) \in Nat
  PROVE  Sees(c)
<1> DEFINE r   == Asked[d][Answered[d] + 1]
           msg == IF Lost THEN ErrMsg ELSE Reply(r, store)
<1>1. /\ Running /\ Running' = Running /\ d = serving /\ ~Ending /\ d \notin spoilt
      /\ Answered[d] < Len(Asked[d]) /\ Answered' = [Answered EXCEPT ![d] = @ + 1]
      /\ Accepted' = Accepted /\ store' = store
  BY DEF Service!Answer, Accepted, Ending, Asked, Answered
<1>2. msg = IF Lost THEN Service!ErrMsg ELSE Service!Reply(r, store)
  BY SameMessages, SameReply
<1>3. \/ /\ r.op = "quit" /\ serving' = NoClient /\ Answers' = Answers
      \/ /\ r.op # "quit" /\ serving' = serving /\ Answers' = [Answers EXCEPT ![d] = @ \o msg]
         /\ Ending' <=> msg = ErrMsg
  BY <1>2, SameMessages DEF Service!Answer, Ending, Lost, Asked, Answered, Answers
<1> HIDE DEF msg
<1>4. CASE c = d
  <2>1. Answered[c] = Given(c)
    BY KeptOf
  <2>2. /\ Len(Asked[c]) = Len(lines[c]) /\ Len(lines[c]) \in Nat
        /\ \A k \in 1 .. Len(lines[c]) : Asked[c][k] = Meaning(lines[c][k])
    BY AskedIs DEF Base
  <2>3. Given(c) < Len(lines[c]) /\ Given(c) + 1 \in 1 .. Len(lines[c])
    BY <1>1, <1>4, <2>1, <2>2
  <2>4. r = Meaning(lines[c][Given(c) + 1])
    BY <1>4, <2>1, <2>2, <2>3
  <2> HIDE DEF r
  <2>5. CASE r.op = "quit"
    <3>1. Quits(c)
      BY <1>1, <1>4, <2>3, <2>4, <2>5 DEF Quits
    <3> QED
      BY <3>1 DEF Sees
  <2>6. CASE r.op # "quit"
    <3>1. /\ serving' = serving /\ Answers' = [Answers EXCEPT ![d] = @ \o msg]
          /\ Ending' <=> msg = ErrMsg
      BY <1>3, <2>6
    <3>2. Answers'[c] = Answers[c] \o msg /\ Answered'[c] = Answered[c] + 1
      BY <1>1, <1>4, <3>1 DEF Answers, Answered
    <3>3. Told(c)' = Told(c) \o msg /\ Given(c)' = Given(c) + 1
      BY <3>2, KeptOf, KeptOfNext
    <3>4. msg = IF Lost THEN ErrMsg ELSE Reply(Meaning(lines[c][Given(c) + 1]), store)
      BY <2>4 DEF msg
    <3>5. Meaning(lines[c][Given(c) + 1]).op # "quit"
      BY <2>4, <2>6
    <3>6. Replied(c)
      BY <1>1, <1>4, <2>3, <3>1, <3>3, <3>4, <3>5 DEF Replied, Alike
    <3> QED
      BY <3>6 DEF Sees
  <2> QED
    BY <2>5, <2>6
<1>5. CASE c # d
  <2>1. Answers'[c] = Answers[c] /\ Answered'[c] = Answered[c]
    BY <1>1, <1>3, <1>5 DEF Answers, Answered
  <2>2. Spared(c)
    BY <2>1, SparedIf
  <2>3. c # serving /\ c # serving'
    BY <1>1, <1>3, <1>5, ServerAssumption
  <2> QED
    BY <1>1, <2>2, <2>3 DEF Sees, Same, Alike
<1> QED
  BY <1>4, <1>5

LEMMA SeesStutter ==
  ASSUME UNCHANGED Service!serviceVars, NEW c \in Clients, c \notin spoilt, c \notin spoilt'
  PROVE  Sees(c)
<1>1. /\ serving' = serving /\ Accepted' = Accepted /\ Ending' = Ending
      /\ Answers' = Answers /\ Answered' = Answered
  BY DEF Service!serviceVars, Accepted, Ending, Answers, Answered
<1>2. Spared(c)
  BY <1>1, SparedIf
<1> QED
  BY <1>1, <1>2, SameIf DEF Sees

LEMMA EveryStepSeen ==
  ASSUME IInv, [Next]_vars, NEW c \in Clients, c \notin spoilt, c \notin spoilt',
         c \notin Left, Given(c) \in Nat
  PROVE  Sees(c)
<1>1. Base /\ (Service!Next \/ UNCHANGED Service!serviceVars)
  BY EveryStepServes DEF Served, IInv
<1>2. CASE UNCHANGED Service!serviceVars
  BY <1>2, SeesStutter
<1>3. CASE Service!Next
  <2>1. ASSUME NEW d \in Clients,
               \/ Service!Accept(d) \/ Service!Refuse(d) \/ Service!Answer(d)
               \/ Service!Misserve(d) \/ Service!Close(d) \/ Service!Leave(d)
               \/ Service!Offend(d) \/ \E r \in Asks : Service!Ask(d, r)
        PROVE  Sees(c)
    BY <1>1, <2>1, SeesAccept, SeesRefuse, SeesAnswer, SeesMisserve, SeesClose, SeesLeave,
       SeesOffend, SeesAsk
  <2>2. CASE Service!Edit \/ Service!Die
    BY <2>2, SeesEdit, SeesDie
  <2> QED
    BY <1>3, <2>1, <2>2 DEF Service!Next, Asks
<1> QED
  BY <1>1, <1>2, <1>3

(* The process ends at the hand of a client that is excused.               *)
LEMMA EndsSpoilt ==
  ASSUME IInv, [Next]_vars, Running, ~Running'
  PROVE  spoilt' # {}
<1>1. Service!Next \/ UNCHANGED Service!serviceVars
  BY EveryStepServes DEF Served
<1>2. CASE UNCHANGED Service!serviceVars
  BY <1>2 DEF Service!serviceVars
<1>3. CASE Service!Next
  <2>1. ASSUME NEW d \in Clients,
               \/ Service!Accept(d) \/ Service!Answer(d)
               \/ Service!Misserve(d) \/ Service!Close(d) \/ Service!Leave(d)
               \/ Service!Offend(d) \/ \E r \in Asks : Service!Ask(d, r)
        PROVE  FALSE
    <3>1. Running' = Running
      BY <2>1 DEF Service!Accept, Service!Answer, Service!Misserve, Service!Close,
                  Service!Leave, Service!Offend, Service!Ask
    <3> QED
      BY <3>1
  <2>2. ASSUME NEW d \in Clients, Service!Refuse(d) PROVE spoilt' # {}
    BY <2>2 DEF Service!Refuse, Service!Excuse
  <2>3. CASE Service!Edit
    BY <2>3 DEF Service!Edit
  <2>4. CASE Service!Die
    BY <2>4 DEF Service!Die, Service!clients
  <2> QED
    BY <1>3, <2>1, <2>2, <2>3, <2>4 DEF Service!Next, Asks
<1> QED
  BY <1>1, <1>2, <1>3

-----------------------------------------------------------------------------
(***************************************************************************)
(* The reply of a client is made once.                                     *)
(***************************************************************************)
LEMMA ToldType ==
  ASSUME Base, NEW c \in Clients
  PROVE  /\ out[c] \in Seq(Units) /\ Owed(c) \in Seq(Units) /\ Told(c) \in Seq(Units)
         /\ IsPrefix(out[c], Told(c))
<1>1. out[c] \in Seq(Units) /\ job.todo \in Seq(Messages)
  BY DEF Base, ServerOk, JobOk, Jobs
<1>2. Owed(c) \in Seq(Units)
  <2>1. CASE c = serving
    BY <1>1, <2>1, OwedServing, OwesType
  <2>2. CASE c # serving
    BY <2>2, EmptySeq DEF Owed
  <2> QED
    BY <2>1, <2>2
<1>3. out[c] \o Owed(c) \in Seq(Units) /\ IsPrefix(out[c], out[c] \o Owed(c))
  BY <1>1, <1>2, PrefixOfConcat, ConcatProperties
<1> QED
  BY <1>1, <1>2, <1>3 DEF Told

LEMMA UnreadNone ==
  ASSUME NEW c, in[c] = <<>>
  PROVE  Unread(c) = 0
<1>1. Positions(in[c], "LF") = {}
  BY DEF Positions
<1>2. Cardinality({}) = 0
  BY FS_EmptySet, Zenon
<1> QED
  BY <1>1, <1>2 DEF Unread

LEMMA NotAccepted ==
  ASSUME Base, Running, NEW c \in Clients, c \notin Accepted
  PROVE  /\ Quiet(c) /\ Given(c) = 0 /\ Told(c) = <<>> /\ c # serving /\ c \notin closed
         /\ out[c] = <<>> /\ lines[c] = <<>>
<1>1. Quiet(c)
  BY DEF Base, Connected, Accepted, PeersOk
<1>2. /\ in[c] = <<>> /\ out[c] = <<>> /\ lines[c] = <<>> /\ c \notin closed /\ c # serving
  BY <1>1 DEF Quiet
<1>3. Owed(c) = <<>>
  BY <1>2 DEF Owed
<1>4. Told(c) = <<>>
  BY <1>2, <1>3 DEF Told
<1>5. Len(lines[c]) = 0 /\ Unread(c) = 0 /\ ~Answering(c)
  BY <1>2, UnreadNone DEF Answering
<1>6. Given(c) = Len(lines[c]) - Unread(c) - 0
  BY <1>5 DEF Given
<1>7. Given(c) = 0
  BY <1>5, <1>6
<1> QED
  BY <1>1, <1>2, <1>4, <1>7

LEMMA RepliesType ==
  ASSUME NEW L \in SUBSET Seq(Items), NEW R \in Replies(L)
  PROVE  R \in Seq(Units)
BY ListReplyUnits, AckUnits, EmptySeq DEF Replies

LEMMA ListMeaning ==
  ASSUME NEW c \in Clients, NEW line \in Lines[c]
  PROVE  /\ line \in Seq(Symbols) /\ line[1] = "LIST"
         /\ Meaning(line) = Request("list", NameFrom(line, 3), 0, 0)
<1>1. line \in Seq(Symbols) /\ IsPrefix(<<"LIST", "SP">>, line)
  BY ServerAssumption, ListAssumption
<1>2. line[1] = "LIST"
  <2> DEFINE s == <<"LIST", "SP">>
  <2>1. s \in Seq({"LIST", "SP"}) /\ Len(s) = 2 /\ s[1] = "LIST"
    OBVIOUS
  <2>2. Len(line) \in Nat
    BY <1>1, LenProperties
  <2>3. IsPrefix(s, line)
    BY <1>1
  <2> HIDE DEF s
  <2>4. Len(line) >= 2 /\ SubSeq(line, 1, 2) = s
    <3>1. SubSeq(s, 1, 2) = s
      BY <2>1, SubSeqFull
    <3> QED
      BY <2>1, <2>2, <2>3, <3>1 DEF IsPrefix
  <2>5. SubSeq(line, 1, 2)[1] = line[1]
    <3>1. \A i \in 1 .. 2 : line[i] \in Symbols
      BY <1>1, <2>2, <2>4, ElementOfSeq
    <3>2. \A i \in 1 .. 2 - 1 + 1 : SubSeq(line, 1, 2)[i] = line[1 + i - 1]
      BY <3>1, SubSeqProperties
    <3> QED
      BY <3>2
  <2> QED
    BY <2>1, <2>4, <2>5
<1>3. Meaning(line) = Request("list", NameFrom(line, 3), 0, 0)
  BY <1>2 DEF Meaning
<1> QED
  BY <1>1, <1>2, <1>3

(* What the server replies to a program, from the files there are.         *)
LEMMA ListAnswered ==
  ASSUME NEW c \in Clients, NEW line \in Lines[c], NEW msg,
         msg = IF Lost THEN ErrMsg ELSE Reply(Meaning(line), store)
  PROVE  \/ msg = ErrMsg
         \/ /\ Denoted(NameFrom(line, 3)) \in Dirs
            /\ msg = ListReply(Listing(store, Denoted(NameFrom(line, 3))))
BY ListMeaning, RepliesAre

(* The listings of a line that are true of the files st.                   *)
TrueOf(line, st) == {Listing(st, dir) : dir \in {Denoted(NameFrom(line, 3))} \cap Dirs}

LEMMA ListingType ==
  ASSUME NEW st \in Stores, NEW dir \in Dirs
  PROVE  Listing(st, dir) \in Seq(Items)
<1>1. Len(ReadDir[dir]) \in 0 .. Len(ReadDir[dir])
  BY BasesType
<1> QED
  BY <1>1, FoundDef

LEMMA StorySame ==
  ASSUME Running, Running', NEW c \in Clients, NEW R, Same(c), Story(c, R)
  PROVE  Story(c, R)'
<1>1. Transcript(c, R) /\ Standing(c, R)
  BY DEF Story
<1>2. Told(c)' = Told(c) /\ Given(c)' = Given(c) /\ Alike(c)
  BY DEF Same, Spared, Alike
<1>3. serving' = c <=> serving = c
  BY DEF Same
<1>4. Transcript(c, R)'
  BY <1>1, <1>2 DEF Transcript, Alike
<1>5. c = serving' => (Ending' <=> R = ErrMsg)
  BY <1>1, <1>3 DEF Standing, Same
<1>6. c \in Accepted' /\ c # serving' => R = ErrMsg
  BY <1>1, <1>2, <1>3 DEF Standing, Alike
<1>7. Standing(c, R)'
  BY <1>1, <1>2, <1>5, <1>6 DEF Standing
<1> QED
  BY <1>4, <1>7 DEF Story

LEMMA StoryEnds ==
  ASSUME Base, Base', Running, ~Running', NEW c \in Clients, NEW R \in Seq(Units),
         Told(c)' = Told(c), Story(c, R)
  PROVE  Story(c, R)'
<1>1. IsPrefix(out'[c], Told(c)) /\ out'[c] \in Seq(Units) /\ Told(c) \in Seq(Units)
  <2>1. out'[c] \in Seq(Units) /\ job'.todo \in Seq(Messages)
    BY DEF Base, ServerOk, JobOk, Jobs
  <2>2. Owed(c)' = <<>>
    <3>1. c # serving'
      BY ServerAssumption DEF Base, ServerOk, Running
    <3> QED
      BY <3>1 DEF Owed
  <2>3. Told(c)' = out'[c]
    BY <2>1, <2>2, ConcatEmptySeq DEF Told
  <2> QED
    BY <2>1, <2>3, PrefixUnits
<1>2. Told(c) = IF c \in Accepted THEN AckMsg \o R ELSE <<>>
  BY DEF Story, Transcript
<1>3. AckMsg \o R \in Seq(Units)
  BY AfterGreeting
<1>4. CASE c \in Accepted
  BY <1>1, <1>2, <1>4 DEF Story
<1>5. CASE c \notin Accepted
  <2>1. out'[c] = <<>>
    <3>1. Told(c) = <<>> /\ Len(<<>>) = 0
      BY <1>2, <1>5
    <3>2. Len(out'[c]) <= 0 /\ Len(out'[c]) \in Nat
      BY <1>1, <3>1, PrefixUnits
    <3> QED
      BY <1>1, <3>2
  <2>2. IsPrefix(<<>>, AckMsg \o R)
    <3> DEFINE t == AckMsg \o R
               e == <<>>
    <3>1. e \in Seq(Units) /\ Len(e) = 0 /\ t \in Seq(Units)
      BY <1>3, EmptySeq
    <3> HIDE DEF e, t
    <3>2. Len(e) <= Len(t) /\ \A i \in 1 .. Len(e) : e[i] = t[i]
      BY <3>1, LenProperties
    <3>3. IsPrefix(e, t)
      BY <3>1, <3>2, PrefixUnits
    <3> QED
      BY <3>3 DEF e, t
  <2> QED
    BY <2>1, <2>2 DEF Story
<1> QED
  BY <1>4, <1>5

LEMMA StoryGreeted ==
  ASSUME Base, Running, NEW c \in Clients, NEW R, Greeted(c), Story(c, R)
  PROVE  R = <<>> /\ Story(c, R)'
<1>1. Given(c) = 0 /\ Told(c) = <<>>
  BY NotAccepted DEF Greeted
<1>2. R = <<>>
  BY <1>1 DEF Story, Standing
<1>3. Told(c)' = AckMsg /\ AckMsg \o <<>> = AckMsg
  <2>1. Told(c)' = <<>> \o AckMsg
    BY <1>1 DEF Greeted
  <2> QED
    BY <2>1, AckUnits, ConcatEmptySeq
<1>4. /\ Running' /\ Given(c)' = 0 /\ c \in Accepted' /\ serving' = c /\ ~Ending'
  BY <1>1 DEF Greeted
<1>5. ErrMsg # <<>>
  BY UnitsType
<1>6. Transcript(c, R)'
  BY <1>2, <1>3, <1>4 DEF Transcript
<1>7. Standing(c, R)'
  BY <1>2, <1>4, <1>5 DEF Standing
<1> QED
  BY <1>2, <1>4, <1>6, <1>7 DEF Story

LEMMA StoryHung ==
  ASSUME NEW c \in Clients, NEW R, Running, Hung(c), Story(c, R)
  PROVE  Story(c, R)'
<1>1. /\ Running' /\ c = serving /\ Ending /\ serving' = NoClient /\ c # serving'
      /\ Told(c)' = Told(c) /\ Given(c)' = Given(c) /\ Alike(c)
  BY ServerAssumption DEF Hung, Spared, Alike
<1>2. Transcript(c, R) /\ Standing(c, R)
  BY DEF Story
<1>3. R = ErrMsg
  BY <1>1, <1>2 DEF Standing
<1>4. Transcript(c, R)'
  BY <1>1, <1>2 DEF Transcript, Alike
<1>5. Standing(c, R)'
  BY <1>1, <1>2, <1>3 DEF Standing
<1> QED
  BY <1>1, <1>4, <1>5 DEF Story

Requested(c, line) == lines[c] = <<>> \/ lines[c] = <<line>>

LEMMA StoryReplied ==
  ASSUME Base, Running, NEW c \in Clients, NEW R, NEW line \in Lines[c],
         Requested(c, line), Replied(c), Story(c, R)
  PROVE  /\ R = <<>> /\ lines[c] = <<line>>
         /\ \E R2 \in Replies(TrueOf(line, store)) : Story(c, R2)'
<1>1. Transcript(c, R) /\ Standing(c, R)
  BY DEF Story
<1>2. /\ Running' /\ c = serving /\ serving' = serving /\ Alike(c)
      /\ Given(c) < Len(lines[c]) /\ Given(c)' = Given(c) + 1
  BY DEF Replied, Alike
<1>3. Given(c) = 0 /\ R = <<>> /\ lines[c] = <<line>>
  <2>1. Given(c) \in {0, 1} /\ (Given(c) = 0 => R = <<>>)
    BY <1>1 DEF Standing
  <2>2. Len(<<>>) = 0 /\ Len(<<line>>) = 1
    OBVIOUS
  <2>3. lines[c] # <<>>
    BY <1>2, <2>1, <2>2
  <2>4. lines[c] = <<line>>
    BY <2>3 DEF Requested
  <2>5. Given(c) = 0
    BY <1>2, <2>1, <2>2, <2>4
  <2> QED
    BY <2>1, <2>4, <2>5
<1>4. c \in Accepted /\ c \in Accepted'
  BY <1>2, NotAccepted DEF Alike
<1>5. Told(c) = AckMsg
  <2>1. Told(c) = AckMsg \o <<>>
    BY <1>1, <1>3, <1>4 DEF Transcript
  <2> QED
    BY <2>1, AckUnits, ConcatEmptySeq
<1>14. PICK msg : msg = IF Lost THEN ErrMsg ELSE Reply(Meaning(line), store)
  OBVIOUS
<1>6. lines[c][Given(c) + 1] = line
  BY <1>3
<1>7. Told(c)' = AckMsg \o msg /\ (Ending' <=> msg = ErrMsg)
  BY <1>5, <1>6, <1>14 DEF Replied
<1>8. \/ msg = ErrMsg
      \/ /\ Denoted(NameFrom(line, 3)) \in Dirs
         /\ msg = ListReply(Listing(store, Denoted(NameFrom(line, 3))))
  BY <1>14, ListAnswered
<1>9. msg \in Replies(TrueOf(line, store))
  BY <1>8 DEF Replies, TrueOf
<1>10. msg # <<>>
  <2>1. ErrMsg # <<>>
    BY UnitsType
  <2>2. ASSUME msg # ErrMsg PROVE msg # <<>>
    <3>1. store \in Stores
      BY DEF Base, ServerOk
    <3> DEFINE items == Listing(store, Denoted(NameFrom(line, 3)))
    <3>2. items \in Seq(Items)
      BY <1>8, <2>2, <3>1, ListingType
    <3> HIDE DEF items
    <3>3. Len(ListReply(items)) = 2 * Len(items) + 3 /\ Len(items) \in Nat
      BY <3>2, ListReplyUnits
    <3>4. msg = ListReply(items)
      BY <1>8, <2>2 DEF items
    <3>5. Len(<<>>) = 0
      OBVIOUS
    <3> QED
      BY <3>3, <3>4, <3>5
  <2> QED
    BY <2>1, <2>2
<1>11. Transcript(c, msg)'
  BY <1>4, <1>7 DEF Transcript
<1>12. Standing(c, msg)'
  BY <1>2, <1>3, <1>7, <1>10 DEF Standing
<1>13. Story(c, msg)'
  BY <1>2, <1>11, <1>12 DEF Story
<1> QED
  BY <1>3, <1>9, <1>13

LEMMA RepliesGrow ==
  ASSUME NEW L, NEW M, L \subseteq M
  PROVE  Replies(L) \subseteq Replies(M)
BY DEF Replies

(* A step that the client is not spoilt by: its reply R stays, or is made, *)
(* of files it may be made of.                                             *)
LEMMA StoryStep ==
  ASSUME IInv, IInv', Running, [Next]_vars, NEW c \in Clients, c \notin spoilt,
         c \notin spoilt', c \notin Left, NEW line \in Lines[c], Requested(c, line),
         NEW L \in SUBSET Seq(Items), NEW R \in Replies(L), Story(c, R),
         NEW M \in SUBSET Seq(Items), L \subseteq M \/ R = <<>>,
         lines[c] = <<line>> => TrueOf(line, store) \subseteq M
  PROVE  \E R2 \in Replies(M) : (R2 = R \/ R = <<>>) /\ Story(c, R2)'
<1>1. Base /\ Base'
  BY DEF IInv
<1>2. R \in Replies(M)
  BY RepliesGrow DEF Replies
<1>3. Given(c) \in Nat
  BY DEF Story, Standing
<1>4. Sees(c)
  BY <1>3, EveryStepSeen
<1>5. R \in Seq(Units)
  BY RepliesType
<1>6. CASE Same(c)
  <2>1. CASE Running'
    BY <1>2, <1>6, <2>1, StorySame
  <2>2. CASE ~Running'
    <3>1. Told(c)' = Told(c)
      BY <1>6 DEF Same, Spared
    <3> QED
      BY <1>1, <1>2, <1>5, <2>2, <3>1, StoryEnds
  <2> QED
    BY <2>1, <2>2
<1>7. CASE Greeted(c)
  BY <1>1, <1>2, <1>7, StoryGreeted
<1>8. CASE Hung(c)
  BY <1>2, <1>8, StoryHung
<1>9. CASE Replied(c)
  <2>1. /\ R = <<>> /\ lines[c] = <<line>>
        /\ \E R2 \in Replies(TrueOf(line, store)) : Story(c, R2)'
    BY <1>1, <1>9, StoryReplied
  <2>2. Replies(TrueOf(line, store)) \subseteq Replies(M)
    BY <2>1, RepliesGrow
  <2> QED
    BY <2>1, <2>2
<1>10. CASE Quits(c)
  <2>1. Given(c) < Len(lines[c]) /\ Meaning(lines[c][Given(c) + 1]).op = "quit"
    BY <1>10 DEF Quits
  <2>2. lines[c] = <<line>> /\ Given(c) = 0
    <3>1. Len(<<>>) = 0 /\ Len(<<line>>) = 1
      OBVIOUS
    <3> QED
      BY <1>3, <2>1, <3>1 DEF Requested
  <2>3. lines[c][Given(c) + 1] = line
    BY <2>2
  <2>4. Meaning(line).op = "list"
    BY ListMeaning, RepliesAre
  <2> QED
    BY <2>1, <2>3, <2>4
<1> QED
  BY <1>4, <1>6, <1>7, <1>8, <1>9, <1>10 DEF Sees

-----------------------------------------------------------------------------
(***************************************************************************)
(* How a step of the server leaves its control.                            *)
(***************************************************************************)
Longer(c) == Len(out'[c]) >= Len(out[c])

LEMMA EmitLonger ==
  ASSUME Base, NEW m \in Seq(Units), Emit(m), serving \in Clients, NEW c \in Clients
  PROVE  Longer(c)
<1>1. out[c] \in Seq(Units) /\ Len(out[c]) \in Nat /\ Len(m) \in Nat
  BY LenProperties DEF Base, ServerOk
<1>2. CASE c = serving
  <2>1. out'[c] = out[c] \o m
    BY <1>2 DEF Emit, Base, ServerOk
  <2>2. Len(out[c] \o m) = Len(out[c]) + Len(m)
    BY <1>1, ConcatProperties
  <2> QED
    BY <1>1, <2>1, <2>2 DEF Longer
<1>3. CASE c # serving
  <2>1. out'[c] = out[c]
    BY <1>3 DEF Emit, Base, ServerOk
  <2> QED
    BY <1>1, <2>1 DEF Longer
<1> QED
  BY <1>2, <1>3

LEMMA SameLonger ==
  ASSUME Base, NEW c \in Clients, out'[c] = out[c]
  PROVE  Longer(c)
<1>1. Len(out[c]) \in Nat
  BY LenProperties DEF Base, ServerOk
<1> QED
  BY <1>1 DEF Longer

LEMMA ThreadLonger ==
  ASSUME Base, Thread, NEW c \in Clients
  PROVE  Longer(c)
<1>1. serving \in Clients /\ pc \in Busy
  BY ThreadMoves, BusyServes
<1>2. CASE Transmit
  <2>1. JobOk(job, "send")
    BY <1>2 DEF Transmit, Base
  <2>2. PICK m \in Seq(Units) : Emit(m)
    BY <1>2, <2>1, HeadOk DEF Transmit
  <2> QED
    BY <1>1, <2>2, EmitLonger
<1>3. CASE TransmitPart
  BY <1>1, <1>3, TransmitPartCases, EmitLonger
<1>4. CASE ~(Transmit \/ TransmitPart)
  <2>1. out' = out
    BY <1>4 DEF Thread, Read, Execute, Md5, ListEntry, ListMd5, ListDone,
                TransmitInVain
  <2> QED
    BY <2>1, SameLonger
<1> QED
  BY <1>2, <1>3, <1>4

LEMMA ServerForward ==
  ASSUME Base, Server
  PROVE  /\ link' = link /\ lines' = lines /\ store' = store
         /\ Running /\ closed \subseteq closed'
         /\ \A c \in Clients : Longer(c)
<1>1. store' = store
  BY DEF Server, disk
<1>2. closed \subseteq Clients
  BY DEF Base, ServerOk
<1>3. CASE Accept
  <2>1. link' = link /\ lines' = lines /\ out' = out /\ closed' = closed /\ Running
    BY <1>3 DEF Accept, Running
  <2> QED
    BY <1>1, <2>1, SameLonger
<1>4. CASE AcceptFails
  <2>1. link' = link /\ lines' = lines /\ out' = out /\ closed \subseteq closed' /\ Running
    BY <1>2, <1>4 DEF AcceptFails, Crash, Running
  <2> QED
    BY <1>1, <2>1, SameLonger
<1>5. CASE Thread
  <2>1. link' = link /\ lines' = lines /\ pc \in Busy /\ Moves
    BY <1>5, ThreadMoves
  <2>2. closed \subseteq closed' /\ Running
    BY <2>1, MovesParts, BusyServes
  <2> QED
    BY <1>1, <1>5, <2>1, <2>2, ThreadLonger
<1> QED
  BY <1>3, <1>4, <1>5 DEF Server, Thread

(* Only trouble spoils, and a file that the server cannot open.            *)
Balks ==
  \/ pc = "exec" /\ Is("SIZE", 1)
  \/ pc = "list" /\ job.names # <<>> /\ NextName \in Unreadable

LEMMA ServerTroubles ==
  ASSUME Server, troubles \in Nat
  PROVE  \/ troubles' = troubles /\ (spoilt' = spoilt \/ Balks)
         \/ troubles' = troubles + 1
<1>1. CASE Execute
  <2>1. pc = "exec" /\ troubles' = troubles /\ (pc' = "md5" \/ spoilt' = spoilt)
    BY <1>1 DEF Execute
  <2>2. pc' = "md5" => Is("SIZE", 1)
    BY <1>1 DEF Execute, Size, Get, List, Unset, Unknown, EndThread, Crash, Stay, Sending, Fail
  <2> QED
    BY <2>1, <2>2 DEF Balks
<1>2. CASE ListEntry
  <2>1. pc = "list" /\ job.names # <<>> /\ troubles' = troubles
    BY <1>2 DEF ListEntry
  <2>2. NextName \in Unreadable \/ spoilt' = spoilt
    BY <1>2 DEF ListEntry, Excuses
  <2> QED
    BY <2>1, <2>2 DEF Balks
<1>3. CASE ~(Execute \/ ListEntry)
  BY <1>3 DEF Server, Accept, AcceptFails, Read, Md5, ListMd5, ListDone, Transmit,
              TransmitPart, TransmitInVain, Trouble
<1> QED
  BY <1>1, <1>2, <1>3

-----------------------------------------------------------------------------
LEMMA EndsMeans ==
  ASSUME Base, Thread, ~Running'
  PROVE  closed' = Clients
<1>1. Moves
  BY ThreadMoves
<1> QED
  BY <1>1 DEF Moves, EndThread, Crash, Running, Busy

LEMMA ThreadServed ==
  ASSUME Base, Thread, Running', \A c \in Accepted : c = serving \/ c \in closed
  PROVE  \A c \in Accepted' : c = serving' \/ c \in closed'
<1>1. Moves /\ link' = link /\ backlog' = backlog
  BY ThreadMoves
<1>2. Accepted' = Accepted
  BY <1>1 DEF Accepted
<1> QED
  BY <1>1, <1>2 DEF Moves, EndThread, Crash, Running, Remains

(* A thread that has sent the greeting sends nothing more to who has not   *)
(* asked.                                                                  *)
LEMMA ThreadGreets ==
  ASSUME IInv, Thread, Greeting
  PROVE  Greeting'
<1> SUFFICES ASSUME serving' \in Clients \ spoilt', link'[serving'] = "up", pc' = "send",
                    lines'[serving'] = <<>>
             PROVE  FALSE
  BY DEF Greeting
<1>1. Base /\ pc \in Busy /\ Moves /\ link' = link /\ lines' = lines
  BY ThreadMoves DEF IInv
<1>2. serving' = serving /\ serving \in Clients /\ Running
  BY <1>1, BusyServes DEF Moves, EndThread, Crash, Remains
<1>3. spoilt \subseteq spoilt'
  BY DEF Thread, Read, Execute, Md5, ListEntry, ListMd5, ListDone, Transmit, TransmitPart,
         TransmitInVain, Excuses
<1>4. serving \in Clients \ spoilt /\ link[serving] = "up" /\ lines[serving] = <<>>
  BY <1>1, <1>2, <1>3
<1>5. Understood(serving) /\ Understanding
  BY <1>2, <1>4 DEF IInv, Understands
<1>6. NumRead(serving) = 0
  <2>1. Len(lines[serving]) = 0 /\ NumRead(serving) \in 0 .. Len(lines[serving])
    BY <1>4, <1>5 DEF Understood
  <2> QED
    BY <2>1
<1>7. CASE pc \in {"exec", "md5", "list"}
  BY <1>5, <1>6, <1>7 DEF Understanding
<1>8. CASE Read
  <2>1. in[serving] = <<>>
    <3>1. SubSeq(lines[serving], NumRead(serving) + 1, Len(lines[serving])) = <<>>
      <4>1. Len(lines[serving]) = 0
        BY <1>4
      <4> QED
        BY <1>6, <4>1, SubSeqEmpty
    <3> QED
      BY <1>5, <3>1, SentEmpty DEF Understood
  <2>2. readline(in[serving], link[serving] = "gone") = {}
    <3>1. ~(link[serving] = "gone")
      BY <1>4
    <3> QED
      BY <2>1, <3>1, ReadsNothing
  <2> QED
    BY <1>8, <2>2 DEF Read
<1>9. CASE Transmit
  <2>1. job.todo = <<Message(AckMsg)>> /\ JobOk(job, "send")
    BY <1>1, <1>4, <1>9 DEF Greeting, Transmit, Base
  <2>2. Tail(job.todo) = <<>>
    BY <2>1
  <2>3. pc' # "send"
    BY <1>9, <2>1, <2>2, SendNextCases DEF Transmit, EndThread, Crash
  <2> QED
    BY <2>3
<1>10. CASE TransmitPart \/ TransmitInVain
  BY <1>2, <1>4, <1>10 DEF TransmitPart, TransmitInVain
<1> QED
  BY <1>7, <1>8, <1>9, <1>10 DEF Thread, Execute, Md5, ListEntry, ListMd5, ListDone

LEMMA AttendedServer ==
  ASSUME IInv, IInv', Attended, Server
  PROVE  Attended'
<1>1. Base /\ Base'
  BY DEF IInv
<1>2. CASE Thread
  <2>1. Running
    BY <1>1, <1>2, ThreadMoves, BusyServes
  <2> QED
    BY <1>1, <1>2, <2>1, EndsMeans, ThreadServed, ThreadGreets DEF Attended
<1>3. CASE Accept
  <2>1. /\ pc = "accept" /\ pc' = "send" /\ link' = link /\ closed' = closed
        /\ job' = [Idle EXCEPT !.todo = <<Message(AckMsg)>>]
    BY <1>3 DEF Accept
  <2>2. Running /\ Running' /\ serving = NoClient
    BY <1>1, <2>1 DEF Running, Base, ServerOk
  <2>3. ToSet(backlog) = ToSet(backlog') \cup {serving'}
    BY <1>1, <1>3, AcceptCases
  <2>4. ASSUME NEW c \in Accepted' PROVE c = serving' \/ c \in closed'
    <3>1. CASE c = serving'
      BY <3>1
    <3>2. CASE c # serving'
      <4>1. c \in Accepted /\ c \in Clients
        BY <2>1, <2>3, <3>2 DEF Accepted
      <4> QED
        BY <2>1, <2>2, <4>1, ServerAssumption DEF Attended
    <3> QED
      BY <3>1, <3>2
  <2>5. job'.todo = <<Message(AckMsg)>>
    BY <2>1 DEF Idle
  <2> QED
    BY <2>2, <2>4, <2>5 DEF Attended, Greeting
<1>4. CASE AcceptFails
  <2>1. /\ pc = "accept" /\ backlog # <<>> /\ backlog' = Tail(backlog) /\ link' = link
        /\ \/ closed' = closed \cup {Head(backlog)} /\ pc' = pc /\ serving' = serving
           \/ Crash
    BY <1>4 DEF AcceptFails
  <2>2. Running /\ serving = NoClient /\ backlog \in Seq(Clients)
    BY <1>1, <2>1 DEF Running, Base, ServerOk, PeersOk
  <2>3. CASE Crash
    <3>1. closed' = Clients /\ ~Running' /\ serving' = NoClient
      BY <2>3 DEF Crash, Running
    <3> QED
      BY <3>1, ServerAssumption DEF Attended, Greeting
  <2>4. CASE closed' = closed \cup {Head(backlog)} /\ pc' = pc /\ serving' = serving
    <3>1. ASSUME NEW c \in Accepted' PROVE c \in closed'
      <4>1. CASE c = Head(backlog)
        BY <2>4, <4>1
      <4>2. CASE c # Head(backlog)
        <5>1. ToSet(backlog) = ToSet(backlog') \cup {Head(backlog)}
          BY <1>1, <2>1, <2>2, SetTail DEF Base, Connected
        <5>2. c \in Accepted /\ c \in Clients
          BY <2>1, <4>2, <5>1 DEF Accepted
        <5> QED
          BY <2>2, <2>4, <5>2, ServerAssumption DEF Attended
      <4> QED
        BY <4>1, <4>2
    <3>2. Running' /\ serving' = NoClient
      BY <2>1, <2>2, <2>4 DEF Running
    <3> QED
      BY <3>1, <3>2, ServerAssumption DEF Attended, Greeting
  <2> QED
    BY <2>1, <2>3, <2>4
<1> QED
  BY <1>2, <1>3, <1>4 DEF Server, Thread

(* The steps of the others.                                                *)
LEMMA AttendedStays ==
  ASSUME Base, Attended, UNCHANGED <<closed, server>>, spoilt \subseteq spoilt',
         Running => Accepted' \subseteq Accepted,
         \A c \in Clients : link'[c] = "up" => link[c] = "up" \/ c # serving,
         \A c \in Clients : lines'[c] = <<>> => lines[c] = <<>>
  PROVE  Attended'
<1>1. closed' = closed /\ pc' = pc /\ serving' = serving /\ job' = job
  BY DEF server
<1>2. Running' <=> Running
  BY <1>1 DEF Running
<1>3. Running' => \A c \in Accepted' : c = serving' \/ c \in closed'
  BY <1>1, <1>2 DEF Attended
<1>4. Greeting'
  BY <1>1 DEF Attended, Greeting
<1> QED
  BY <1>1, <1>2, <1>3, <1>4 DEF Attended

(* The server is stopped.                                                  *)
LEMMA StoppedKeeps ==
  ASSUME Base, Attended, Stopped
  PROVE  /\ Base' /\ ~Running' /\ Attended' /\ Running
         /\ link' = link /\ lines' = lines /\ out' = out /\ store' = store /\ spoilt' = spoilt
         /\ closed' = Clients /\ troubles' = troubles + 1
<1>1. /\ link' = link /\ lines' = lines /\ in' = in /\ backlog' = backlog /\ out' = out
      /\ moved' = moved /\ home' = home /\ store' = store /\ spoilt' = spoilt
      /\ closed' = Clients /\ pc' = "dead" /\ serving' = NoClient /\ job' = Idle
      /\ troubles' = troubles + 1 /\ Running
  BY DEF Stopped, Trouble, Crash, peers, disk
<1>2. ~Running'
  BY <1>1 DEF Running
<1>3. PeersOk' /\ ServerOk'
  BY <1>1 DEF Base, PeersOk, ServerOk, Labels
<1>4. JobOk(job', pc')
  BY <1>1, IdleOk DEF Labels
<1>5. Base'
  BY <1>2, <1>3, <1>4 DEF Base
<1>6. Attended'
  BY <1>1, <1>2, ServerAssumption DEF Attended, Greeting
<1> QED
  BY <1>1, <1>2, <1>5, <1>6

-----------------------------------------------------------------------------
(***************************************************************************)
(* A program, as it reads.                                                 *)
(***************************************************************************)
LEMMA ReadsOn ==
  ASSUME NEW p, NEW L \in SUBSET Seq(Items), NEW M \in SUBSET Seq(Items), L \subseteq M,
         NEW R, NEW R2, R2 = R \/ R = <<>>, Reads(p, L, R)
  PROVE  Reads(p, M, R2)
<1>1. ASSUME NEW items \in L, R = ListReply(items) PROVE R2 = R
  <2>1. Len(ListReply(items)) = 2 * Len(items) + 3 /\ Len(items) \in Nat
    BY ListReplyUnits
  <2>2. R # <<>>
    BY <1>1, <2>1
  <2> QED
    BY <2>2
<1>2. ASSUME Reading(p, L, R) PROVE Reading(p, M, R2)
  <2>1. ASSUME AtStatus(p, R) PROVE AtStatus(p, R2)
    BY <2>1 DEF AtStatus
  <2>2. ASSUME NEW items \in L, R = ListReply(items), InItems(p, items)
        PROVE  items \in M /\ R2 = ListReply(items)
    BY <1>1, <2>2
  <2> QED
    BY <1>2, <2>1, <2>2 DEF Reading
<1>3. ASSUME HasRead(p, L, R) PROVE HasRead(p, M, R2)
  <2>1. ASSUME p.ended = "end" PROVE R2 = R /\ p.head \in L
    BY <1>1, <1>3, <2>1 DEF HasRead
  <2>2. ASSUME Begun(p.head, L) PROVE Begun(p.head, M)
    BY <2>2 DEF Begun
  <2> QED
    BY <1>3, <2>1, <2>2 DEF HasRead
<1> QED
  BY <1>2, <1>3 DEF Reads

(* One more of the items.                                                  *)
LEMMA OneMoreItem ==
  ASSUME NEW items \in Seq(Items), NEW k \in 0 .. Len(items) - 1
  PROVE  Append(SubSeq(items, 1, k), items[k + 1]) = SubSeq(items, 1, k + 1)
<1> DEFINE n == Len(items)
           a == SubSeq(items, 1, k)
           b == SubSeq(items, 1, k + 1)
           x == items[k + 1]
           d == Append(a, x)
<1>1. n \in Nat /\ k \in Nat /\ k + 1 \in 1 .. n
  BY LenProperties
<1>2. \A i \in 1 .. n : items[i] \in Items
  BY ElementOfSeq
<1>3. x \in Items
  BY <1>1, <1>2
<1>4. a \in Seq(Items) /\ Len(a) = k /\ \A i \in 1 .. k : a[i] = items[i]
  <2>1. \A i \in 1 .. k : items[i] \in Items
    BY <1>1, <1>2
  <2>2. /\ a \in Seq(Items) /\ Len(a) = IF 1 <= k THEN k - 1 + 1 ELSE 0
        /\ \A i \in 1 .. k - 1 + 1 : a[i] = items[1 + i - 1]
    BY <1>1, <2>1, SubSeqProperties
  <2> HIDE DEF a
  <2> QED
    BY <1>1, <2>2
<1>5. b \in Seq(Items) /\ Len(b) = k + 1 /\ \A i \in 1 .. k + 1 : b[i] = items[i]
  <2>1. \A i \in 1 .. k + 1 : items[i] \in Items
    BY <1>1, <1>2
  <2>2. /\ b \in Seq(Items) /\ Len(b) = IF 1 <= k + 1 THEN (k + 1) - 1 + 1 ELSE 0
        /\ \A i \in 1 .. (k + 1) - 1 + 1 : b[i] = items[1 + i - 1]
    BY <1>1, <2>1, SubSeqProperties
  <2> HIDE DEF b
  <2> QED
    BY <1>1, <2>2
<1> HIDE DEF a, b
<1>6. /\ d \in Seq(Items) /\ Len(d) = k + 1 /\ d[k + 1] = x
      /\ \A i \in 1 .. k : d[i] = a[i]
  BY <1>1, <1>3, <1>4, AppendProperties
<1> HIDE DEF d
<1>7. \A i \in 1 .. k + 1 : d[i] = b[i]
  <2> TAKE i \in 1 .. k + 1
  <2>1. CASE i = k + 1
    BY <1>5, <1>6, <2>1
  <2>2. CASE i # k + 1
    <3>1. i \in 1 .. k
      BY <1>1, <2>2
    <3> QED
      BY <1>4, <1>5, <1>6, <3>1
  <2> QED
    BY <2>1, <2>2
<1>8. d = b
  BY <1>5, <1>6, <1>7, SeqEqual
<1> QED
  BY <1>8 DEF d, a, b

(* Of the list before it.                                                  *)
LEMMA ItemsBegun ==
  ASSUME NEW items \in Seq(Items), NEW k \in 0 .. Len(items)
  PROVE  IsPrefix(SubSeq(items, 1, k), items)
<1> DEFINE a == SubSeq(items, 1, k)
<1>1. Len(items) \in Nat /\ k \in Nat
  BY LenProperties
<1>2. \A i \in 1 .. k : items[i] \in Items
  <2>1. \A i \in 1 .. k : i \in 1 .. Len(items)
    BY <1>1
  <2> QED
    BY <2>1, ElementOfSeq
<1>3. a \in Seq(Items) /\ Len(a) = k /\ \A i \in 1 .. k : a[i] = items[i]
  <2>2. /\ a \in Seq(Items) /\ Len(a) = IF 1 <= k THEN k - 1 + 1 ELSE 0
        /\ \A i \in 1 .. k - 1 + 1 : a[i] = items[1 + i - 1]
    BY <1>1, <1>2, SubSeqProperties
  <2> HIDE DEF a
  <2> QED
    BY <1>1, <2>2
<1> HIDE DEF a
<1>4. IsPrefix(a, items)
  BY <1>1, <1>3, PrefixUnits
<1> QED
  BY <1>4 DEF a

LEMMA ReadingBegun ==
  ASSUME NEW p, NEW L \in SUBSET Seq(Items), NEW R, Reading(p, L, R)
  PROVE  Begun(p.head, L)
<1>1. ASSUME NEW items \in L, InItems(p, items) PROVE IsPrefix(p.head, items)
  <2>1. PICK k \in 0 .. Len(items) : p.head = SubSeq(items, 1, k)
    BY <1>1 DEF InItems, AtItem, AtEnd
  <2> QED
    BY <2>1, ItemsBegun
<1> QED
  BY <1>1 DEF Reading, AtStart, AtStatus, Begun

-----------------------------------------------------------------------------
(* It reads one unit of the reply R.                                       *)
Further(p) == [p EXCEPT !.got = @ + 1]
Takes(p, x) ==
  LET q == Further(p) IN [q EXCEPT !.entr = Append(@, x)]
ComesNext(R, p) == (AckMsg \o R)[p.got + 1]

(* What it does with the unit x.                                           *)
Reaction(p, L, R, x) ==
  /\ x # CRLF => Reading(Takes(p, x), L, R)
  /\ x = CRLF /\ p.entr = <<>> =>
       /\ p.head \in L /\ R = ListReply(p.head) /\ p.got + 1 = Len(AckMsg \o R)
  /\ x = CRLF /\ p.entr # <<>> =>
       /\ p.entr[1] = Word("ERR") => R = ErrMsg /\ p.got + 1 = Len(AckMsg \o R)
       /\ p.entr[1] = Word("OK") => Reading(NextLine(Further(p)), L, R)
       /\ p.entr[1].kind # "mixed"
       /\ p.entr[1].kind \in {"file", "dir"} => Reading(Stored(Further(p)), L, R)

LEMMA RecordParts ==
  ASSUME NEW p \in Progs, NEW x
  PROVE  /\ Takes(p, x).got = p.got + 1 /\ Takes(p, x).entr = Append(p.entr, x)
         /\ Takes(p, x).head = p.head
         /\ NextLine(Further(p)).got = p.got + 1 /\ NextLine(Further(p)).entr = <<>>
         /\ NextLine(Further(p)).head = p.head
         /\ Stored(Further(p)).got = p.got + 1 /\ Stored(Further(p)).entr = <<>>
         /\ Stored(Further(p)).head = Append(p.head, Parsed(p.entr))
BY DEF Progs, Takes, Further, NextLine, Stored

LEMMA ReadAtStart ==
  ASSUME NEW p \in Progs, NEW L \in SUBSET Seq(Items), NEW R \in Replies(L),
         p.got < Len(AckMsg \o R), AtStart(p)
  PROVE  Reaction(p, L, R, ComesNext(R, p))
<1>1. R \in Seq(Units)
  BY RepliesType
<1>2. /\ Len(R) \in Nat /\ Len(AckMsg \o R) = Len(R) + 2
      /\ \A n \in 1 .. Len(R) : (AckMsg \o R)[n + 2] = R[n]
  BY <1>1, AfterGreeting
<1>3. p.got = 2 /\ p.entr = <<>> /\ p.head = <<>>
  BY DEF AtStart
<1>4. 1 \in 1 .. Len(R)
  BY <1>2, <1>3
<1>5. ComesNext(R, p) = R[1]
  <2>1. (AckMsg \o R)[1 + 2] = R[1]
    BY <1>2, <1>4
  <2> QED
    BY <1>3, <2>1 DEF ComesNext
<1>6. R # <<>>
  BY <1>4
<1>7. R[1] \in {Word("OK"), Word("ERR")}
  BY <1>6, AckUnits, ListReplyUnits DEF Replies
<1>8. R[1] # CRLF
  BY <1>7, UnitsDiffer
<1>9. AtStatus(Takes(p, R[1]), R)
  <2>1. Append(<<>>, R[1]) = <<R[1]>>
    OBVIOUS
  <2> QED
    BY <1>3, <1>6, <2>1, RecordParts DEF AtStatus
<1> QED
  BY <1>5, <1>8, <1>9 DEF Reaction, Reading

LEMMA ReadAtStatus ==
  ASSUME NEW p \in Progs, NEW L \in SUBSET Seq(Items), NEW R \in Replies(L),
         p.got < Len(AckMsg \o R), AtStatus(p, R)
  PROVE  Reaction(p, L, R, ComesNext(R, p))
<1>1. R \in Seq(Units)
  BY RepliesType
<1>2. /\ Len(R) \in Nat /\ Len(AckMsg \o R) = Len(R) + 2
      /\ \A n \in 1 .. Len(R) : (AckMsg \o R)[n + 2] = R[n]
  BY <1>1, AfterGreeting
<1>3. p.got = 3 /\ p.entr = <<R[1]>> /\ p.head = <<>> /\ R # <<>>
  BY DEF AtStatus
<1>4. 2 \in 1 .. Len(R)
  BY <1>2, <1>3
<1>5. ComesNext(R, p) = R[2]
  <2>1. (AckMsg \o R)[2 + 2] = R[2]
    BY <1>2, <1>4
  <2> QED
    BY <1>3, <2>1 DEF ComesNext
<1>6. p.entr # <<>> /\ p.entr[1] = R[1]
  BY <1>3
<1>7. CASE R = ErrMsg
  <2>1. R[1] = Word("ERR") /\ R[2] = CRLF /\ Len(R) = 2
    BY <1>7, AckUnits
  <2>2. p.got + 1 = Len(AckMsg \o R)
    BY <1>2, <1>3, <2>1
  <2>3. Word("ERR") # Word("OK") /\ Word("ERR").kind \notin {"file", "dir", "mixed"}
    BY UnitsDiffer
  <2> QED
    BY <1>5, <1>6, <1>7, <2>1, <2>2, <2>3 DEF Reaction
<1>8. CASE R # ErrMsg
  <2>1. PICK items \in L : R = ListReply(items)
    BY <1>3, <1>8 DEF Replies
  <2>2. R[1] = Word("OK") /\ R[2] = CRLF /\ Len(items) \in Nat
    BY <2>1, ListReplyUnits
  <2>3. Word("OK") # Word("ERR") /\ Word("OK").kind \notin {"file", "dir", "mixed"}
    BY UnitsDiffer
  <2>4. AtItem(NextLine(Further(p)), items, 0)
    <3>1. SubSeq(items, 1, 0) = <<>>
      OBVIOUS
    <3>2. p.got + 1 = 4 + 2 * 0
      BY <1>3
    <3>3. 0 \in 0 .. Len(items)
      BY <2>2
    <3> QED
      BY <1>3, <3>1, <3>2, <3>3, RecordParts DEF AtItem
  <2>5. Reading(NextLine(Further(p)), L, R)
    <3>1. 0 \in 0 .. Len(items)
      BY <2>2
    <3> QED
      BY <2>1, <2>4, <3>1 DEF Reading, InItems
  <2> QED
    BY <1>5, <1>6, <2>2, <2>3, <2>5 DEF Reaction
<1> QED
  BY <1>7, <1>8

LEMMA ReadAtItem ==
  ASSUME NEW p \in Progs, NEW L \in SUBSET Seq(Items), NEW items \in L,
         NEW k \in 0 .. Len(items), AtItem(p, items, k)
  PROVE  Reaction(p, L, ListReply(items), ComesNext(ListReply(items), p))
<1> DEFINE R == ListReply(items)
           n == Len(items)
<1>1. /\ R \in Seq(Units) /\ n \in Nat /\ Len(R) = 2 * n + 3
      /\ \A i \in 0 .. n - 1 : R[2 * i + 3] = items[i + 1]
      /\ R[2 * n + 3] = CRLF
  BY ListReplyUnits
<1>2. /\ Len(AckMsg \o R) = Len(R) + 2
      /\ \A i \in 1 .. Len(R) : (AckMsg \o R)[i + 2] = R[i]
  BY <1>1, AfterGreeting
<1>3. p.got = 4 + 2 * k /\ p.entr = <<>> /\ p.head = SubSeq(items, 1, k)
  BY DEF AtItem
<1>4. \A i \in 1 .. n : items[i] \in Items
  BY ElementOfSeq
<1> HIDE DEF R, n
<1>5. k \in 0 .. n
  BY DEF n
<1>6. ComesNext(R, p) = R[2 * k + 3]
  <2>1. 2 * k + 3 \in 1 .. Len(R)
    BY <1>1, <1>5
  <2>2. p.got + 1 = (2 * k + 3) + 2
    BY <1>3, <1>5
  <2> QED
    BY <1>2, <2>1, <2>2 DEF ComesNext
<1>7. CASE k = n
  <2>1. R[2 * k + 3] = CRLF
    BY <1>1, <1>7
  <2>2. p.head = items
    BY <1>3, <1>7, SubSeqFull DEF n
  <2>3. p.got + 1 = Len(AckMsg \o R)
    BY <1>1, <1>2, <1>3, <1>7
  <2>4. p.head \in L /\ R = ListReply(p.head)
    BY <2>2 DEF R
  <2>5. Reaction(p, L, R, ComesNext(R, p))
    BY <1>3, <1>6, <2>1, <2>3, <2>4 DEF Reaction
  <2> QED
    BY <2>5 DEF R
<1>8. CASE k # n
  <2>1. k \in 0 .. n - 1 /\ k + 1 \in 1 .. n
    BY <1>1, <1>5, <1>8
  <2> DEFINE x == items[k + 1]
  <2>2. R[2 * k + 3] = x
    BY <1>1, <2>1
  <2>3. x # CRLF
    BY <1>4, <2>1, UnitsDiffer
  <2>4. AtEnd(Takes(p, x), items, k)
    <3>1. Append(<<>>, x) = <<x>>
      OBVIOUS
    <3>2. Takes(p, x).got = 5 + 2 * k
      <4>1. Takes(p, x).got = p.got + 1
        BY RecordParts
      <4> QED
        BY <1>3, <1>5, <4>1
    <3> QED
      BY <1>3, <2>1, <3>1, <3>2, RecordParts DEF AtEnd, n
  <2>5. Reading(Takes(p, x), L, R)
    BY <2>4 DEF Reading, InItems, R
  <2> HIDE DEF x
  <2>6. Reaction(p, L, R, ComesNext(R, p))
    BY <1>6, <2>2, <2>3, <2>5 DEF Reaction
  <2> QED
    BY <2>6 DEF R
<1> QED
  BY <1>7, <1>8

LEMMA ReadAtEnd ==
  ASSUME NEW p \in Progs, NEW L \in SUBSET Seq(Items), NEW items \in L,
         NEW k \in 0 .. Len(items), AtEnd(p, items, k)
  PROVE  Reaction(p, L, ListReply(items), ComesNext(ListReply(items), p))
<1> DEFINE R == ListReply(items)
           n == Len(items)
<1>1. /\ R \in Seq(Units) /\ n \in Nat /\ Len(R) = 2 * n + 3
      /\ \A i \in 0 .. n - 1 : R[2 * i + 4] = CRLF
  BY ListReplyUnits
<1>2. \A i \in 1 .. Len(R) : (AckMsg \o R)[i + 2] = R[i]
  BY <1>1, AfterGreeting
<1>3. p.got = 5 + 2 * k /\ p.entr = <<items[k + 1]>> /\ p.head = SubSeq(items, 1, k)
      /\ k \in 0 .. n - 1
  BY DEF AtEnd
<1>4. \A i \in 1 .. n : items[i] \in Items
  BY ElementOfSeq
<1> HIDE DEF R, n
<1>6. ComesNext(R, p) = CRLF
  <2>1. 2 * k + 4 \in 1 .. Len(R)
    BY <1>1, <1>3
  <2>2. p.got + 1 = (2 * k + 4) + 2
    BY <1>3
  <2> QED
    BY <1>1, <1>2, <1>3, <2>1, <2>2 DEF ComesNext
<1>7. k + 1 \in 1 .. n
  BY <1>1, <1>3
<1>8. PICK x : x = items[k + 1]
  OBVIOUS
<1>9. x \in Items /\ p.entr = <<x>>
  BY <1>3, <1>4, <1>7, <1>8
<1>10. /\ p.entr # <<>> /\ p.entr[1] = x /\ x # Word("ERR") /\ x # Word("OK")
       /\ x.kind # "mixed"
  BY <1>9, UnitsDiffer
<1>11. AtItem(Stored(Further(p)), items, k + 1)
  <2>1. Parsed(p.entr) = x
    BY <1>9 DEF Parsed
  <2>2. Append(p.head, x) = SubSeq(items, 1, k + 1)
    BY <1>3, <1>8, OneMoreItem DEF n
  <2>3. Stored(Further(p)).got = 4 + 2 * (k + 1)
    <3>1. Stored(Further(p)).got = p.got + 1
      BY RecordParts
    <3> QED
      BY <1>3, <3>1
  <2>4. k + 1 \in 0 .. Len(items)
    BY <1>7 DEF n
  <2> QED
    BY <2>1, <2>2, <2>3, <2>4, RecordParts DEF AtItem
<1>12. Reading(Stored(Further(p)), L, R)
  <2>1. k + 1 \in 0 .. Len(items)
    BY <1>7 DEF n
  <2> QED
    BY <1>11, <2>1 DEF Reading, InItems, R
<1>13. Reaction(p, L, R, ComesNext(R, p))
  BY <1>6, <1>10, <1>12 DEF Reaction
<1> QED
  BY <1>13 DEF R

LEMMA ReadsOneMore ==
  ASSUME NEW p \in Progs, NEW L \in SUBSET Seq(Items), NEW R \in Replies(L),
         p.got < Len(AckMsg \o R), Reading(p, L, R)
  PROVE  Reaction(p, L, R, ComesNext(R, p))
<1>1. ASSUME NEW items \in L, R = ListReply(items), InItems(p, items)
      PROVE  Reaction(p, L, R, ComesNext(R, p))
  BY <1>1, ReadAtItem, ReadAtEnd DEF InItems
<1> QED
  BY <1>1, ReadAtStart, ReadAtStatus DEF Reading

-----------------------------------------------------------------------------
(***************************************************************************)
(* What a step does to a program and to what is known of it.               *)
(***************************************************************************)
LEMMA ListingsAre ==
  ASSUME ProgsOk, NEW c \in Clients
  PROVE  /\ Listings(c) \in SUBSET Seq(Items)
         /\ TrueOf(prog[c].request, store) \subseteq Listings(c)
<1>1. seen[c] \subseteq Stores /\ store \in seen[c]
  BY DEF ProgsOk, ProgOk
<1>2. \A st \in Stores, dir \in Dirs : Listing(st, dir) \in Seq(Items)
  BY ListingType
<1> QED
  BY <1>1, <1>2 DEF Listings, TrueOf, Path

LEMMA ListingsNext ==
  ASSUME ProgsOk', NEW c \in Clients
  PROVE  Listings(c)' \in SUBSET Seq(Items)
<1>1. seen'[c] \subseteq Stores
  BY DEF ProgsOk
<1>2. \A st \in Stores, dir \in Dirs : Listing(st, dir) \in Seq(Items)
  BY ListingType
<1> QED
  BY <1>1, <1>2 DEF Listings, Path

LEMMA SeenOf ==
  ASSUME Seen, NEW c \in Clients, lines'[c] = lines[c]
  PROVE  seen[c] \subseteq seen'[c]
BY DEF Seen, Asking

LEMMA ListingsGrow ==
  ASSUME Seen, NEW c \in Clients, lines'[c] = lines[c], prog'[c].request = prog[c].request
  PROVE  Listings(c) \subseteq Listings(c)'
<1>1. seen[c] \subseteq seen'[c]
  BY SeenOf
<1> QED
  BY <1>1 DEF Listings, Path

LEMMA SeenStores ==
  ASSUME ProgsOk, Seen, store' \in Stores
  PROVE  seen' \in [Clients -> SUBSET Stores] /\ \A c \in Clients : store' \in seen'[c]
BY DEF ProgsOk, Seen

LEMMA ProgsStay ==
  ASSUME ProgsOk, Seen, store' \in Stores, prog' = prog,
         \A c \in Clients : link'[c] = link[c] /\ lines'[c] = lines[c]
  PROVE  ProgsOk'
<1>1. seen' \in [Clients -> SUBSET Stores] /\ \A c \in Clients : store' \in seen'[c]
  BY SeenStores
<1>2. ASSUME NEW c \in Clients PROVE ProgOk(c)'
  BY <1>1, <1>2 DEF ProgsOk, ProgOk
<1> QED
  BY <1>1, <1>2 DEF ProgsOk

LEMMA ProgsMove ==
  ASSUME ProgsOk, Seen, store' \in Stores, NEW c \in Clients, NEW p \in Progs, Become(c, p),
         p.request = prog[c].request, Linked(p.pc, link'[c]),
         lines'[c] = <<>> \/ lines'[c] = <<p.request>>,
         p.pc \in Unasked => lines'[c] = <<>>,
         \A d \in Clients \ {c} : link'[d] = link[d] /\ lines'[d] = lines[d]
  PROVE  ProgsOk'
<1>1. seen' \in [Clients -> SUBSET Stores] /\ \A d \in Clients : store' \in seen'[d]
  BY SeenStores
<1>2. /\ prog' \in [Clients -> Progs] /\ prog'[c] = p
      /\ \A d \in Clients \ {c} : prog'[d] = prog[d]
  BY DEF ProgsOk, Become
<1>3. ProgOk(c)'
  BY <1>1, <1>2 DEF ProgsOk, ProgOk
<1>4. ASSUME NEW d \in Clients \ {c} PROVE ProgOk(d)'
  BY <1>1, <1>2, <1>4 DEF ProgsOk, ProgOk
<1> QED
  BY <1>1, <1>2, <1>3, <1>4 DEF ProgsOk

-----------------------------------------------------------------------------
LEMMA StoryOut ==
  ASSUME Base, NEW c \in Clients, NEW R \in Seq(Units), Story(c, R)
  PROVE  IsPrefix(out[c], AckMsg \o R)
<1>1. CASE ~Running
  BY <1>1 DEF Story
<1>2. CASE Running
  <2>1. IsPrefix(out[c], Told(c)) /\ out[c] \in Seq(Units)
    BY ToldType
  <2>2. Told(c) = IF c \in Accepted THEN AckMsg \o R ELSE <<>>
    BY <1>2 DEF Story, Transcript
  <2>3. CASE c \in Accepted
    BY <2>1, <2>2, <2>3
  <2>4. CASE c \notin Accepted
    <3>1. out[c] = <<>>
      BY <1>2, <2>4, NotAccepted
    <3> DEFINE t == AckMsg \o R
               e == <<>>
    <3>2. e \in Seq(Units) /\ Len(e) = 0 /\ t \in Seq(Units) /\ Len(t) \in Nat
      BY AfterGreeting, EmptySeq, LenProperties
    <3>3. e = out[c]
      BY <3>1
    <3> HIDE DEF e, t
    <3>4. Len(e) <= Len(t) /\ \A i \in 1 .. Len(e) : e[i] = t[i]
      BY <3>2
    <3>5. IsPrefix(e, t)
      BY <3>2, <3>4, PrefixUnits
    <3> QED
      BY <3>3, <3>5 DEF t
  <2> QED
    BY <2>3, <2>4
<1> QED
  BY <1>1, <1>2

LEMMA StoryKept ==
  ASSUME Base, NEW c \in Clients, NEW R \in Seq(Units), Story(c, R), ~Running',
         out'[c] = out[c]
  PROVE  Story(c, R)'
BY StoryOut DEF Story

LEMMA StoryUnchanged ==
  ASSUME NEW c \in Clients, NEW R, Story(c, R), UNCHANGED vars
  PROVE  Story(c, R)'
<1>1. /\ link' = link /\ lines' = lines /\ in' = in /\ backlog' = backlog /\ out' = out
      /\ closed' = closed /\ pc' = pc /\ serving' = serving /\ job' = job
  BY DEF vars, peers, server
<1>2. Unread(c)' = Unread(c) /\ (Answering(c)' <=> Answering(c)) /\ Owed(c)' = Owed(c)
  BY <1>1 DEF Unread, Positions, Answering, Owed
<1>3. Told(c)' = Told(c) /\ Given(c)' = Given(c)
  BY <1>1, <1>2 DEF Told, Given
<1>4. (Running' <=> Running) /\ (c \in Accepted' <=> c \in Accepted) /\ (Ending' <=> Ending)
  BY <1>1 DEF Running, Accepted, Ending
<1>5. Transcript(c, R)' <=> Transcript(c, R)
  BY <1>3, <1>4 DEF Transcript
<1>6. Standing(c, R)' <=> Standing(c, R)
  BY <1>1, <1>3, <1>4 DEF Standing
<1> QED
  BY <1>1, <1>4, <1>5, <1>6 DEF Story

(* A program that does nothing: its reply is made, or stays.               *)
Onward(c) ==
  \A R \in Replies(Listings(c)) :
    Story(c, R) => \E R2 \in Replies(Listings(c)') : (R2 = R \/ R = <<>>) /\ Story(c, R2)'

Idles(c) == prog'[c] = prog[c] /\ link'[c] = link[c] /\ lines'[c] = lines[c]

LEMMA KnowsOn ==
  ASSUME Base, Base', ProgsOk, ProgsOk', Seen, NEW c \in Clients, Knows(c), Idles(c),
         Longer(c), Running' => Running, link[c] # "gone" => Onward(c)
  PROVE  Knows(c)'
<1>1. Listings(c) \in SUBSET Seq(Items) /\ Listings(c)' \in SUBSET Seq(Items)
  BY ListingsAre, ListingsNext
<1>2. Listings(c) \subseteq Listings(c)'
  BY ListingsGrow DEF Idles
<1>3. PICK L : L = Listings(c)
  OBVIOUS
<1>4. PICK M : M = Listings(c)'
  OBVIOUS
<1>5. PICK p \in Progs : p = prog[c]
  BY DEF ProgsOk
<1>6. prog'[c] = p
  BY <1>5 DEF Idles
<1>7. L \subseteq M /\ L \in SUBSET Seq(Items) /\ M \in SUBSET Seq(Items)
  BY <1>1, <1>2, <1>3, <1>4
<1>8. CASE link[c] = "gone"
  <2>1. Ended(c)
    BY <1>8 DEF Knows
  <2>2. Finished(p, L) /\ (p.pc = "killed" => ~Running \/ <<>> \in L)
    BY <1>3, <1>5, <2>1 DEF Ended
  <2>3. Finished(p, M)
    BY <1>7, <2>2 DEF Finished, Begun
  <2>4. p.pc = "killed" => ~Running' \/ <<>> \in M
    BY <1>7, <2>2
  <2>5. Ended(c)'
    BY <1>4, <1>6, <2>3, <2>4 DEF Ended
  <2> QED
    BY <1>8, <2>5 DEF Knows, Idles
<1>9. CASE link[c] # "gone"
  <2>1. PICK R \in Replies(L) : Story(c, R) /\ Reads(p, L, R)
    BY <1>3, <1>5, <1>9 DEF Knows
  <2>2. PICK R2 \in Replies(M) : (R2 = R \/ R = <<>>) /\ Story(c, R2)'
    BY <1>3, <1>4, <1>9, <2>1 DEF Onward
  <2>3. Reads(p, M, R2)
    BY <1>7, <2>1, <2>2, ReadsOn
  <2>4. Behind(c)
    BY <1>9 DEF Knows
  <2>5. Behind(c)'
    <3>1. Len(out[c]) \in Nat /\ Len(out'[c]) \in Nat
      BY LenProperties DEF Base, ServerOk
    <3>2. p.got \in Nat
      BY DEF Progs
    <3>3. p.pc \in {"send", "recv", "print"} => p.got <= Len(out'[c])
      BY <1>5, <2>4, <3>1, <3>2 DEF Behind, Longer
    <3> QED
      BY <1>5, <1>6, <2>4, <3>3 DEF Behind
  <2> QED
    BY <1>4, <1>6, <1>9, <2>2, <2>3, <2>5 DEF Knows, Idles
<1> QED
  BY <1>8, <1>9

-----------------------------------------------------------------------------
LEMMA OnwardNext ==
  ASSUME IInv, IInv', ProgsOk, ProgsOk', Seen, Running, [Next]_vars, NEW c \in Clients,
         c \notin spoilt, c \notin spoilt', link[c] # "gone",
         lines'[c] = lines[c], prog'[c].request = prog[c].request
  PROVE  Onward(c)
<1>1. PICK L : L = Listings(c)
  OBVIOUS
<1>2. PICK M : M = Listings(c)'
  OBVIOUS
<1>3. L \in SUBSET Seq(Items) /\ TrueOf(prog[c].request, store) \subseteq L
  BY <1>1, ListingsAre
<1>4. L \subseteq M
  BY <1>1, <1>2, ListingsGrow
<1>5. M \in SUBSET Seq(Items)
  BY <1>2, ListingsNext
<1>6. PICK line \in Lines[c] : line = prog[c].request
  BY DEF ProgsOk, ProgOk
<1>7. Requested(c, line) /\ c \notin Left
  BY <1>6 DEF ProgsOk, ProgOk, Requested, Left
<1>8. TrueOf(line, store) \subseteq M
  BY <1>3, <1>4, <1>6
<1>9. ASSUME NEW R \in Replies(L), Story(c, R)
      PROVE  \E R2 \in Replies(M) : (R2 = R \/ R = <<>>) /\ Story(c, R2)'
  BY <1>3, <1>4, <1>5, <1>7, <1>8, <1>9, StoryStep
<1> QED
  BY <1>1, <1>2, <1>9 DEF Onward

LEMMA OnwardDown ==
  ASSUME Base, ProgsOk, Seen, NEW c \in Clients, Idles(c), ~Running', out'[c] = out[c]
  PROVE  Onward(c)
<1>1. Listings(c) \subseteq Listings(c)' /\ Listings(c) \in SUBSET Seq(Items)
  BY ListingsAre, ListingsGrow DEF Idles
<1>2. ASSUME NEW R \in Replies(Listings(c)), Story(c, R)
      PROVE  \E R2 \in Replies(Listings(c)') : (R2 = R \/ R = <<>>) /\ Story(c, R2)'
  <2>1. R \in Seq(Units) /\ R \in Replies(Listings(c)')
    BY <1>1, RepliesType, RepliesGrow
  <2>2. Story(c, R)'
    BY <1>2, <2>1, StoryKept
  <2> QED
    BY <2>1, <2>2
<1> QED
  BY <1>2 DEF Onward

-----------------------------------------------------------------------------
(* What one recv() of n units makes of the greeting.                       *)
LEMMA HandshakeReads ==
  ASSUME NEW s \in Seq(Units), NEW n \in Nat, Len(s) = n, NEW connection,
         connection.avail = s
  PROVE  LET r == cgym_sock_connect(NewSock, connection)
         IN  /\ r.rc = 0 => n >= 2 /\ Len(r.conn.avail) = n - 2
             /\ n >= 2 /\ s[1] = Word("CGYM") /\ s[2] = CRLF => r.rc = 0
<1> DEFINE k == [NewSock EXCEPT !.state = "RECV_HANDSHAKE"]
           v == cgym_recv(k, connection, Len(AckMsg))
           h == cgym_recv_handshake(k, connection)
           r == cgym_sock_connect(NewSock, connection)
<1>1. k.pos = 0 /\ k.buf = <<>> /\ NewSock.state # "CONNECTING"
  BY DEF NewSock
<1>2. r = IF h.rc = 0 THEN To(h, "CONNECTED")
          ELSE IF h.rc > 1 THEN Return(To(h, "ERR"), 6)
          ELSE h
  BY <1>1 DEF cgym_sock_connect
<1>3. h = IF v.rc = 0
          THEN IF v.segm.buf = AckMsg THEN Clear(v) ELSE Return(v, 2)
          ELSE IF v.rc > 1 THEN Return(v, 3) ELSE v
  BY DEF cgym_recv_handshake
<1>4. Len(AckMsg) = 2
  BY AckUnits
<1>5. CASE n < 2
  <2>1. v.rc \in {1, 2}
    <3>1. Len(AckMsg) - k.pos = 2
      BY <1>1, <1>4
    <3> HIDE DEF k
    <3> QED
      BY <1>5, <3>1 DEF cgym_recv
  <2> HIDE DEF v
  <2>2. h.rc \in {1, 3}
    <3>1. Return(v, 3).rc = 3
      BY DEF Return
    <3> HIDE DEF h
    <3> QED
      BY <1>3, <2>1, <3>1
  <2> HIDE DEF h
  <2>3. r.rc \in {1, 6}
    BY <1>2, <2>2 DEF Return
  <2> HIDE DEF r
  <2>4. r.rc # 0 /\ ~(n >= 2)
    BY <1>5, <2>3
  <2> QED
    BY <2>4 DEF r
<1>6. CASE n >= 2
  <2> DEFINE g == SubSeq(<<>>, 1, 0) \o SubSeq(s, 1, 2)
             rest == [connection EXCEPT !.avail = SubSeq(s, 2 + 1, n)]
  <2>1. v = [segm |-> [k EXCEPT !.buf = g, !.pos = 0], conn |-> rest, rc |-> 0]
    <3>1. Len(AckMsg) - k.pos = 2 /\ ~(n < 2) /\ 2 # 0
      BY <1>1, <1>4, <1>6
    <3> HIDE DEF k
    <3> QED
      BY <1>1, <1>6, <3>1 DEF cgym_recv
  <2>2. v.rc = 0 /\ v.conn = rest /\ v.segm.buf = g
    <3>1. [k EXCEPT !.buf = g, !.pos = 0].buf = g
      BY DEF NewSock
    <3> HIDE DEF k, g, rest, v
    <3> QED
      BY <2>1, <3>1
  <2>3. Clear(v).rc = 0 /\ Clear(v).conn = rest
    <3> HIDE DEF k, g, rest
    <3> QED
      BY <2>1 DEF Clear
  <2>4. To(Clear(v), "CONNECTED").rc = 0 /\ To(Clear(v), "CONNECTED").conn = rest
    <3> HIDE DEF k, g, rest
    <3> QED
      BY <2>1 DEF Clear, To
  <2>5. Len(rest.avail) = n - 2
    <3>1. Len(SubSeq(s, 2 + 1, n)) = n - 2
      <4>1. 2 + 1 \in Nat /\ n \in Nat
        OBVIOUS
      <4>2. \A i \in 2 + 1 .. n : s[i] \in Units
        <5>1. \A i \in 2 + 1 .. n : i \in 1 .. Len(s)
          OBVIOUS
        <5> QED
          BY <5>1, ElementOfSeq
      <4>3. Len(SubSeq(s, 2 + 1, n)) = IF 2 + 1 <= n THEN n - (2 + 1) + 1 ELSE 0
        BY <4>2, SubSeqProperties
      <4> QED
        BY <1>6, <4>3
    <3>2. rest.avail = SubSeq(s, 2 + 1, n)
      OBVIOUS
    <3> QED
      BY <3>1, <3>2
  <2>6. ASSUME s[1] = Word("CGYM"), s[2] = CRLF PROVE g = AckMsg
    <3>1. SubSeq(s, 1, 2) = AckMsg
      <4> DEFINE u == SubSeq(s, 1, 2)
      <4>1. \A i \in 1 .. 2 : s[i] \in Units
        <5>1. \A i \in 1 .. 2 : i \in 1 .. Len(s)
          BY <1>6
        <5> QED
          BY <5>1, ElementOfSeq
      <4>2. /\ u \in Seq(Units) /\ Len(u) = IF 1 <= 2 THEN 2 - 1 + 1 ELSE 0
            /\ \A i \in 1 .. 2 - 1 + 1 : u[i] = s[1 + i - 1]
        BY <4>1, SubSeqProperties
      <4> HIDE DEF u
      <4>3. Len(u) = 2 /\ u[1] = s[1] /\ u[2] = s[2]
        BY <4>2
      <4>4. \A i \in 1 .. 2 : u[i] = AckMsg[i]
        BY <2>6, <4>3, AckUnits
      <4>5. u = AckMsg
        BY <4>2, <4>3, <4>4, AckUnits, SeqEqual
      <4> QED
        BY <4>5 DEF u
    <3>2. SubSeq(<<>>, 1, 0) = <<>>
      OBVIOUS
    <3> QED
      BY <3>1, <3>2, AckUnits, ConcatEmptySeq
  <2> HIDE DEF v, g, rest
  <2>7. /\ h.rc = 0 => h = Clear(v)
        /\ g = AckMsg => h = Clear(v)
    <3>1. Return(v, 2).rc = 2
      BY <2>1 DEF Return
    <3> QED
      BY <1>3, <2>2, <3>1
  <2> HIDE DEF h
  <2>8. r.rc = 0 => h.rc = 0
    <3>1. Return(To(h, "ERR"), 6).rc # 0
      BY DEF Return
    <3> QED
      BY <1>2, <3>1
  <2>9. h = Clear(v) => r = To(Clear(v), "CONNECTED")
    BY <1>2, <2>3
  <2> HIDE DEF r
  <2>10. r.rc = 0 => Len(r.conn.avail) = n - 2
    BY <2>4, <2>5, <2>7, <2>8, <2>9
  <2>11. s[1] = Word("CGYM") /\ s[2] = CRLF => r.rc = 0
    BY <2>4, <2>6, <2>7, <2>9
  <2> QED
    BY <1>6, <2>10, <2>11 DEF r
<1> QED
  BY <1>5, <1>6

-----------------------------------------------------------------------------
(***************************************************************************)
(* The steps of a program.                                                 *)
(***************************************************************************)
Advances(c, p) == Become(c, p) /\ p \in Progs /\ p.request = prog[c].request

(* It does something without the server, calls it, or ends.                *)
Reckons(c, p) ==
  /\ Advances(c, p) /\ UNCHANGED vars /\ link[c] = "up"
  /\ p.pc \in {"send", "recv", "print"}
  /\ p.pc = "send" => prog[c].pc = "handshake"

Dials(c, p) ==
  /\ Advances(c, p) /\ Dial(c)
  /\ prog[c].pc = "connect" /\ p = [prog[c] EXCEPT !.pc = "handshake"]

Requests(c, p) ==
  /\ Advances(c, p) /\ Send(c, p.request)
  /\ prog[c].pc = "send" /\ p = [prog[c] EXCEPT !.pc = "recv"]

Leaves(c, p) ==
  /\ Advances(c, p) /\ Ends(c, p)
  /\ p.pc \in {"exit", "killed"}
  /\ link[c] = "up" \/ ~Running

Does(c, p) == Reckons(c, p) \/ Dials(c, p) \/ Requests(c, p) \/ Leaves(c, p)

LEMMA FurtherType ==
  ASSUME NEW q \in Progs
  PROVE  /\ Further(q) \in Progs /\ Further(q).request = q.request /\ Further(q).pc = q.pc
         /\ Further(q).got = q.got + 1 /\ Further(q).entr = q.entr /\ Further(q).head = q.head
         /\ Further(q).ended = q.ended
<1>1. PICK g \in Nat : g = q.got + 1
  BY DEF Progs
<1>2. Further(q) = [q EXCEPT !.got = g]
  BY <1>1 DEF Further, Progs
<1>3. /\ Further(q).got = q.got + 1 /\ Further(q).entr = q.entr
      /\ Further(q).head = q.head /\ Further(q).ended = q.ended
  BY DEF Further, Progs
<1>4. [q EXCEPT !.got = g] \in Progs /\ [q EXCEPT !.got = g].request = q.request
      /\ [q EXCEPT !.got = g].pc = q.pc
  BY DEF Progs
<1> QED
  BY <1>1, <1>2, <1>3, <1>4

LEMMA ConnectDoes ==
  ASSUME ProgsOk, NEW c \in Clients, Connect(c)
  PROVE  \E p \in Progs : Does(c, p)
<1>1. PICK q \in Progs : q = prog[c]
  BY DEF ProgsOk
<1>2. q.pc = "connect"
  BY <1>1 DEF Connect, At
<1>3. CASE Dial(c) /\ Goto(c, "handshake")
  <2> DEFINE p == [q EXCEPT !.pc = "handshake"]
  <2>1. p \in Progs /\ p.request = q.request
    BY DEF Progs, Labelled
  <2>2. Dials(c, p)
    BY <1>1, <1>2, <1>3, <2>1 DEF Dials, Advances, Goto
  <2> QED
    BY <2>1, <2>2 DEF Does
<1>4. CASE ~Running /\ Exit(c, prog[c], 0)
  <2> DEFINE p == [q EXCEPT !.pc = "exit", !.status = 0]
  <2>1. p \in Progs /\ p.request = q.request /\ p.pc = "exit"
    BY DEF Progs, Labelled
  <2>2. Leaves(c, p)
    BY <1>1, <1>4, <2>1 DEF Leaves, Advances, Exit, Ends
  <2> QED
    BY <2>1, <2>2 DEF Does
<1> QED
  BY <1>3, <1>4 DEF Connect

LEMMA HandshakeCases ==
  ASSUME Base, ProgsOk, NEW c \in Clients, Handshake(c)
  PROVE  /\ At(c, "handshake")
         /\ \E n \in (IF AtEof(c) THEN {0} ELSE {}) \cup 1 .. Len(out[c]) - prog[c].got :
              \/ /\ n >= 2 /\ UNCHANGED vars
                 /\ Become(c, [prog[c] EXCEPT !.pc = "send", !.got = prog[c].got + 2])
              \/ /\ ~(/\ n >= 2 /\ out[c][prog[c].got + 1] = Word("CGYM")
                      /\ out[c][prog[c].got + 2] = CRLF)
                 /\ Exit(c, prog[c], 0)
<1> DEFINE g == prog[c].got
           left == Len(out[c]) - g
<1>1. PICK n \in (IF AtEof(c) THEN {0} ELSE {}) \cup 1 .. left :
        LET r == cgym_sock_connect(NewSock, Pending(c, n))
        IN  IF r.rc = 0
            THEN /\ Become(c, [prog[c] EXCEPT !.pc = "send",
                                 !.got = @ + n - Len(r.conn.avail)])
                 /\ UNCHANGED vars
            ELSE Exit(c, prog[c], 0)
  BY DEF Handshake
<1>2. g \in Nat /\ out[c] \in Seq(Units) /\ Len(out[c]) \in Nat
  <2>1. prog[c] \in Progs
    BY DEF ProgsOk
  <2> QED
    BY <2>1, LenProperties DEF Progs, Base, ServerOk
<1>3. n \in Nat /\ g + n <= Len(out[c])
  <2>1. CASE n = 0 /\ AtEof(c)
    BY <1>2, <2>1 DEF AtEof
  <2>2. CASE n \in 1 .. left
    BY <1>2, <2>2
  <2> QED
    BY <1>1, <2>1, <2>2
<1> DEFINE s == SubSeq(out[c], g + 1, g + n)
<1> HIDE DEF g
<1>4. s \in Seq(Units) /\ Len(s) = n /\ \A i \in 1 .. n : s[i] = out[c][g + i]
  <2>1. \A i \in g + 1 .. g + n : out[c][i] \in Units
    <3>1. \A i \in g + 1 .. g + n : i \in 1 .. Len(out[c])
      BY <1>2, <1>3
    <3> QED
      BY <1>2, <3>1, ElementOfSeq
  <2>2. /\ s \in Seq(Units)
        /\ Len(s) = IF g + 1 <= g + n THEN (g + n) - (g + 1) + 1 ELSE 0
        /\ \A i \in 1 .. (g + n) - (g + 1) + 1 : s[i] = out[c][(g + 1) + i - 1]
    BY <1>2, <1>3, <2>1, SubSeqProperties
  <2> HIDE DEF s
  <2>3. Len(s) = n
    BY <1>2, <1>3, <2>2
  <2>4. \A i \in 1 .. n : s[i] = out[c][g + i]
    <3> TAKE i \in 1 .. n
    <3>1. i \in 1 .. (g + n) - (g + 1) + 1 /\ (g + 1) + i - 1 = g + i
      BY <1>2, <1>3
    <3> QED
      BY <2>2, <3>1
  <2> QED
    BY <2>2, <2>3, <2>4
<1> DEFINE connection == Pending(c, n)
           r == cgym_sock_connect(NewSock, connection)
<1>5. connection.avail = s
  BY DEF Pending, g
<1> HIDE DEF s
<1>6. /\ r.rc = 0 => n >= 2 /\ Len(r.conn.avail) = n - 2
      /\ n >= 2 /\ s[1] = Word("CGYM") /\ s[2] = CRLF => r.rc = 0
  <2>1. PICK k : k = connection
    OBVIOUS
  <2>2. k.avail = s
    BY <1>5, <2>1
  <2> QED
    BY <1>3, <1>4, <2>1, <2>2, HandshakeReads
<1>7. IF r.rc = 0
      THEN /\ Become(c, [prog[c] EXCEPT !.pc = "send",
                           !.got = @ + n - Len(r.conn.avail)])
           /\ UNCHANGED vars
      ELSE Exit(c, prog[c], 0)
  BY <1>1
<1> HIDE DEF r
<1>8. CASE r.rc = 0
  <2>1. n >= 2 /\ Len(r.conn.avail) = n - 2
    BY <1>6, <1>8
  <2>2. g + n - Len(r.conn.avail) = g + 2
    BY <1>2, <1>3, <2>1
  <2>3. [prog[c] EXCEPT !.pc = "send", !.got = @ + n - Len(r.conn.avail)]
          = [prog[c] EXCEPT !.pc = "send", !.got = prog[c].got + 2]
    <3>1. prog[c] \in Progs
      BY DEF ProgsOk
    <3> QED
      BY <2>2, <3>1 DEF g, Progs
  <2> QED
    BY <1>1, <1>7, <1>8, <2>1, <2>3 DEF Handshake, g
<1>9. CASE r.rc # 0
  <2>1. ~(n >= 2 /\ out[c][g + 1] = Word("CGYM") /\ out[c][g + 2] = CRLF)
    <3> SUFFICES ASSUME n >= 2, out[c][g + 1] = Word("CGYM"), out[c][g + 2] = CRLF
                 PROVE  FALSE
      OBVIOUS
    <3>1. 1 \in 1 .. n /\ 2 \in 1 .. n
      BY <1>3
    <3>2. s[1] = Word("CGYM") /\ s[2] = CRLF
      BY <1>4, <3>1
    <3> QED
      BY <1>6, <1>9, <3>2
  <2> QED
    BY <1>1, <1>7, <1>9, <2>1 DEF Handshake, g
<1> QED
  BY <1>8, <1>9

LEMMA HandshakeDoes ==
  ASSUME Base, ProgsOk, NEW c \in Clients, Handshake(c)
  PROVE  \E p \in Progs : Does(c, p)
<1>1. PICK q \in Progs : q = prog[c]
  BY DEF ProgsOk
<1>2. q.pc = "handshake"
  BY <1>1, HandshakeCases DEF At
<1>3. link[c] = "up"
  BY <1>1, <1>2 DEF ProgsOk, ProgOk, Linked
<1>4. CASE /\ Become(c, [prog[c] EXCEPT !.pc = "send", !.got = prog[c].got + 2])
           /\ UNCHANGED vars
  <2> DEFINE p == [q EXCEPT !.pc = "send", !.got = q.got + 2]
  <2>1. p \in Progs /\ p.request = q.request /\ p.pc = "send"
    <3>1. PICK g \in Nat : g = q.got + 2
      BY DEF Progs
    <3>2. p = [q EXCEPT !.pc = "send", !.got = g]
      BY <3>1
    <3> QED
      BY <3>2 DEF Progs, Labelled
  <2>2. Reckons(c, p)
    BY <1>1, <1>2, <1>3, <1>4, <2>1 DEF Reckons, Advances
  <2> QED
    BY <2>1, <2>2 DEF Does
<1>5. CASE Exit(c, prog[c], 0)
  <2> DEFINE p == [q EXCEPT !.pc = "exit", !.status = 0]
  <2>1. p \in Progs /\ p.request = q.request /\ p.pc = "exit"
    BY DEF Progs, Labelled
  <2>2. Leaves(c, p)
    BY <1>1, <1>3, <1>5, <2>1 DEF Leaves, Advances, Exit, Ends
  <2> QED
    BY <2>1, <2>2 DEF Does
<1> QED
  BY <1>4, <1>5, HandshakeCases

LEMMA SendDoes ==
  ASSUME ProgsOk, NEW c \in Clients, SendRequest(c)
  PROVE  \E p \in Progs : Does(c, p)
<1>1. PICK q \in Progs : q = prog[c]
  BY DEF ProgsOk
<1>2. q.pc = "send"
  BY <1>1 DEF SendRequest, At
<1>3. link[c] = "up"
  BY <1>1, <1>2 DEF ProgsOk, ProgOk, Linked
<1> DEFINE p == [q EXCEPT !.pc = "recv"]
           d == [q EXCEPT !.pc = "killed"]
<1>4. p \in Progs /\ p.request = q.request /\ p.pc = "recv"
  BY DEF Progs, Labelled
<1>5. d \in Progs /\ d.request = q.request /\ d.pc = "killed"
  BY DEF Progs, Labelled
<1>6. CASE Send(c, prog[c].request) /\ Goto(c, "recv")
  <2>1. Requests(c, p)
    BY <1>1, <1>2, <1>4, <1>6 DEF Requests, Advances, Goto
  <2> QED
    BY <1>4, <2>1 DEF Does
<1>7. CASE Goto(c, "recv") /\ UNCHANGED vars
  <2>1. Reckons(c, p)
    BY <1>1, <1>3, <1>4, <1>7 DEF Reckons, Advances, Goto
  <2> QED
    BY <1>4, <2>1 DEF Does
<1>8. CASE Killed(c)
  <2>1. Leaves(c, d)
    BY <1>1, <1>3, <1>5, <1>8 DEF Leaves, Advances, Killed, Ends
  <2> QED
    BY <1>5, <2>1 DEF Does
<1> QED
  BY <1>6, <1>7, <1>8 DEF SendRequest

(* What a program does with the unit it reads.                             *)
ReceiveAs(c, x) ==
  \/ /\ x # CRLF /\ Become(c, Takes(prog[c], x)) /\ UNCHANGED vars
  \/ /\ x = CRLF /\ prog[c].entr = <<>> /\ UNCHANGED vars
     /\ Become(c, [Further(prog[c]) EXCEPT !.pc = "print", !.ended = "end"])
  \/ /\ x = CRLF /\ prog[c].entr # <<>> /\ prog[c].entr[1] = Word("ERR")
     /\ Exit(c, [Further(prog[c]) EXCEPT !.ended = "ERR"], 1)
  \/ /\ x = CRLF /\ prog[c].entr # <<>> /\ prog[c].entr[1] = Word("OK")
     /\ Become(c, NextLine(Further(prog[c]))) /\ UNCHANGED vars
  \/ /\ x = CRLF /\ prog[c].entr # <<>> /\ prog[c].entr[1].kind \in {"file", "dir"}
     /\ Become(c, Stored(Further(prog[c]))) /\ UNCHANGED vars
  \/ /\ x = CRLF /\ prog[c].entr # <<>> /\ prog[c].entr[1].kind = "mixed"
     /\ \/ Become(c, Stored(Further(prog[c])))
        \/ Become(c, NextLine(Further(prog[c])))
     /\ UNCHANGED vars

LEMMA ReceiveCases ==
  ASSUME Base, ProgsOk, NEW c \in Clients, Receive(c)
  PROVE  /\ At(c, "recv") /\ prog[c].got + 1 \in 1 .. Len(out[c])
         /\ \E x \in Units : x = out[c][prog[c].got + 1] /\ ReceiveAs(c, x)
<1>1. prog[c] \in Progs /\ out[c] \in Seq(Units) /\ Len(out[c]) \in Nat
  BY LenProperties DEF ProgsOk, Base, ServerOk
<1>2. prog[c].got \in Nat
  BY <1>1 DEF Progs
<1>3. prog[c].got + 1 \in 1 .. Len(out[c])
  BY <1>1, <1>2 DEF Receive
<1>4. PICK x \in Units : x = out[c][prog[c].got + 1]
  BY <1>1, <1>3, ElementOfSeq
<1>5. Further(prog[c]).entr = prog[c].entr
  BY <1>1 DEF Progs, Further
<1>6. ReceiveAs(c, x)
  BY <1>4, <1>5 DEF Receive, ReceiveAs, EndOfList, Takes, Further
<1> QED
  BY <1>3, <1>4, <1>6 DEF Receive

LEMMA ReceiveDoes ==
  ASSUME Base, ProgsOk, NEW c \in Clients, Receive(c)
  PROVE  \E p \in Progs : Does(c, p)
<1>1. PICK q \in Progs : q = prog[c]
  BY DEF ProgsOk
<1>2. q.pc = "recv"
  BY <1>1, ReceiveCases DEF At
<1>3. link[c] = "up"
  BY <1>1, <1>2 DEF ProgsOk, ProgOk, Linked
<1>4. PICK x \in Units : ReceiveAs(c, x)
  BY ReceiveCases
<1> DEFINE f == Further(q)
<1>5. ASSUME NEW p \in Progs, p.request = q.request, p.pc \in {"recv", "print"},
             Become(c, p), UNCHANGED vars
      PROVE  Does(c, p)
  BY <1>1, <1>3, <1>5 DEF Does, Reckons, Advances
<1>6. /\ q.got \in Nat /\ q.entr \in Seq(Units) /\ q.head \in Seq(Units \cup {Garbled})
      /\ f \in Progs /\ f.request = q.request /\ f.pc = q.pc /\ f.entr = q.entr
      /\ f.head = q.head
  BY FurtherType DEF Progs
<1>12. f = Further(q)
  OBVIOUS
<1> HIDE DEF f
<1>7. CASE x # CRLF /\ Become(c, Takes(q, x)) /\ UNCHANGED vars
  <2>1. PICK e \in Seq(Units) : e = Append(q.entr, x)
    BY <1>6, AppendProperties
  <2>2. Takes(q, x) = [f EXCEPT !.entr = e]
    BY <1>6, <1>12, <2>1 DEF Takes, Progs
  <2>3. Takes(q, x) \in Progs /\ Takes(q, x).request = q.request /\ Takes(q, x).pc = "recv"
    <3>1. [f EXCEPT !.entr = e] \in Progs /\ [f EXCEPT !.entr = e].request = f.request
          /\ [f EXCEPT !.entr = e].pc = f.pc
      BY <1>6 DEF Progs
    <3> QED
      BY <1>2, <1>6, <2>2, <3>1
  <2> QED
    BY <1>5, <1>7, <2>3
<1>8. CASE /\ UNCHANGED vars
           /\ Become(c, [f EXCEPT !.pc = "print", !.ended = "end"])
  <2> DEFINE p == [f EXCEPT !.pc = "print", !.ended = "end"]
  <2>1. p \in Progs /\ p.request = q.request /\ p.pc = "print"
    BY <1>6 DEF Progs, Labelled
  <2> QED
    BY <1>5, <1>8, <2>1
<1>9. CASE Exit(c, [f EXCEPT !.ended = "ERR"], 1)
  <2> DEFINE p == [[f EXCEPT !.ended = "ERR"] EXCEPT !.pc = "exit", !.status = 1]
  <2>1. p \in Progs /\ p.request = q.request /\ p.pc = "exit"
    BY <1>6 DEF Progs, Labelled
  <2>2. Leaves(c, p)
    BY <1>1, <1>3, <1>9, <2>1 DEF Leaves, Advances, Exit, Ends
  <2> QED
    BY <2>1, <2>2 DEF Does
<1>10. CASE Become(c, NextLine(f)) /\ UNCHANGED vars
  <2>1. NextLine(f) \in Progs /\ NextLine(f).request = q.request /\ NextLine(f).pc = "recv"
    BY <1>2, <1>6, EmptySeq DEF NextLine, Progs
  <2> QED
    BY <1>5, <1>10, <2>1
<1>11. CASE q.entr # <<>> /\ Become(c, Stored(f)) /\ UNCHANGED vars
  <2>1. Parsed(q.entr) \in Units \cup {Garbled}
    <3>1. CASE Len(q.entr) = 1
      <4>1. q.entr[1] \in Units
        BY <1>6, <3>1, ElementOfSeq
      <4> QED
        BY <3>1, <4>1 DEF Parsed
    <3>2. CASE Len(q.entr) # 1
      BY <3>2 DEF Parsed
    <3> QED
      BY <3>1, <3>2
  <2>2. PICK h \in Seq(Units \cup {Garbled}) : h = Append(q.head, Parsed(q.entr))
    BY <1>6, <2>1, AppendProperties
  <2>3. PICK g \in Progs : g = [f EXCEPT !.head = h]
    BY <1>6 DEF Progs
  <2>4. g.request = q.request /\ g.pc = "recv"
    BY <1>2, <1>6, <2>3 DEF Progs
  <2>5. Stored(f) = NextLine(g)
    BY <1>6, <2>2, <2>3 DEF Stored, Progs
  <2>6. NextLine(g) \in Progs /\ NextLine(g).request = q.request /\ NextLine(g).pc = "recv"
    BY <2>4, EmptySeq DEF NextLine, Progs
  <2> QED
    BY <1>5, <1>11, <2>5, <2>6
<1> QED
  BY <1>1, <1>4, <1>7, <1>8, <1>9, <1>10, <1>11, <1>12 DEF ReceiveAs

LEMMA EndingDoes ==
  ASSUME ProgsOk, NEW c \in Clients, ReceiveEof(c) \/ ShowList(c)
  PROVE  \E p \in Progs : Does(c, p)
<1>1. PICK q \in Progs : q = prog[c]
  BY DEF ProgsOk
<1>2. q.pc \in {"recv", "print"}
  BY <1>1 DEF ReceiveEof, ShowList, At
<1>3. link[c] = "up"
  BY <1>1, <1>2 DEF ProgsOk, ProgOk, Linked
<1>4. CASE ReceiveEof(c)
  <2> DEFINE p == [q EXCEPT !.pc = "print", !.ended = "eof"]
  <2>1. p \in Progs /\ p.request = q.request /\ p.pc = "print"
    BY DEF Progs, Labelled
  <2>2. Reckons(c, p)
    BY <1>1, <1>3, <1>4, <2>1 DEF Reckons, Advances, ReceiveEof
  <2> QED
    BY <2>1, <2>2 DEF Does
<1>5. CASE Killed(c)
  <2> DEFINE p == [q EXCEPT !.pc = "killed"]
  <2>1. p \in Progs /\ p.request = q.request /\ p.pc = "killed"
    BY DEF Progs, Labelled
  <2>2. Leaves(c, p)
    BY <1>1, <1>3, <1>5, <2>1 DEF Leaves, Advances, Killed, Ends
  <2> QED
    BY <2>1, <2>2 DEF Does
<1>6. CASE Exit(c, [prog[c] EXCEPT !.ret = 0], 0)
  <2> DEFINE p == [[q EXCEPT !.ret = 0] EXCEPT !.pc = "exit", !.status = 0]
  <2>1. p \in Progs /\ p.request = q.request /\ p.pc = "exit"
    BY DEF Progs, Labelled
  <2>2. Leaves(c, p)
    BY <1>1, <1>3, <1>6, <2>1 DEF Leaves, Advances, Exit, Ends
  <2> QED
    BY <2>1, <2>2 DEF Does
<1> QED
  BY <1>4, <1>5, <1>6 DEF ShowList

LEMMA ProgramDoes ==
  ASSUME Base, ProgsOk, NEW c \in Clients, Program(c)
  PROVE  \E p \in Progs : Does(c, p)
BY ConnectDoes, HandshakeDoes, SendDoes, ReceiveDoes, EndingDoes DEF Program

-----------------------------------------------------------------------------
(* What a step of program c leaves alone.                                  *)
Apart(c) ==
  /\ UNCHANGED server /\ closed' = closed /\ out' = out /\ store' = store /\ home' = home
  /\ troubles' = troubles /\ spoilt \subseteq spoilt'
  /\ \A d \in Clients \ {c} : Idles(d)

LEMMA DoesApart ==
  ASSUME Base, ProgsOk, NEW c \in Clients, NEW p \in Progs, Does(c, p)
  PROVE  Apart(c) /\ prog'[c] = p
<1>1. prog'[c] = p /\ \A d \in Clients \ {c} : prog'[d] = prog[d]
  BY DEF Does, Reckons, Dials, Requests, Leaves, Advances, Become, ProgsOk
<1>2. PeersOk
  BY DEF Base
<1>3. CASE Reckons(c, p)
  BY <1>1, <1>3 DEF Reckons, Apart, Idles, vars, peers, disk
<1>4. CASE Dials(c, p)
  BY <1>1, <1>2, <1>4 DEF Dials, Dial, Apart, Idles, PeersOk, disk
<1>5. CASE Requests(c, p)
  BY <1>1, <1>2, <1>5 DEF Requests, Send, Apart, Idles, PeersOk, disk
<1>6. CASE Leaves(c, p)
  BY <1>1, <1>2, <1>6 DEF Leaves, Ends, Apart, Idles, PeersOk, disk
<1> QED
  BY <1>1, <1>3, <1>4, <1>5, <1>6 DEF Does

LEMMA DoesNext ==
  ASSUME ProgsOk, NEW c \in Clients, NEW p \in Progs, Does(c, p), Running
  PROVE  [Next]_vars
<1>1. CASE Reckons(c, p)
  BY <1>1 DEF Reckons
<1>2. CASE Dials(c, p)
  BY <1>2 DEF Dials, Client, Next
<1>3. CASE Requests(c, p)
  <2>1. p.request \in Lines[c]
    BY <1>3 DEF Requests, Advances, ProgsOk, ProgOk
  <2> QED
    BY <1>3, <2>1 DEF Requests, Client, Next
<1>4. CASE Leaves(c, p)
  <2>1. Leave(c)
    BY <1>4 DEF Leaves, Ends, Leave
  <2> QED
    BY <2>1 DEF Client, Next
<1> QED
  BY <1>1, <1>2, <1>3, <1>4 DEF Does

LEMMA DoesDown ==
  ASSUME Base, NEW c \in Clients, NEW p \in Progs, Does(c, p), ~Running
  PROVE  Base'
<1>1. CASE UNCHANGED vars
  BY <1>1, BaseStutters
<1>2. CASE Leaves(c, p)
  <2>1. /\ link' = [link EXCEPT ![c] = "gone"] /\ spoilt' \subseteq spoilt \cup {c}
        /\ lines' = lines /\ in' = in /\ backlog' = backlog /\ out' = out /\ closed' = closed
        /\ pc' = pc /\ serving' = serving /\ job' = job /\ moved' = moved /\ home' = home
        /\ store' = store
    BY <1>2 DEF Leaves, Ends, server, disk
  <2>2. PeersOk'
    BY <2>1 DEF Base, PeersOk
  <2>3. ServerOk'
    BY <2>1 DEF Base, ServerOk
  <2>4. JobOk(job', pc')
    BY <2>1 DEF Base
  <2>5. ~Running'
    BY <2>1 DEF Running
  <2> QED
    BY <2>2, <2>3, <2>4, <2>5 DEF Base
<1> QED
  BY <1>1, <1>2 DEF Does, Reckons, Dials, Dial, Requests, Send

LEMMA DoesProgs ==
  ASSUME Base, ProgsOk, Seen, NEW c \in Clients, NEW p \in Progs, Does(c, p)
  PROVE  ProgsOk'
<1>1. Apart(c) /\ store' \in Stores
  <2>1. store \in Stores
    BY DEF Base, ServerOk
  <2> QED
    BY <2>1, DoesApart DEF Apart
<1>2. PICK q \in Progs : q = prog[c] /\ p.request = q.request
  BY DEF ProgsOk, Does, Reckons, Dials, Requests, Leaves, Advances
<1>3. ProgOk(c)
  BY DEF ProgsOk
<1>4. /\ Become(c, p) /\ p.request = prog[c].request
      /\ \A d \in Clients \ {c} : link'[d] = link[d] /\ lines'[d] = lines[d]
  BY <1>1 DEF Does, Reckons, Dials, Requests, Leaves, Advances, Apart, Idles
<1>5. ASSUME Linked(p.pc, link'[c]), lines'[c] = <<>> \/ lines'[c] = <<p.request>>,
             p.pc \in Unasked => lines'[c] = <<>>
      PROVE  ProgsOk'
  BY <1>1, <1>4, <1>5, ProgsMove
<1>6. PeersOk
  BY DEF Base
<1>7. CASE Reckons(c, p)
  <2>1. link' = link /\ lines' = lines /\ link[c] = "up"
    BY <1>7 DEF Reckons, vars, peers
  <2>2. Linked(p.pc, link'[c])
    BY <1>7, <2>1 DEF Reckons, Linked
  <2>3. p.pc \in Unasked => lines'[c] = <<>>
    BY <1>3, <1>7, <2>1 DEF Reckons, Unasked, ProgOk
  <2> QED
    BY <1>3, <1>4, <1>5, <2>1, <2>2, <2>3 DEF ProgOk
<1>8. CASE Dials(c, p)
  <2>1. link'[c] = "up" /\ lines' = lines /\ q.pc = "connect"
        /\ p = [q EXCEPT !.pc = "handshake"]
    BY <1>2, <1>6, <1>8 DEF Dials, Dial, PeersOk
  <2>2. p.pc = "handshake"
    BY <2>1 DEF Progs
  <2>3. Linked(p.pc, link'[c])
    BY <2>1, <2>2 DEF Linked
  <2>4. lines'[c] = <<>>
    BY <1>2, <1>3, <2>1 DEF ProgOk, Unasked
  <2> QED
    BY <1>5, <2>3, <2>4
<1>9. CASE Requests(c, p)
  <2>1. /\ link[c] = "up" /\ link' = link /\ lines'[c] = Append(lines[c], p.request)
        /\ q.pc = "send" /\ p = [q EXCEPT !.pc = "recv"]
    BY <1>2, <1>6, <1>9 DEF Requests, Send, PeersOk
  <2>2. p.pc = "recv"
    BY <2>1 DEF Progs
  <2>3. Linked(p.pc, link'[c])
    BY <2>1, <2>2 DEF Linked
  <2>4. lines[c] = <<>> /\ Append(<<>>, p.request) = <<p.request>>
    BY <1>2, <1>3, <2>1 DEF ProgOk, Unasked
  <2>5. p.pc \notin Unasked
    BY <2>2 DEF Unasked
  <2> QED
    BY <1>5, <2>1, <2>3, <2>4, <2>5
<1>10. CASE Leaves(c, p)
  <2>1. link'[c] = "gone" /\ lines' = lines /\ p.pc \in {"exit", "killed"}
    BY <1>6, <1>10 DEF Leaves, Ends, PeersOk
  <2>2. Linked(p.pc, link'[c]) /\ p.pc \notin Unasked
    BY <2>1 DEF Linked, Unasked
  <2> QED
    BY <1>3, <1>4, <1>5, <2>1, <2>2 DEF ProgOk
<1> QED
  BY <1>7, <1>8, <1>9, <1>10 DEF Does

LEMMA DoesAttended ==
  ASSUME Base, Attended, ProgsOk, NEW c \in Clients, NEW p \in Progs, Does(c, p)
  PROVE  Attended'
<1>1. Apart(c)
  BY DoesApart
<1>2. PeersOk
  BY DEF Base
<1>3. ASSUME Running => Accepted' \subseteq Accepted,
             link'[c] = "up" => link[c] = "up" \/ c # serving,
             lines'[c] = <<>> => lines[c] = <<>>
      PROVE  Attended'
  <2>1. UNCHANGED <<closed, server>> /\ spoilt \subseteq spoilt'
    BY <1>1 DEF Apart
  <2>2. /\ \A d \in Clients : link'[d] = "up" => link[d] = "up" \/ d # serving
        /\ \A d \in Clients : lines'[d] = <<>> => lines[d] = <<>>
    BY <1>1, <1>3 DEF Apart, Idles
  <2> QED
    BY <1>3, <2>1, <2>2, AttendedStays
<1>4. CASE Reckons(c, p)
  <2>1. link' = link /\ lines' = lines /\ backlog' = backlog
    BY <1>4 DEF Reckons, vars, peers
  <2> QED
    BY <1>3, <2>1 DEF Accepted
<1>5. CASE Dials(c, p)
  <2>1. /\ link[c] = "away" /\ link' = [link EXCEPT ![c] = "up"] /\ lines' = lines
        /\ backlog' = Append(backlog, c) /\ Running
    BY <1>5 DEF Dials, Dial
  <2>2. c # serving
    BY <2>1 DEF Base, Connected, Quiet
  <2>3. ToSet(backlog') = ToSet(backlog) \cup {c}
    BY <1>2, <2>1, SetAppend DEF PeersOk
  <2>4. Accepted' \subseteq Accepted
    BY <1>2, <2>1, <2>3 DEF Accepted, PeersOk
  <2> QED
    BY <1>3, <2>1, <2>2, <2>4
<1>6. CASE Requests(c, p)
  <2>1. /\ link' = link /\ backlog' = backlog /\ lines'[c] = Append(lines[c], p.request)
    BY <1>2, <1>6 DEF Requests, Send, PeersOk
  <2>2. lines'[c] # <<>>
    <3>1. lines[c] = <<>>
      BY <1>6 DEF Requests, ProgsOk, ProgOk, Unasked
    <3> QED
      BY <2>1, <3>1
  <2>3. Accepted' = Accepted
    BY <2>1 DEF Accepted
  <2> QED
    BY <1>3, <2>1, <2>2, <2>3
<1>7. CASE Leaves(c, p)
  <2>1. /\ link' = [link EXCEPT ![c] = "gone"] /\ lines' = lines /\ backlog' = backlog
        /\ link[c] = "up" \/ ~Running
    BY <1>7 DEF Leaves, Ends
  <2>2. link'[c] = "gone"
    BY <1>2, <2>1 DEF PeersOk
  <2>3. Running => Accepted' \subseteq Accepted
    BY <1>2, <2>1 DEF Accepted, PeersOk
  <2> QED
    BY <1>3, <2>1, <2>2, <2>3
<1> QED
  BY <1>4, <1>5, <1>6, <1>7 DEF Does

(* What a step is of the server's.                                         *)
LEMMA DoesUnderstood ==
  ASSUME IInv, ProgsOk, NEW c \in Clients, NEW p \in Progs, Does(c, p)
  PROVE  IInv' /\ (Running' <=> Running)
<1>1. Running' <=> Running
  BY DoesApart DEF Apart, server, Running, IInv
<1>2. CASE Running
  <2>1. [Next]_vars
    BY <1>2, DoesNext
  <2> QED
    BY <1>1, <2>1, BaseKeeps, EveryStepServes DEF IInv, Served
<1>3. CASE ~Running
  BY <1>1, <1>3, DoesDown DEF IInv
<1> QED
  BY <1>1, <1>2, <1>3

LEMMA OthersKnow ==
  ASSUME IInv, ProgsOk, Seen, NEW c \in Clients, NEW p \in Progs, Does(c, p),
         NEW d \in Clients \ {c}, d \notin spoilt', Knows(d)
  PROVE  Knows(d)'
<1>1. Base /\ IInv' /\ Base' /\ (Running' <=> Running) /\ ProgsOk'
  BY DoesUnderstood, DoesProgs DEF IInv
<1>2. Apart(c)
  BY <1>1, DoesApart
<1>3. Idles(d) /\ out'[d] = out[d] /\ d \notin spoilt
  BY <1>2 DEF Apart
<1>4. Longer(d)
  BY <1>1, <1>3, SameLonger
<1>5. ASSUME link[d] # "gone" PROVE Onward(d)
  <2>1. CASE Running
    <3>1. [Next]_vars
      BY <2>1, DoesNext
    <3>2. lines'[d] = lines[d] /\ prog'[d].request = prog[d].request
      BY <1>3 DEF Idles
    <3> QED
      BY <1>1, <1>3, <1>5, <2>1, <3>1, <3>2, OnwardNext
  <2>2. CASE ~Running
    BY <1>1, <1>3, <2>2, OnwardDown
  <2> QED
    BY <2>1, <2>2
<1> QED
  BY <1>1, <1>3, <1>4, <1>5, KnowsOn

-----------------------------------------------------------------------------
(***************************************************************************)
(* Where the server is when a program has read what it owes it.            *)
(***************************************************************************)
LEMMA NothingAsked ==
  ASSUME IInv, Running, NEW c \in Clients, c \notin spoilt, NEW R, Story(c, R),
         lines[c] = <<>>
  PROVE  R = <<>> /\ NumRead(c) = 0 /\ in[c] = <<>>
<1>1. Understood(c)
  BY DEF IInv, Understands
<1>2. Len(lines[c]) = 0
  <2>1. Len(<<>>) = 0
    OBVIOUS
  <2> QED
    BY <2>1
<1>3. NumRead(c) = 0
  <2>1. NumRead(c) \in 0 .. Len(lines[c])
    BY <1>1 DEF Understood
  <2> QED
    BY <1>2, <2>1
<1>4. R = <<>>
  <2>1. Given(c) = NumRead(c) - (IF Answering(c) THEN 1 ELSE 0)
    BY DEF Given, NumRead
  <2>2. Given(c) # 1
    BY <1>3, <2>1
  <2> QED
    BY <2>2 DEF Story, Standing
<1>5. in[c] = <<>>
  <2>1. SubSeq(lines[c], NumRead(c) + 1, Len(lines[c])) = <<>>
    BY <1>2, <1>3, SubSeqEmpty
  <2> QED
    BY <1>1, <2>1, SentEmpty DEF Understood
<1> QED
  BY <1>3, <1>4, <1>5

(* The server only hangs up on who was answered ERR.                       *)
LEMMA ClosedErr ==
  ASSUME IInv, Running, NEW c \in Clients, NEW R, Story(c, R), c \in closed
  PROVE  R = ErrMsg /\ c # serving /\ c \in Accepted
<1>1. Base /\ Connected
  BY DEF IInv, Base
<1>2. c \in Accepted
  BY <1>1, NotAccepted
<1>3. c # serving
  BY <1>1 DEF Connected
<1> QED
  BY <1>2, <1>3 DEF Story, Standing

LEMMA SendingOwes ==
  ASSUME Base, pc = "send"
  PROVE  Owes(job.todo) # <<>>
<1>1. JobOk(job, "send")
  BY DEF Base
<1>2. PICK todo \in Seq(Messages) : todo = job.todo /\ todo # <<>>
  BY <1>1 DEF JobOk, Jobs
<1>3. Head(todo) \in Messages /\ Tail(todo) \in Seq(Messages)
  BY <1>2, HeadTailProperties
<1>4. PICK m \in Seq(Units) \ {<<>>} : m = Head(todo).msg
  BY <1>3 DEF Messages
<1>5. PICK r \in Seq(Units) : r = Owes(Tail(todo))
  BY <1>3, OwesType
<1>6. Len(m) > 0
  BY <1>4, EmptySeq, LenProperties
<1>7. Len(m \o r) = Len(m) + Len(r) /\ Len(r) \in Nat /\ Len(m) \in Nat
  BY ConcatProperties, LenProperties
<1>8. m \o r # <<>>
  BY <1>6, <1>7
<1>9. Owes(todo) = m \o r
  BY <1>2, <1>4, <1>5, OwesNext
<1> QED
  BY <1>2, <1>8, <1>9

LEMMA AllSent ==
  ASSUME Base, NEW c \in Clients, Len(out[c]) >= Len(Told(c))
  PROVE  Owed(c) = <<>> /\ (c = serving => pc # "send")
<1>1. PICK a \in Seq(Units) : a = out[c]
  BY ToldType
<1>2. PICK b \in Seq(Units) : b = Owed(c)
  BY ToldType
<1>3. Len(a \o b) = Len(a) + Len(b) /\ Len(a) \in Nat /\ Len(b) \in Nat
  BY ConcatProperties, LenProperties
<1>4. Len(a) >= Len(a \o b)
  BY <1>1, <1>2 DEF Told
<1>5. Len(b) = 0
  BY <1>3, <1>4
<1>6. Owed(c) = <<>>
  BY <1>2, <1>5, EmptySeq
<1> QED
  BY <1>6, SendingOwes, OwedServing

LEMMA ServingBusy ==
  ASSUME Base, serving \in Clients
  PROVE  pc \in Busy
BY ServerAssumption DEF Base, ServerOk, Labels, Busy

(* Who was greeted and has not asked can leave.                            *)
LEMMA GreetedSettled ==
  ASSUME IInv, Attended, Running, NEW c \in Clients, c \notin spoilt, link[c] = "up",
         NEW R, Story(c, R), lines[c] = <<>>, out[c] # <<>>
  PROVE  Settled(c)
<1>1. Base
  BY DEF IInv
<1>2. R = <<>> /\ NumRead(c) = 0 /\ in[c] = <<>>
  BY NothingAsked
<1>3. c \in Accepted
  BY <1>1, NotAccepted
<1>4. c = serving
  <2>1. ErrMsg # <<>>
    BY UnitsType
  <2> QED
    BY <1>2, <1>3, <2>1 DEF Story, Standing
<1>5. pc \in Busy
  BY <1>1, <1>4, ServingBusy
<1>6. pc \notin {"exec", "md5", "list"}
  <2>1. Understanding
    BY <1>4 DEF IInv, Understands
  <2> QED
    BY <1>2, <1>4, <2>1 DEF Understanding
<1>7. pc # "send"
  <2> SUFFICES ASSUME pc = "send" PROVE FALSE
    OBVIOUS
  <2>1. job.todo = <<Message(AckMsg)>>
    BY <1>4 DEF Attended, Greeting
  <2>2. Owes(job.todo) = AckMsg
    BY <2>1, OneMessage, UnitsType
  <2>3. Owed(c) = AckMsg
    BY <1>4, <2>2, OwedServing
  <2>4. Told(c) = AckMsg
    <3>1. Told(c) = AckMsg \o R
      BY <1>3 DEF Story, Transcript
    <3> QED
      BY <1>2, <3>1, AckUnits, ConcatEmptySeq
  <2>5. PICK a \in Seq(Units) : a = out[c]
    BY <1>1, ToldType
  <2>6. Len(a \o AckMsg) = Len(a) + Len(AckMsg) /\ Len(a) \in Nat
    BY AckUnits, ConcatProperties, LenProperties
  <2>7. a \o AckMsg = AckMsg
    BY <2>3, <2>4, <2>5 DEF Told
  <2>8. Len(a) = 0
    BY <2>6, <2>7, AckUnits
  <2> QED
    BY <2>5, <2>8, EmptySeq
<1> QED
  BY <1>2, <1>4, <1>5, <1>6, <1>7 DEF Busy, Settled

(* Who has the whole of its reply can leave.                               *)
LEMMA RepliedSettled ==
  ASSUME IInv, Attended, ProgsOk, Running, NEW c \in Clients, c \notin spoilt,
         NEW R \in Seq(Units), R # <<>>, Story(c, R), Len(out[c]) >= Len(AckMsg \o R)
  PROVE  Settled(c)
<1>1. Base /\ Understood(c)
  BY DEF IInv, Understands
<1>2. Transcript(c, R) /\ Standing(c, R) /\ Given(c) = 1
  BY DEF Story, Standing
<1>3. c \in Accepted
  BY <1>1, <1>2, NotAccepted
<1>4. Told(c) = AckMsg \o R
  BY <1>2, <1>3 DEF Transcript
<1>5. c = serving => pc # "send"
  BY <1>1, <1>4, AllSent
<1>6. CASE c # serving
  BY <1>3, <1>6 DEF Attended, Settled
<1>7. CASE c = serving
  <2>1. pc \in Busy
    BY <1>1, <1>7, ServingBusy
  <2>2. NumRead(c) \in 0 .. Len(lines[c]) /\ Len(lines[c]) \in {0, 1}
    <3>1. Len(<<>>) = 0 /\ Len(<<prog[c].request>>) = 1
      OBVIOUS
    <3> QED
      BY <1>1, <3>1 DEF Understood, ProgsOk, ProgOk
  <2>3. Given(c) = NumRead(c) - (IF Answering(c) THEN 1 ELSE 0)
    BY DEF Given, NumRead
  <2>4. ~Answering(c)
    <3> SUFFICES ASSUME Answering(c) PROVE FALSE
      OBVIOUS
    <3>1. NumRead(c) - 1 = 1
      BY <1>2, <2>3
    <3>2. NumRead(c) \in {0, 1}
      <4>1. CASE Len(lines[c]) = 0
        BY <2>2, <4>1
      <4>2. CASE Len(lines[c]) = 1
        BY <2>2, <4>2
      <4> QED
        BY <2>2, <4>1, <4>2
    <3> QED
      BY <3>1, <3>2
  <2>5. NumRead(c) = 1
    <3>1. NumRead(c) - 0 = 1
      BY <1>2, <2>3, <2>4
    <3> QED
      BY <2>2, <3>1
  <2>6. pc = "read"
    BY <1>5, <1>7, <2>1, <2>4 DEF Busy, Answering
  <2>7. Len(lines[c]) = 1
    BY <2>2, <2>5
  <2>8. in[c] = <<>>
    <3>1. SubSeq(lines[c], NumRead(c) + 1, Len(lines[c])) = <<>>
      BY <2>5, <2>7, SubSeqEmpty
    <3> QED
      BY <1>1, <3>1, SentEmpty DEF Understood
  <2> QED
    BY <1>7, <2>6, <2>8 DEF Settled
<1> QED
  BY <1>6, <1>7

(* While the server runs, nobody sees the end of file before the end of    *)
(* its reply.                                                              *)
LEMMA EofAfterReply ==
  ASSUME IInv, Running, NEW c \in Clients, c \in closed, NEW R, Story(c, R),
         NEW p, p.got = Len(out[c]), NEW L \in SUBSET Seq(Items), Reading(p, L, R)
  PROVE  FALSE
<1>1. Base
  BY DEF IInv
<1>2. R = ErrMsg /\ c # serving /\ c \in Accepted
  BY ClosedErr
<1>3. Len(out[c]) = 4
  <2>1. Owed(c) = <<>>
    BY <1>2 DEF Owed
  <2>2. PICK a \in Seq(Units) : a = out[c]
    BY <1>1, ToldType
  <2>3. a \o <<>> = a
    BY ConcatEmptySeq
  <2>4. Told(c) = a
    BY <2>1, <2>2, <2>3 DEF Told
  <2>5. a = AckMsg \o ErrMsg
    BY <1>2, <2>4 DEF Story, Transcript
  <2>6. Len(AckMsg \o ErrMsg) = 4
    BY AckUnits, AfterGreeting
  <2> QED
    BY <2>2, <2>5, <2>6
<1>4. ~AtStart(p) /\ ~AtStatus(p, R)
  BY <1>3 DEF AtStart, AtStatus
<1>5. ASSUME NEW items \in L, R = ListReply(items) PROVE FALSE
  <2>1. ListReply(items)[1] = Word("OK")
    BY ListReplyUnits
  <2>2. ErrMsg[1] = Word("ERR")
    BY AckUnits
  <2> QED
    BY <1>2, <1>5, <2>1, <2>2, UnitsDiffer
<1> QED
  BY <1>4, <1>5 DEF Reading

-----------------------------------------------------------------------------
(***************************************************************************)
(* A program goes on knowing.                                              *)
(***************************************************************************)
LEMMA LeavesKnows ==
  ASSUME Base, ProgsOk, Seen, NEW c \in Clients, NEW p, Ends(c, p),
         p.request = prog[c].request, Finished(p, Listings(c)),
         p.pc = "killed" => ~Running \/ <<>> \in Listings(c)
  PROVE  Knows(c)'
<1>1. /\ prog'[c] = p /\ link'[c] = "gone" /\ lines' = lines /\ (Running' <=> Running)
  BY DEF Ends, Become, ProgsOk, Base, PeersOk, server, Running
<1>2. Listings(c) \subseteq Listings(c)'
  BY <1>1, ListingsGrow
<1>3. PICK M : M = Listings(c)'
  OBVIOUS
<1>4. Finished(p, M)
  BY <1>2, <1>3 DEF Finished, Begun
<1>5. p.pc = "killed" => ~Running' \/ <<>> \in M
  BY <1>1, <1>2, <1>3
<1>6. Ended(c)'
  BY <1>1, <1>3, <1>4, <1>5 DEF Ended
<1> QED
  BY <1>1, <1>6 DEF Knows

LEMMA ReckonsKnows ==
  ASSUME ProgsOk, ProgsOk', Seen, NEW c \in Clients, NEW p, Become(c, p), UNCHANGED vars,
         p.request = prog[c].request, link[c] # "gone", NEW R \in Replies(Listings(c)),
         Story(c, R), Reads(p, Listings(c), R), p.got <= Len(out[c]),
         p.ended = "eof" => ~Running
  PROVE  Knows(c)'
<1>1. /\ prog'[c] = p /\ link' = link /\ lines' = lines /\ out' = out
      /\ (Running' <=> Running)
  BY DEF Become, ProgsOk, vars, peers, server, Running
<1>2. Listings(c) \subseteq Listings(c)' /\ Listings(c) \in SUBSET Seq(Items)
  BY <1>1, ListingsGrow, ListingsAre
<1>3. PICK M : M = Listings(c)'
  OBVIOUS
<1>4. M \in SUBSET Seq(Items)
  BY <1>3, ListingsNext
<1>5. Reads(p, M, R) /\ R \in Replies(M)
  BY <1>2, <1>3, <1>4, ReadsOn, RepliesGrow
<1>6. Story(c, R)'
  BY StoryUnchanged
<1>7. Behind(c)'
  BY <1>1 DEF Behind
<1> QED
  BY <1>1, <1>3, <1>5, <1>6, <1>7 DEF Knows

LEMMA ConnectKnows ==
  ASSUME IInv, IInv', ProgsOk, ProgsOk', Seen, NEW c \in Clients, c \notin spoilt,
         c \notin spoilt', Knows(c), Connect(c)
  PROVE  Knows(c)'
<1>1. PICK q \in Progs : q = prog[c]
  BY DEF ProgsOk
<1>2. q.pc = "connect" /\ link[c] = "away"
  BY <1>1 DEF Connect, At, ProgsOk, ProgOk, Linked
<1>3. PICK L : L = Listings(c)
  OBVIOUS
<1>4. PICK R \in Replies(L) : Story(c, R) /\ Reads(q, L, R)
  BY <1>1, <1>2, <1>3 DEF Knows
<1>5. q.got = 0 /\ q.entr = <<>> /\ q.head = <<>> /\ q.ended = "no"
  BY <1>2, <1>4 DEF Reads
<1>6. Base
  BY DEF IInv
<1>7. CASE Dial(c) /\ Goto(c, "handshake")
  <2>1. PICK p : p = [q EXCEPT !.pc = "handshake"]
    OBVIOUS
  <2>2. /\ p.pc = "handshake" /\ p.got = 0 /\ p.entr = <<>> /\ p.head = <<>>
        /\ p.ended = "no" /\ p.request = q.request
    BY <1>5, <2>1 DEF Progs
  <2>3. prog'[c] = p
    BY <1>1, <1>7, <2>1 DEF Goto, Become, ProgsOk
  <2>4. Running /\ [Next]_vars /\ lines' = lines /\ link'[c] = "up"
    BY <1>6, <1>7 DEF Dial, Client, Next, Base, PeersOk
  <2>5. Onward(c)
    BY <1>1, <1>2, <2>2, <2>3, <2>4, OnwardNext
  <2>6. PICK M : M = Listings(c)'
    OBVIOUS
  <2>7. PICK R2 \in Replies(M) : Story(c, R2)'
    BY <1>3, <1>4, <2>5, <2>6 DEF Onward
  <2>8. Reads(p, M, R2)
    BY <2>2 DEF Reads
  <2>9. Behind(c)'
    BY <2>2, <2>3 DEF Behind
  <2> QED
    BY <2>3, <2>4, <2>6, <2>7, <2>8, <2>9 DEF Knows
<1>8. CASE Exit(c, prog[c], 0)
  <2>1. PICK p : p = [q EXCEPT !.pc = "exit", !.status = 0]
    OBVIOUS
  <2>2. p.pc = "exit" /\ p.ended = "no" /\ p.request = q.request
    BY <1>5, <2>1 DEF Progs
  <2>3. Ends(c, p)
    BY <1>1, <1>8, <2>1 DEF Exit
  <2>4. Finished(p, Listings(c))
    BY <2>2 DEF Finished
  <2> QED
    BY <1>1, <1>6, <2>2, <2>3, <2>4, LeavesKnows
<1> QED
  BY <1>7, <1>8 DEF Connect

LEMMA HandshakeKnows ==
  ASSUME IInv, ProgsOk, ProgsOk', Seen, NEW c \in Clients, Knows(c), Handshake(c)
  PROVE  Knows(c)'
<1>1. PICK q \in Progs : q = prog[c]
  BY DEF ProgsOk
<1>2. Base
  BY DEF IInv
<1>3. q.pc = "handshake" /\ link[c] = "up"
  BY <1>1, <1>2, HandshakeCases DEF At, ProgsOk, ProgOk, Linked
<1>4. PICK R \in Replies(Listings(c)) : Story(c, R) /\ Reads(q, Listings(c), R)
  BY <1>1, <1>3 DEF Knows
<1>5. q.got = 0 /\ q.entr = <<>> /\ q.head = <<>> /\ q.ended = "no"
  BY <1>3, <1>4 DEF Reads
<1>6. CASE /\ \E n \in 1 .. Len(out[c]) - q.got : n >= 2
           /\ Become(c, [q EXCEPT !.pc = "send", !.got = q.got + 2]) /\ UNCHANGED vars
  <2>1. PICK p : p = [q EXCEPT !.pc = "send", !.got = q.got + 2]
    OBVIOUS
  <2>2. /\ p.pc = "send" /\ p.got = 2 /\ p.entr = <<>> /\ p.head = <<>>
        /\ p.ended = "no" /\ p.request = q.request
    <3>1. q.got + 2 = 2
      BY <1>5
    <3> QED
      BY <1>5, <2>1, <3>1 DEF Progs
  <2>3. Reads(p, Listings(c), R)
    BY <2>2 DEF Reads, AtStart
  <2>4. p.got <= Len(out[c])
    <3>1. Len(out[c]) \in Nat
      BY <1>2, LenProperties DEF Base, ServerOk
    <3> QED
      BY <1>5, <1>6, <2>2, <3>1
  <2>5. Become(c, p) /\ UNCHANGED vars
    BY <1>6, <2>1
  <2> QED
    BY <1>1, <1>3, <1>4, <2>2, <2>3, <2>4, <2>5, ReckonsKnows
<1>7. CASE Exit(c, q, 0)
  <2>1. PICK p : p = [q EXCEPT !.pc = "exit", !.status = 0]
    OBVIOUS
  <2>2. p.pc = "exit" /\ p.ended = "no" /\ p.request = q.request
    BY <1>5, <2>1 DEF Progs
  <2>3. Ends(c, p)
    BY <1>7, <2>1 DEF Exit
  <2>4. Finished(p, Listings(c))
    BY <2>2 DEF Finished
  <2> QED
    BY <1>1, <1>2, <2>2, <2>3, <2>4, LeavesKnows
<1>8. PICK n \in (IF AtEof(c) THEN {0} ELSE {}) \cup 1 .. Len(out[c]) - q.got :
        \/ /\ n >= 2 /\ UNCHANGED vars
           /\ Become(c, [q EXCEPT !.pc = "send", !.got = q.got + 2])
        \/ Exit(c, q, 0)
  BY <1>1, <1>2, HandshakeCases
<1>9. n >= 2 => n \in 1 .. Len(out[c]) - q.got
  BY <1>8
<1> QED
  BY <1>6, <1>7, <1>8, <1>9

LEMMA SendKnows ==
  ASSUME IInv, IInv', ProgsOk, ProgsOk', Seen, NEW c \in Clients, c \notin spoilt,
         c \notin spoilt', Knows(c), SendRequest(c)
  PROVE  Knows(c)'
<1>1. PICK q \in Progs : q = prog[c]
  BY DEF ProgsOk
<1>2. Base
  BY DEF IInv
<1>3. q.pc = "send" /\ link[c] = "up" /\ lines[c] = <<>>
  BY <1>1 DEF SendRequest, At, ProgsOk, ProgOk, Linked, Unasked
<1>4. PICK R \in Replies(Listings(c)) : Story(c, R) /\ Reads(q, Listings(c), R)
  BY <1>1, <1>3 DEF Knows
<1>5. AtStart(q) /\ q.ended = "no" /\ q.got <= Len(out[c])
  BY <1>1, <1>3, <1>4 DEF Reads, Knows, Behind
<1>6. PICK p : p = [q EXCEPT !.pc = "recv"]
  OBVIOUS
<1>7. /\ p.pc = "recv" /\ AtStart(p) /\ p.got = q.got /\ p.ended = "no"
      /\ p.request = q.request
  BY <1>5, <1>6 DEF Progs, AtStart
<1>8. \A M, S : Reads(p, M, S)
  BY <1>7 DEF Reads, Reading
<1>9. CASE Goto(c, "recv") /\ UNCHANGED vars
  <2>1. Become(c, p) /\ UNCHANGED vars
    BY <1>1, <1>6, <1>9 DEF Goto
  <2>2. Reads(p, Listings(c), R) /\ p.got <= Len(out[c])
    BY <1>5, <1>7, <1>8
  <2> QED
    BY <1>1, <1>3, <1>4, <1>7, <2>1, <2>2, ReckonsKnows
<1>10. CASE Send(c, prog[c].request) /\ Goto(c, "recv")
  <2>1. prog'[c] = p
    BY <1>1, <1>6, <1>10 DEF Goto, Become, ProgsOk
  <2>2. PICK line \in Lines[c] : line = q.request
    BY <1>1 DEF ProgsOk, ProgOk
  <2>3. Running /\ link' = link /\ out' = out /\ [Next]_vars
    BY <1>1, <1>10, <2>2 DEF Send, Client, Next
  <2>4. R = <<>>
    BY <1>3, <1>4, <2>3, NothingAsked
  <2>5. Requested(c, line) /\ c \notin Left /\ lines[c] # <<line>>
    BY <1>3 DEF Requested, Left
  <2>6. PICK L : L = Listings(c) /\ L \in SUBSET Seq(Items)
    BY ListingsAre
  <2>7. PICK M \in SUBSET Seq(Items) : M = Listings(c)'
    BY ListingsNext
  <2>8. PICK R2 \in Replies(M) : Story(c, R2)'
    <3>1. R \in Replies(L) /\ Story(c, R)
      BY <1>4, <2>6
    <3> QED
      BY <2>3, <2>4, <2>5, <2>6, <2>7, <3>1, StoryStep
  <2>9. Behind(c)'
    BY <1>5, <1>7, <2>1, <2>3 DEF Behind
  <2> QED
    BY <1>3, <1>8, <2>1, <2>3, <2>7, <2>8, <2>9 DEF Knows
<1>11. CASE c \in closed /\ Killed(c)
  <2>1. ~Running
    <3> SUFFICES ASSUME Running PROVE FALSE
      OBVIOUS
    <3>1. R = ErrMsg
      BY <1>4, <1>11, ClosedErr
    <3>2. R = <<>>
      BY <1>3, <1>4, NothingAsked
    <3> QED
      BY <3>1, <3>2, UnitsType
  <2>2. PICK d : d = [q EXCEPT !.pc = "killed"]
    OBVIOUS
  <2>3. d.pc = "killed" /\ d.request = q.request
    BY <2>2 DEF Progs
  <2>4. Ends(c, d)
    BY <1>1, <1>11, <2>2 DEF Killed
  <2>5. Finished(d, Listings(c))
    BY <2>3 DEF Finished
  <2> QED
    BY <1>1, <1>2, <2>1, <2>3, <2>4, <2>5, LeavesKnows
<1> QED
  BY <1>9, <1>10, <1>11 DEF SendRequest

(* The unit that a program reads.                                          *)
LEMMA UnitRead ==
  ASSUME Base, NEW c \in Clients, NEW q \in Progs, NEW R \in Seq(Units), Story(c, R),
         q.got + 1 \in 1 .. Len(out[c])
  PROVE  /\ q.got < Len(AckMsg \o R) /\ out[c][q.got + 1] = ComesNext(R, q)
         /\ q.got + 1 = Len(AckMsg \o R) => Len(out[c]) >= Len(AckMsg \o R)
<1>1. PICK a \in Seq(Units) : a = out[c]
  BY ToldType
<1>2. PICK b \in Seq(Units) : b = AckMsg \o R
  BY AfterGreeting
<1>3. IsPrefix(a, b)
  BY <1>1, <1>2, StoryOut
<1>4. /\ Len(a) <= Len(b) /\ Len(a) \in Nat /\ Len(b) \in Nat
      /\ \A i \in 1 .. Len(a) : a[i] = b[i]
  BY <1>3, PrefixUnits
<1>5. q.got \in Nat
  BY DEF Progs
<1>6. q.got < Len(b)
  BY <1>1, <1>4, <1>5
<1>7. a[q.got + 1] = b[q.got + 1]
  BY <1>1, <1>4
<1>8. q.got + 1 = Len(b) => Len(a) >= Len(b)
  BY <1>1, <1>4, <1>5
<1> QED
  BY <1>1, <1>2, <1>6, <1>7, <1>8 DEF ComesNext

LEMMA ReceiveKnows ==
  ASSUME IInv, ProgsOk, ProgsOk', Seen, NEW c \in Clients, Knows(c), Receive(c)
  PROVE  Knows(c)'
<1>1. PICK q \in Progs : q = prog[c]
  BY DEF ProgsOk
<1>2. Base
  BY DEF IInv
<1>3. q.pc = "recv" /\ link[c] = "up" /\ q.got + 1 \in 1 .. Len(out[c])
  BY <1>1, <1>2, ReceiveCases DEF At, ProgsOk, ProgOk, Linked
<1>4. PICK L \in SUBSET Seq(Items) : L = Listings(c)
  BY ListingsAre
<1>5. PICK R \in Replies(L) : Story(c, R) /\ Reads(q, L, R)
  BY <1>1, <1>3, <1>4 DEF Knows
<1>6. R \in Seq(Units)
  BY RepliesType
<1>7. q.ended = "no" /\ Reading(q, L, R)
  BY <1>3, <1>5 DEF Reads
<1>8. PICK x \in Units : x = out[c][q.got + 1] /\ ReceiveAs(c, x)
  BY <1>1, <1>2, ReceiveCases
<1>9. Reaction(q, L, R, x)
  <2>1. q.got < Len(AckMsg \o R) /\ x = ComesNext(R, q)
    BY <1>2, <1>3, <1>5, <1>6, <1>8, UnitRead
  <2> QED
    BY <1>7, <2>1, ReadsOneMore
<1>10. PICK f \in Progs : f = Further(q)
  BY FurtherType
<1>11. /\ f.request = q.request /\ f.pc = "recv" /\ f.got = q.got + 1
       /\ f.entr = q.entr /\ f.head = q.head /\ f.ended = "no"
  BY <1>3, <1>7, <1>10, FurtherType
<1>12. f.got <= Len(out[c])
  <2>1. Len(out[c]) \in Nat /\ q.got \in Nat
    BY <1>2, LenProperties DEF Base, ServerOk, Progs
  <2> QED
    BY <1>3, <1>11, <2>1
<1>13. ASSUME NEW p, Become(c, p), UNCHANGED vars, p.request = q.request, p.got = f.got,
              p.pc = "recv", p.ended = "no", Reading(p, L, R)
       PROVE  Knows(c)'
  <2>1. Reads(p, L, R)
    BY <1>13 DEF Reads
  <2> QED
    BY <1>1, <1>3, <1>4, <1>5, <1>12, <1>13, <2>1, ReckonsKnows
<1>14. CASE x # CRLF /\ Become(c, Takes(q, x)) /\ UNCHANGED vars
  <2>1. PICK p : p = Takes(q, x)
    OBVIOUS
  <2>2. Reading(p, L, R)
    BY <1>9, <1>14, <2>1 DEF Reaction
  <2>3. p = [f EXCEPT !.entr = Append(f.entr, x)]
    BY <1>10, <2>1 DEF Takes, Progs
  <2>4. p.request = f.request /\ p.got = f.got /\ p.pc = f.pc /\ p.ended = f.ended
    BY <2>3 DEF Progs
  <2> QED
    BY <1>11, <1>13, <1>14, <2>1, <2>2, <2>4
<1>15. CASE /\ x = CRLF /\ q.entr = <<>> /\ UNCHANGED vars
            /\ Become(c, [f EXCEPT !.pc = "print", !.ended = "end"])
  <2>1. PICK p : p = [f EXCEPT !.pc = "print", !.ended = "end"]
    OBVIOUS
  <2>2. /\ p.pc = "print" /\ p.ended = "end" /\ p.head = q.head /\ p.got = f.got
        /\ p.request = q.request
    BY <1>11, <2>1 DEF Progs
  <2>3. q.head \in L /\ R = ListReply(q.head) /\ q.got + 1 = Len(AckMsg \o R)
    BY <1>9, <1>15 DEF Reaction
  <2>4. HasRead(p, L, R)
    BY <1>11, <2>2, <2>3 DEF HasRead
  <2>5. Reads(p, L, R)
    BY <2>2, <2>4 DEF Reads
  <2>6. p.got <= Len(out[c])
    BY <1>12, <2>2
  <2>7. Become(c, p) /\ UNCHANGED vars /\ p.ended # "eof"
    BY <1>15, <2>1, <2>2
  <2> QED
    BY <1>1, <1>3, <1>4, <1>5, <2>2, <2>5, <2>6, <2>7, ReckonsKnows
<1>16. CASE Exit(c, [f EXCEPT !.ended = "ERR"], 1)
  <2>1. PICK p : p = [[f EXCEPT !.ended = "ERR"] EXCEPT !.pc = "exit", !.status = 1]
    OBVIOUS
  <2>2. p.pc = "exit" /\ p.ended = "ERR" /\ p.request = q.request
    BY <1>11, <2>1 DEF Progs
  <2>3. Ends(c, p)
    BY <1>16, <2>1 DEF Exit
  <2>4. Finished(p, Listings(c))
    BY <2>2 DEF Finished
  <2> QED
    BY <1>1, <1>2, <2>2, <2>3, <2>4, LeavesKnows
<1>17. CASE /\ x = CRLF /\ q.entr # <<>> /\ q.entr[1] = Word("OK")
            /\ Become(c, NextLine(f)) /\ UNCHANGED vars
  <2>1. PICK p : p = NextLine(f)
    OBVIOUS
  <2>2. Reading(p, L, R)
    BY <1>9, <1>10, <1>17, <2>1 DEF Reaction
  <2>3. p.request = f.request /\ p.got = f.got /\ p.pc = f.pc /\ p.ended = f.ended
    BY <2>1 DEF Progs, NextLine
  <2> QED
    BY <1>11, <1>13, <1>17, <2>1, <2>2, <2>3
<1>18. CASE /\ x = CRLF /\ q.entr # <<>> /\ q.entr[1].kind \in {"file", "dir"}
            /\ Become(c, Stored(f)) /\ UNCHANGED vars
  <2>1. PICK p : p = Stored(f)
    OBVIOUS
  <2>2. Reading(p, L, R)
    BY <1>9, <1>10, <1>18, <2>1 DEF Reaction
  <2>3. p.request = f.request /\ p.got = f.got /\ p.pc = f.pc /\ p.ended = f.ended
    BY <2>1 DEF Progs, NextLine, Stored
  <2> QED
    BY <1>11, <1>13, <1>18, <2>1, <2>2, <2>3
<1> QED
  <2>1. ~(x = CRLF /\ q.entr # <<>> /\ q.entr[1].kind = "mixed")
    BY <1>9 DEF Reaction
  <2> QED
    BY <1>1, <1>8, <1>10, <1>14, <1>15, <1>16, <1>17, <1>18, <2>1 DEF ReceiveAs

LEMMA EofKnows ==
  ASSUME IInv, ProgsOk, ProgsOk', Seen, NEW c \in Clients, Knows(c), ReceiveEof(c)
  PROVE  Knows(c)'
<1>1. PICK q \in Progs : q = prog[c]
  BY DEF ProgsOk
<1>2. q.pc = "recv" /\ link[c] = "up" /\ q.got = Len(out[c]) /\ c \in closed
  BY <1>1 DEF ReceiveEof, At, AtEof, ProgsOk, ProgOk, Linked
<1>3. PICK L \in SUBSET Seq(Items) : L = Listings(c)
  BY ListingsAre
<1>4. PICK R \in Replies(L) : Story(c, R) /\ Reads(q, L, R)
  BY <1>1, <1>2, <1>3 DEF Knows
<1>5. Reading(q, L, R)
  BY <1>2, <1>4 DEF Reads
<1>6. ~Running
  BY <1>2, <1>4, <1>5, EofAfterReply
<1>7. PICK p : p = [q EXCEPT !.pc = "print", !.ended = "eof"]
  OBVIOUS
<1>8. /\ p.pc = "print" /\ p.ended = "eof" /\ p.head = q.head /\ p.got = q.got
      /\ p.request = q.request
  BY <1>7 DEF Progs
<1>9. Begun(p.head, L)
  BY <1>5, <1>8, ReadingBegun
<1>10. Reads(p, L, R)
  BY <1>8, <1>9 DEF Reads, HasRead
<1>11. p.got <= Len(out[c])
  <2>1. q.got \in Nat
    BY DEF Progs
  <2> QED
    BY <1>2, <1>8, <2>1
<1>12. Become(c, p) /\ UNCHANGED vars
  BY <1>1, <1>7 DEF ReceiveEof
<1> QED
  BY <1>1, <1>2, <1>3, <1>4, <1>6, <1>8, <1>10, <1>11, <1>12, ReckonsKnows

LEMMA ShowKnows ==
  ASSUME IInv, ProgsOk, Seen, NEW c \in Clients, Knows(c), ShowList(c)
  PROVE  Knows(c)'
<1>1. PICK q \in Progs : q = prog[c]
  BY DEF ProgsOk
<1>2. Base
  BY DEF IInv
<1>3. q.pc = "print" /\ link[c] = "up"
  BY <1>1 DEF ShowList, At, ProgsOk, ProgOk, Linked
<1>4. PICK L \in SUBSET Seq(Items) : L = Listings(c)
  BY ListingsAre
<1>5. PICK R \in Replies(L) : Story(c, R) /\ Reads(q, L, R)
  BY <1>1, <1>3, <1>4 DEF Knows
<1>6. HasRead(q, L, R) /\ (q.ended = "eof" => ~Running)
  BY <1>1, <1>3, <1>5 DEF Reads, Knows, Behind
<1>7. CASE q.head = <<>> /\ Killed(c)
  <2>1. PICK p : p = [q EXCEPT !.pc = "killed"]
    OBVIOUS
  <2>2. p.pc = "killed" /\ p.request = q.request
    BY <2>1 DEF Progs
  <2>3. Ends(c, p)
    BY <1>1, <1>7, <2>1 DEF Killed
  <2>4. Finished(p, Listings(c))
    BY <2>2 DEF Finished
  <2>5. ~Running \/ <<>> \in Listings(c)
    BY <1>4, <1>6, <1>7 DEF HasRead
  <2> QED
    BY <1>1, <1>2, <2>2, <2>3, <2>4, <2>5, LeavesKnows
<1>8. CASE Exit(c, [q EXCEPT !.ret = 0], 0)
  <2>1. PICK p : p = [[q EXCEPT !.ret = 0] EXCEPT !.pc = "exit", !.status = 0]
    OBVIOUS
  <2>2. p.pc = "exit" /\ p.ended = q.ended /\ p.head = q.head /\ p.request = q.request
    BY <2>1 DEF Progs
  <2>3. Ends(c, p)
    BY <1>8, <2>1 DEF Exit
  <2>4. Finished(p, Listings(c))
    BY <1>4, <1>6, <2>2 DEF Finished, HasRead
  <2> QED
    BY <1>1, <1>2, <2>2, <2>3, <2>4, LeavesKnows
<1> QED
  BY <1>1, <1>7, <1>8 DEF ShowList

LEMMA ProgramKnows ==
  ASSUME IInv, IInv', ProgsOk, ProgsOk', Seen, NEW c \in Clients, c \notin spoilt,
         c \notin spoilt', Knows(c), Program(c)
  PROVE  Knows(c)'
BY ConnectKnows, HandshakeKnows, SendKnows, ReceiveKnows, EofKnows, ShowKnows DEF Program

(***************************************************************************)
(* As long as there is no trouble, and all of them speak the protocol,     *)
(* none of them leaves in the middle of something.                         *)
(***************************************************************************)
LEMMA LeavesWell ==
  ASSUME NEW c \in Clients, NEW p, Ends(c, p), spoilt = {}, Settled(c)
  PROVE  spoilt' = {}
BY DEF Ends

LEMMA ConnectsWell ==
  ASSUME Running, spoilt = {}, NEW c \in Clients, Connect(c)
  PROVE  spoilt' = {}
BY DEF Connect, Dial

LEMMA GreetedWell ==
  ASSUME ListInv, Running, spoilt = {}, NEW c \in Clients, Handshake(c)
  PROVE  spoilt' = {}
<1>1. Base /\ IInv /\ ProgsOk /\ Attended /\ Knows(c)
  BY DEF ListInv, IInv
<1>2. prog[c].pc = "handshake" /\ link[c] = "up" /\ lines[c] = <<>>
  BY <1>1, HandshakeCases DEF At, ProgsOk, ProgOk, Linked, Unasked
<1>3. PICK R \in Replies(Listings(c)) : Story(c, R)
  BY <1>1, <1>2 DEF Knows
<1>4. PICK n \in (IF AtEof(c) THEN {0} ELSE {}) \cup 1 .. Len(out[c]) - prog[c].got :
        UNCHANGED vars \/ Exit(c, prog[c], 0)
  BY <1>1, HandshakeCases
<1>5. CASE UNCHANGED vars
  BY <1>5 DEF vars
<1>6. CASE Exit(c, prog[c], 0)
  <2>1. CASE c \in closed
    BY <1>6, <2>1, LeavesWell DEF Exit, Settled
  <2>2. CASE c \notin closed
    <3>1. n \in 1 .. Len(out[c]) - prog[c].got
      BY <1>4, <2>2 DEF AtEof
    <3>2. Len(out[c]) \in Nat /\ prog[c].got \in Nat
      BY <1>1, LenProperties DEF Base, ServerOk, ProgsOk, Progs
    <3>3. Len(out[c]) # 0
      BY <3>1, <3>2
    <3>4. Len(<<>>) = 0
      OBVIOUS
    <3>5. out[c] # <<>>
      BY <3>3, <3>4
    <3>6. Settled(c)
      BY <1>1, <1>2, <1>3, <3>5, GreetedSettled
    <3> QED
      BY <1>6, <3>6, LeavesWell DEF Exit
  <2> QED
    BY <2>1, <2>2
<1> QED
  BY <1>4, <1>5, <1>6

LEMMA SendsWell ==
  ASSUME spoilt = {}, NEW c \in Clients, Speaks(prog[c].request), SendRequest(c)
  PROVE  spoilt' = {}
<1>1. CASE Send(c, prog[c].request)
  BY <1>1 DEF Send
<1>2. CASE UNCHANGED vars
  BY <1>2 DEF vars
<1>3. CASE c \in closed /\ Killed(c)
  BY <1>3, LeavesWell DEF Killed, Settled
<1> QED
  BY <1>1, <1>2, <1>3 DEF SendRequest

LEMMA ReceivesWell ==
  ASSUME ListInv, Running, spoilt = {}, NEW c \in Clients, Receive(c)
  PROVE  spoilt' = {}
<1>1. Base /\ IInv /\ ProgsOk /\ Attended /\ Knows(c)
  BY DEF ListInv, IInv
<1>2. PICK q \in Progs : q = prog[c]
  BY <1>1 DEF ProgsOk
<1>3. q.pc = "recv" /\ link[c] = "up" /\ q.got + 1 \in 1 .. Len(out[c])
  BY <1>1, <1>2, ReceiveCases DEF At, ProgsOk, ProgOk, Linked
<1>4. PICK L \in SUBSET Seq(Items) : L = Listings(c)
  BY <1>1, ListingsAre
<1>5. PICK R \in Replies(L) : Story(c, R) /\ Reads(q, L, R)
  BY <1>1, <1>2, <1>3, <1>4 DEF Knows
<1>6. R \in Seq(Units)
  BY RepliesType
<1>7. Reading(q, L, R)
  BY <1>3, <1>5 DEF Reads
<1>8. PICK x \in Units : x = out[c][q.got + 1] /\ ReceiveAs(c, x)
  BY <1>1, <1>2, ReceiveCases
<1>9. /\ Reaction(q, L, R, x)
      /\ q.got + 1 = Len(AckMsg \o R) => Len(out[c]) >= Len(AckMsg \o R)
  <2>1. /\ q.got < Len(AckMsg \o R) /\ x = ComesNext(R, q)
        /\ q.got + 1 = Len(AckMsg \o R) => Len(out[c]) >= Len(AckMsg \o R)
    BY <1>1, <1>3, <1>5, <1>6, <1>8, UnitRead
  <2> QED
    BY <1>7, <2>1, ReadsOneMore
<1>10. CASE UNCHANGED vars
  BY <1>10 DEF vars
<1>11. CASE /\ x = CRLF /\ q.entr # <<>> /\ q.entr[1] = Word("ERR")
            /\ Exit(c, [Further(q) EXCEPT !.ended = "ERR"], 1)
  <2>1. R = ErrMsg /\ Len(out[c]) >= Len(AckMsg \o R)
    BY <1>9, <1>11 DEF Reaction
  <2>2. R # <<>>
    BY <2>1 DEF ErrMsg
  <2>3. Settled(c)
    BY <1>1, <1>5, <1>6, <2>1, <2>2, RepliedSettled
  <2> QED
    BY <1>11, <2>3, LeavesWell DEF Exit
<1> QED
  BY <1>2, <1>8, <1>10, <1>11 DEF ReceiveAs

LEMMA ShowsWell ==
  ASSUME ListInv, Running, spoilt = {}, NEW c \in Clients, ShowList(c)
  PROVE  spoilt' = {}
<1>1. Base /\ IInv /\ ProgsOk /\ Attended /\ Knows(c)
  BY DEF ListInv, IInv
<1>2. PICK q \in Progs : q = prog[c]
  BY <1>1 DEF ProgsOk
<1>3. q.pc = "print" /\ link[c] = "up"
  BY <1>1, <1>2 DEF ShowList, At, ProgsOk, ProgOk, Linked
<1>4. PICK L \in SUBSET Seq(Items) : L = Listings(c)
  BY <1>1, ListingsAre
<1>5. PICK R \in Replies(L) : Story(c, R) /\ Reads(q, L, R)
  BY <1>1, <1>2, <1>3, <1>4 DEF Knows
<1>6. q.ended # "eof" /\ q.got <= Len(out[c])
  BY <1>1, <1>2, <1>3 DEF Knows, Behind
<1>7. q.got = Len(AckMsg \o R) /\ q.head \in L /\ R = ListReply(q.head)
  BY <1>3, <1>5, <1>6 DEF Reads, HasRead
<1>8. R \in Seq(Units) /\ R # <<>>
  <2>1. q.head \in Seq(Items)
    BY <1>4, <1>7
  <2>2. Len(R) = 2 * Len(q.head) + 3 /\ Len(q.head) \in Nat
    BY <1>7, <2>1, ListReplyUnits
  <2>3. Len(<<>>) = 0
    OBVIOUS
  <2>4. Len(R) # 0
    BY <2>2
  <2> QED
    BY <2>3, <2>4, RepliesType
<1>9. Len(out[c]) >= Len(AckMsg \o R)
  <2>1. Len(out[c]) \in Nat /\ q.got \in Nat
    BY <1>1, LenProperties DEF Base, ServerOk, Progs
  <2> QED
    BY <1>6, <1>7, <2>1
<1>10. Settled(c)
  BY <1>1, <1>5, <1>8, <1>9, RepliedSettled
<1> QED
  BY <1>10, LeavesWell DEF ShowList, Killed, Exit

LEMMA ProgramWell ==
  ASSUME ListInv, Untroubled, NEW c \in Clients, Program(c)
  PROVE  spoilt' = {}
<1>1. Running /\ spoilt = {} /\ Speaks(prog[c].request)
  BY DEF ListInv, Untroubled
<1>2. ASSUME ReceiveEof(c) PROVE spoilt' = {}
  BY <1>1, <1>2 DEF ReceiveEof, vars
<1> QED
  BY <1>1, <1>2, ConnectsWell, GreetedWell, SendsWell, ReceivesWell, ShowsWell DEF Program

(***************************************************************************)
(* Every step of the programs and of their server.                         *)
(***************************************************************************)
LEMMA ServerSpoils ==
  ASSUME Server
  PROVE  spoilt \subseteq spoilt'
BY DEF Server, Accept, AcceptFails, Read, Execute, Md5, ListEntry, ListMd5, ListDone,
       Transmit, TransmitPart, TransmitInVain, Excuses

(* The programs have it open no file that it cannot open.                  *)
LEMMA NeverBalks ==
  ASSUME ListInv, Untroubled
  PROVE  ~Balks
<1> SUFFICES ASSUME Balks PROVE FALSE
  OBVIOUS
<1>1. /\ Base /\ IInv /\ ProgsOk /\ Running /\ spoilt = {} /\ pc \in {"exec", "list"}
  BY DEF ListInv, IInv, Balks
<1>2. serving \in Clients
  BY <1>1, BusyServes DEF Busy
<1>3. PICK c \in Clients : c = serving
  BY <1>2
<1>4. Understood(c) /\ Understanding
  BY <1>1, <1>3 DEF IInv, Understands
<1>5. /\ NumRead(c) # 0 /\ NumRead(c) \in 0 .. Len(lines[c])
      /\ job.command = <<Current[1]>> /\ job.args = Arguments(Current)
      /\ Current = lines[c][NumRead(c)]
  BY <1>1, <1>3, <1>4 DEF Understood, Understanding, Current
<1>6. PICK line \in Lines[c] : line = prog[c].request
  BY <1>1 DEF ProgsOk, ProgOk
<1>7. Current = line
  <2>1. lines[c] # <<>>
    BY <1>5
  <2>2. lines[c] = <<line>>
    BY <1>1, <1>6, <2>1 DEF ProgsOk, ProgOk
  <2>3. NumRead(c) = 1
    BY <1>5, <2>2
  <2> QED
    BY <1>5, <2>2, <2>3
<1>8. line \in Seq(Symbols) /\ line[1] = "LIST" /\ Speaks(line) /\ Opens(c)
  BY <1>6, ListMeaning DEF Untroubled
<1>9. pc = "list" /\ job.names # <<>> /\ NextName \in Unreadable
  BY <1>5, <1>7, <1>8 DEF Balks, Is
<1>10. JobOk(job, "list")
  BY <1>1, <1>9 DEF Base
<1> DEFINE dir == Denoted(job.args[1])
           k   == Looked(job) + 1
<1>11. /\ dir \in Dirs /\ k \in 1 .. Len(ReadDir[dir])
       /\ NextName = Join(dir, ReadDir[dir][k])
  BY <1>9, <1>10, NextOk DEF JobOk, Lists
<1>12. job.args[1] = Path(c)
  <2>1. Arguments(line) = <<NameFrom(line, 3)>>
    BY <1>8, Spoken
  <2> QED
    BY <1>5, <1>6, <1>7, <2>1 DEF Path
<1> HIDE DEF dir, k
<1>13. ReadDir[dir][k] \in ToSet(ReadDir[dir])
  BY <1>11 DEF ToSet
<1>14. dir = Denoted(Path(c))
  BY <1>12 DEF dir
<1>15. \A base \in ToSet(ReadDir[dir]) : Join(dir, base) \notin Unreadable
  BY <1>8, <1>11, <1>14 DEF Opens
<1> QED
  BY <1>9, <1>11, <1>13, <1>15

LEMMA NextUnderstood ==
  ASSUME IInv, [Next]_vars
  PROVE  IInv'
BY BaseKeeps, EveryStepServes DEF IInv, Served

(* The programs that wait while the server, or one of the others, works.   *)
LEMMA WaitingKnows ==
  ASSUME ListInv, Running, [Next]_vars, IInv', ProgsOk', Seen, prog' = prog,
         link' = link, lines' = lines, spoilt \subseteq spoilt', \A c \in Clients : Longer(c),
         NEW c \in Clients \ spoilt'
  PROVE  Knows(c)'
<1>1. /\ Base /\ Base' /\ IInv /\ ProgsOk /\ c \notin spoilt /\ Knows(c) /\ Idles(c)
      /\ Longer(c)
  BY DEF ListInv, IInv, Idles
<1>2. lines'[c] = lines[c] /\ prog'[c].request = prog[c].request
  OBVIOUS
<1>3. ASSUME link[c] # "gone" PROVE Onward(c)
  BY <1>1, <1>2, <1>3, OnwardNext
<1> QED
  BY <1>1, <1>3, KnowsOn

LEMMA ServesKeeps ==
  ASSUME ListInv, Serves
  PROVE  ListInv'
<1>1. Base /\ IInv /\ ProgsOk /\ Attended /\ troubles \in Nat
  BY DEF ListInv, IInv
<1>2. Server /\ prog' = prog /\ Seen
  BY DEF Serves
<1>3. [Next]_vars
  BY <1>2 DEF Next
<1>4. IInv' /\ Base'
  BY <1>1, <1>3, NextUnderstood DEF IInv
<1>5. /\ link' = link /\ lines' = lines /\ store' = store /\ Running
      /\ \A c \in Clients : Longer(c)
  BY <1>1, <1>2, ServerForward
<1>6. Attended'
  BY <1>1, <1>2, <1>4, AttendedServer
<1>7. ProgsOk'
  <2>1. store' \in Stores
    BY <1>4 DEF Base, ServerOk
  <2>2. \A c \in Clients : link'[c] = link[c] /\ lines'[c] = lines[c]
    BY <1>5
  <2> QED
    BY <1>1, <1>2, <2>1, <2>2, ProgsStay
<1>8. spoilt \subseteq spoilt'
  BY <1>2, ServerSpoils
<1>9. \A c \in Clients \ spoilt' : Knows(c)'
  BY <1>2, <1>3, <1>4, <1>5, <1>7, <1>8, WaitingKnows
<1>10. \/ troubles' = troubles /\ (spoilt' = spoilt \/ Balks)
       \/ troubles' = troubles + 1
  BY <1>1, <1>2, ServerTroubles
<1>11. troubles' \in Nat
  BY <1>1, <1>10
<1>12. ASSUME Untroubled' PROVE Running' /\ spoilt' = {}
  <2>1. troubles' = 0 /\ \A c \in Clients : Speaks(prog[c].request) /\ Opens(c)
    BY <1>2, <1>12 DEF Untroubled, Opens, Path
  <2>2. troubles' # troubles + 1
    BY <1>1, <2>1
  <2>3. troubles = 0
    BY <1>10, <2>1, <2>2
  <2>4. Untroubled
    BY <2>1, <2>3 DEF Untroubled
  <2>5. spoilt' = {}
    BY <1>10, <2>2, <2>4, NeverBalks DEF ListInv
  <2>6. Running'
    BY <1>1, <1>3, <1>5, <2>5, EndsSpoilt
  <2> QED
    BY <2>5, <2>6
<1> QED
  BY <1>4, <1>6, <1>7, <1>9, <1>11, <1>12 DEF ListInv

LEMMA EditsKeep ==
  ASSUME ListInv, Edit, prog' = prog, Seen
  PROVE  ListInv'
<1>1. Base /\ IInv /\ ProgsOk /\ Attended /\ troubles \in Nat
  BY DEF ListInv, IInv
<1>2. [Next]_vars
  BY DEF Next
<1>3. IInv' /\ Base'
  BY <1>1, <1>2, NextUnderstood DEF IInv
<1>4. /\ Running /\ troubles' = troubles + 1
      /\ UNCHANGED <<link, lines, backlog, out, closed, server>> /\ spoilt \subseteq spoilt'
  BY DEF Edit, Trouble, peers
<1>5. Attended'
  <2>1. Accepted' = Accepted
    BY <1>4 DEF Accepted
  <2>2. UNCHANGED <<closed, server>>
    BY <1>4
  <2>3. \A c \in Clients : link'[c] = "up" => link[c] = "up" \/ c # serving
    BY <1>4
  <2>4. \A c \in Clients : lines'[c] = <<>> => lines[c] = <<>>
    BY <1>4
  <2> QED
    BY <1>1, <1>4, <2>1, <2>2, <2>3, <2>4, AttendedStays
<1>6. ProgsOk'
  <2>1. store' \in Stores
    BY <1>3 DEF Base, ServerOk
  <2>2. \A c \in Clients : link'[c] = link[c] /\ lines'[c] = lines[c]
    BY <1>4
  <2> QED
    BY <1>1, <2>1, <2>2, ProgsStay
<1>7. \A c \in Clients : Longer(c)
  BY <1>1, <1>4, SameLonger
<1>8. \A c \in Clients \ spoilt' : Knows(c)'
  BY <1>2, <1>3, <1>4, <1>6, <1>7, WaitingKnows
<1>9. troubles' \in Nat /\ troubles' # 0
  BY <1>1, <1>4
<1> QED
  BY <1>3, <1>5, <1>6, <1>8, <1>9 DEF ListInv, Untroubled

LEMMA StopsKeep ==
  ASSUME ListInv, Stopped, prog' = prog, Seen
  PROVE  ListInv'
<1>1. Base /\ IInv /\ ProgsOk /\ Attended /\ troubles \in Nat
  BY DEF ListInv, IInv
<1>2. /\ Base' /\ ~Running' /\ Attended' /\ link' = link /\ lines' = lines /\ out' = out
      /\ store' = store /\ spoilt' = spoilt /\ troubles' = troubles + 1
  BY <1>1, StoppedKeeps
<1>3. IInv'
  BY <1>2 DEF IInv
<1>4. ProgsOk'
  <2>1. store' \in Stores
    BY <1>2 DEF Base, ServerOk
  <2>2. \A c \in Clients : link'[c] = link[c] /\ lines'[c] = lines[c]
    BY <1>2
  <2> QED
    BY <1>1, <2>1, <2>2, ProgsStay
<1>5. ASSUME NEW c \in Clients \ spoilt' PROVE Knows(c)'
  <2>1. Knows(c) /\ Idles(c) /\ out'[c] = out[c]
    BY <1>2 DEF ListInv, Idles
  <2>2. Longer(c)
    BY <1>1, <2>1, SameLonger
  <2>3. Onward(c)
    BY <1>1, <1>2, <2>1, OnwardDown
  <2> QED
    BY <1>1, <1>2, <1>4, <2>1, <2>2, <2>3, KnowsOn
<1>6. troubles' \in Nat /\ troubles' # 0
  BY <1>1, <1>2
<1> QED
  BY <1>2, <1>3, <1>4, <1>5, <1>6 DEF ListInv, Untroubled

LEMMA RunsKeep ==
  ASSUME ListInv, NEW c \in Clients, Runs(c)
  PROVE  ListInv'
<1>1. Base /\ IInv /\ ProgsOk /\ Attended /\ troubles \in Nat
  BY DEF ListInv, IInv
<1>2. Program(c) /\ Seen
  BY DEF Runs
<1>3. PICK p \in Progs : Does(c, p)
  BY <1>1, <1>2, ProgramDoes
<1>4. IInv' /\ (Running' <=> Running) /\ ProgsOk' /\ Attended' /\ Apart(c)
  BY <1>1, <1>2, <1>3, DoesUnderstood, DoesProgs, DoesAttended, DoesApart
<1>5. troubles' = troubles /\ spoilt \subseteq spoilt'
  BY <1>4 DEF Apart
<1>6. ASSUME NEW d \in Clients \ spoilt' PROVE Knows(d)'
  <2>1. d \notin spoilt /\ d \notin spoilt' /\ Knows(d)
    BY <1>5 DEF ListInv
  <2>2. CASE d = c
    BY <1>1, <1>2, <1>4, <2>1, <2>2, ProgramKnows
  <2>3. CASE d # c
    BY <1>1, <1>2, <1>3, <2>1, <2>3, OthersKnow
  <2> QED
    BY <2>2, <2>3
<1>7. ASSUME Untroubled' PROVE Running' /\ spoilt' = {}
  <2>1. \A d \in Clients : prog'[d].request = prog[d].request
    <3>1. prog'[c].request = prog[c].request
      <4>1. prog'[c] = p
        BY <1>1, <1>3, DoesApart
      <4>2. p.request = prog[c].request
        BY <1>3 DEF Does, Reckons, Dials, Requests, Leaves, Advances
      <4> QED
        BY <4>1, <4>2
    <3>2. \A d \in Clients \ {c} : prog'[d] = prog[d]
      BY <1>4 DEF Apart, Idles
    <3> QED
      BY <3>1, <3>2
  <2>2. Untroubled
    BY <1>5, <1>7, <2>1 DEF Untroubled, Opens, Path
  <2>3. Running /\ spoilt' = {}
    BY <1>2, <2>2, ProgramWell DEF ListInv
  <2> QED
    BY <1>4, <2>3
<1> QED
  BY <1>1, <1>4, <1>5, <1>6, <1>7 DEF ListInv

LEMMA ListStutters == ListInv /\ UNCHANGED listVars => ListInv'
<1> SUFFICES ASSUME ListInv, UNCHANGED listVars PROVE ListInv'
  OBVIOUS
<1>1. IInv' /\ UNCHANGED vars /\ prog' = prog /\ seen' = seen
  BY NextUnderstood DEF ListInv, listVars
<1>2. ProgsOk'
  BY <1>1 DEF ListInv, ProgsOk, ProgOk, vars, peers, disk
<1>3. Attended'
  BY <1>1 DEF ListInv, Attended, Greeting, Accepted, Running, vars, peers, server
<1>4. troubles' = troubles /\ spoilt' = spoilt /\ (Running' <=> Running)
  BY <1>1 DEF Running, vars, server
<1>5. Untroubled' <=> Untroubled
  BY <1>1, <1>4 DEF Untroubled, Opens, Path
<1>6. ASSUME NEW c \in Clients \ spoilt PROVE Knows(c)'
  <2>1. /\ Listings(c)' = Listings(c) /\ link' = link /\ out' = out
        /\ \A R : Story(c, R) => Story(c, R)'
    BY <1>1, StoryUnchanged DEF Listings, Path, vars, peers
  <2>2. (Behind(c))' <=> Behind(c)
    BY <1>1, <1>4, <2>1 DEF Behind
  <2>3. (Ended(c))' <=> Ended(c)
    BY <1>1, <1>4, <2>1 DEF Ended
  <2>4. Knows(c)
    BY <1>6 DEF ListInv
  <2> QED
    BY <1>1, <2>1, <2>2, <2>3, <2>4 DEF Knows
<1> QED
  BY <1>1, <1>2, <1>3, <1>4, <1>5, <1>6 DEF ListInv

LEMMA ListAtFirst == ListInit => ListInv
<1> SUFFICES ASSUME ListInit PROVE ListInv
  OBVIOUS
<1>1. Init /\ IInv /\ Base
  BY ServedAtFirst DEF ListInit, IInv
<1>2. /\ link = [c \in Clients |-> "away"] /\ lines = [c \in Clients |-> <<>>]
      /\ out = [c \in Clients |-> <<>>] /\ closed = {} /\ backlog = <<>>
      /\ pc = "accept" /\ serving = NoClient /\ spoilt = {} /\ troubles = 0 /\ Running
  BY <1>1 DEF Init, Running
<1>3. ASSUME NEW c \in Clients
      PROVE  /\ prog[c] \in Progs /\ prog[c].request \in Lines[c]
             /\ prog[c].pc = "connect" /\ prog[c].got = 0 /\ prog[c].entr = <<>>
             /\ prog[c].head = <<>> /\ prog[c].ended = "no" /\ seen[c] = {store}
  <2>1. PICK q : q = prog[c]
    OBVIOUS
  <2>2. q \in [pc : {"connect"}, got : {0}, entr : {<<>>}, head : {<<>>},
               ended : {"no"}, ret : {0}, status : {0},
               request : UNION {Lines[d] : d \in Clients}]
    BY <2>1 DEF ListInit
  <2>3. <<>> \in Seq(Units) /\ <<>> \in Seq(Units \cup {Garbled}) /\ 0 \in Nat
    BY EmptySeq
  <2>4. q \in Progs
    BY <2>2, <2>3 DEF Progs, Labelled
  <2>5. /\ q.pc = "connect" /\ q.got = 0 /\ q.entr = <<>>
        /\ q.head = <<>> /\ q.ended = "no"
    BY <2>2
  <2> QED
    BY <2>1, <2>4, <2>5 DEF ListInit
<1>4. ProgsOk
  <2>1. prog \in [Clients -> Progs]
    <3>1. prog \in [Clients -> [pc : {"connect"}, got : {0}, entr : {<<>>}, head : {<<>>},
                                ended : {"no"}, ret : {0}, status : {0},
                                request : UNION {Lines[d] : d \in Clients}]]
      BY DEF ListInit
    <3>2. DOMAIN prog = Clients /\ prog = [c \in Clients |-> prog[c]]
      BY <3>1
    <3> QED
      BY <1>3, <3>2
  <2>2. store \in Stores
    BY <1>1 DEF Base, ServerOk
  <2>3. seen \in [Clients -> SUBSET Stores]
    BY <2>2 DEF ListInit
  <2>4. ASSUME NEW c \in Clients PROVE ProgOk(c)
    BY <1>2, <1>3 DEF ProgOk, Linked
  <2> QED
    BY <2>1, <2>3, <2>4 DEF ProgsOk
<1>5. Attended
  <2>1. Accepted = {}
    BY <1>2 DEF Accepted
  <2>2. Greeting
    BY <1>2 DEF Greeting
  <2> QED
    BY <1>2, <2>1, <2>2 DEF Attended
<1>6. ASSUME NEW c \in Clients PROVE Knows(c)
  <2>1. Story(c, <<>>)
    <3>1. in[c] = <<>> /\ lines[c] = <<>> /\ out[c] = <<>> /\ link[c] = "away"
      BY <1>1, <1>2 DEF Init
    <3>2. c # serving
      BY <1>2, ServerAssumption
    <3>3. Unread(c) = 0
      <4>1. Positions(in[c], "LF") = {}
        BY <3>1 DEF Positions
      <4> QED
        BY <4>1, FS_EmptySet, Zenon DEF Unread
    <3>4. Given(c) = 0
      <4>1. Len(<<>>) = 0
        OBVIOUS
      <4>2. (IF Answering(c) THEN 1 ELSE 0) = 0
        BY <3>2 DEF Answering
      <4>3. Len(lines[c]) - Unread(c) - 0 = 0
        BY <3>1, <3>3, <4>1
      <4> QED
        BY <4>2, <4>3 DEF Given
    <3>5. Told(c) = <<>>
      <4>1. Owed(c) = <<>>
        BY <3>2 DEF Owed
      <4>2. <<>> \o <<>> = <<>>
        BY EmptySeq, ConcatEmptySeq
      <4> QED
        BY <3>1, <4>1, <4>2 DEF Told
    <3>6. c \notin Accepted
      BY <3>1 DEF Accepted
    <3>7. Transcript(c, <<>>) /\ Standing(c, <<>>)
      BY <3>2, <3>4, <3>5, <3>6 DEF Transcript, Standing
    <3> QED
      BY <1>2, <3>7 DEF Story
  <2>2. Reads(prog[c], Listings(c), <<>>)
    BY <1>3 DEF Reads
  <2>3. Behind(c)
    BY <1>3 DEF Behind
  <2>4. <<>> \in Replies(Listings(c))
    BY DEF Replies
  <2> QED
    BY <1>2, <2>1, <2>2, <2>3, <2>4 DEF Knows
<1> QED
  BY <1>1, <1>2, <1>4, <1>5, <1>6 DEF ListInv

(* Whatever the programs ask, and however their calls, those of the        *)
(* server, edits and partial sends come between each other: what each of   *)
(* them has read is the beginning of the greeting and of the reply the     *)
(* server makes for it, and what it has stored is the beginning of a       *)
(* listing that was true since it asked (cgym_recv_list_reply() and        *)
(* cgymd_list.c, one against the other).                                   *)
THEOREM ListUnderstood == ListSpec => []ListInv
<1>1. ListInit => ListInv
  BY ListAtFirst
<1>2. ListInv /\ [ListNext]_listVars => ListInv'
  <2> SUFFICES ASSUME ListInv, [ListNext]_listVars PROVE ListInv'
    OBVIOUS
  <2>1. CASE Serves
    BY <2>1, ServesKeeps
  <2>2. CASE Edit /\ UNCHANGED prog /\ Seen
    BY <2>2, EditsKeep
  <2>3. CASE Stopped /\ UNCHANGED prog /\ Seen
    BY <2>3, StopsKeep
  <2>4. CASE \E c \in Clients : Runs(c)
    BY <2>4, RunsKeep
  <2>5. CASE UNCHANGED listVars
    BY <2>5, ListStutters
  <2> QED
    BY <2>1, <2>2, <2>3, <2>4, <2>5 DEF ListNext
<1> QED
  BY <1>1, <1>2, PTL DEF ListSpec

(* A program that has ended.                                               *)
LEMMA EndedWell ==
  ASSUME ListInv, NEW c \in Clients \ spoilt, prog[c].pc \in {"exit", "killed"}
  PROVE  Ended(c)
<1>1. link[c] = "gone"
  BY DEF ListInv, ProgsOk, ProgOk, Linked
<1> QED
  BY <1>1 DEF ListInv, Knows

(* The entries a program prints (list.c) are the first of a true listing,  *)
(* and all of them when it has read the end of the list.                   *)
THEOREM ListingIsTrue == ListSpec => []ListingShown
<1>1. ListInv => ListingShown
  <2> SUFFICES ASSUME ListInv, NEW c \in Clients \ spoilt, prog[c].pc = "exit",
                      prog[c].ended \in {"end", "eof"},
                      prog[c].ended = "end" \/ prog[c].head # <<>>
               PROVE  \E items \in Listings(c) :
                        /\ IsPrefix(prog[c].head, items)
                        /\ prog[c].ended = "end" => prog[c].head = items
    BY DEF ListingShown
  <2>1. Finished(prog[c], Listings(c))
    BY EndedWell DEF Ended
  <2>2. CASE prog[c].ended = "end"
    <3>1. PICK items \in Listings(c) : items = prog[c].head
      BY <2>1, <2>2 DEF Finished
    <3>2. items \in Seq(Items)
      BY ListingsAre DEF ListInv
    <3>3. Len(items) \in Nat
      BY <3>2, LenProperties
    <3>4. IsPrefix(items, items)
      BY <3>3 DEF IsPrefix
    <3> QED
      BY <3>1, <3>4
  <2>3. CASE prog[c].ended = "eof"
    BY <2>1, <2>3 DEF Finished, Begun
  <2> QED
    BY <2>2, <2>3
<1> QED
  BY <1>1, ListUnderstood, PTL

(* head[siz] = NULL without a head (cgym_list.c) only kills the program    *)
(* that asked for an empty directory or that the server left alone.        *)
THEOREM KilledForAReason == ListSpec => []KilledWithCause
<1>1. ListInv => KilledWithCause
  BY EndedWell DEF KilledWithCause, Ended
<1> QED
  BY <1>1, ListUnderstood, PTL

(* As long as no send is partial, no file changes and no thread fails to   *)
(* start, programs that ask for names libcgym can send, of directories     *)
(* whose files it can open, do not end cgymd, in whatever order they come, *)
(* read and leave.                                                         *)
THEOREM ListServerSurvives == ListSpec => []ServerSurvives
<1>1. ListInv => ServerSurvives
  BY DEF ListInv, Untroubled, ServerSurvives
<1> QED
  BY <1>1, ListUnderstood, PTL
=============================================================================
