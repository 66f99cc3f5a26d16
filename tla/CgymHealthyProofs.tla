--------------------------- MODULE CgymHealthyProofs ---------------------------
(***************************************************************************)
(* A download that nothing disturbs: no failure, no change of a file, and  *)
(* mirrors that agree.  No connection ends before it is closed, no server  *)
(* is given up, and, when every reply arrives in one piece, no connection  *)
(* is opened beside those of the segments.                                 *)
(***************************************************************************)
EXTENDS CgymGetProofs, FiniteSetTheorems

-----------------------------------------------------------------------------
(* recv() of a message that is there, or is not.                           *)
With(s, buf, pos) == [s EXCEPT !.buf = buf, !.pos = pos]
Left(c, avail)    == [c EXCEPT !.avail = avail]

LEMMA WithType ==
  ASSUME NEW s \in Segment, NEW buf, NEW pos
  PROVE  /\ With(s, buf, pos).buf = buf /\ With(s, buf, pos).pos = pos
         /\ With(s, buf, pos).state = s.state /\ With(s, buf, pos).status = s.status
         /\ With(s, buf, pos).fd = s.fd
  BY DEF With, Segment

LEMMA LeftType ==
  ASSUME NEW c \in Conn, NEW a \in Seq(Unit), NEW b
  PROVE  /\ Left(c, a) \in Conn /\ Left(c, a).avail = a
         /\ SameConn(Left(c, a), c) /\ (Eof(Left(c, a)) <=> Eof(c))
         /\ Left(Left(c, a), b) = Left(c, b)
  BY DEF Left, Conn, SameConn, Eof

LEMMA RecvAtZero ==
  ASSUME NEW s \in Segment, NEW c \in Conn, NEW len \in Nat, s.pos = 0, 0 < len, ~Eof(c)
  PROVE  LET q == cgym_recv(s, c, len)
             l == Len(c.avail)
         IN  /\ l = 0 => q.segm = s /\ q.conn = c /\ q.rc = 1
             /\ 0 < l /\ l < len =>
                  /\ q.segm = With(s, SubSeq(c.avail, 1, l), l)
                  /\ q.conn = Left(c, SubSeq(c.avail, l + 1, l)) /\ q.rc = 1
             /\ len <= l =>
                  /\ q.segm = With(s, SubSeq(c.avail, 1, len), 0)
                  /\ q.conn = Left(c, SubSeq(c.avail, len + 1, l)) /\ q.rc = 0
<1> DEFINE q == cgym_recv(s, c, len)
           l == Len(c.avail)
           n == IF l < len THEN l ELSE len
           x == SubSeq(c.avail, 1, n)
           y == SubSeq(c.avail, n + 1, l)
<1>1. c.avail \in Seq(Unit) /\ s.buf \in Seq(Unit) /\ l \in Nat
  BY DEF Conn, Segment
<1>2. len - s.pos = len /\ s.pos + n = n /\ SubSeq(s.buf, 1, s.pos) = <<>>
  BY <1>1, SubSeqEmpty
<1>3. n \in 0 .. l
  BY <1>1
<1>4. SubSeq(s.buf, 1, s.pos) \o x = x
  <2>1. x \in Seq(Unit)
    BY <1>1, <1>3
  <2> HIDE DEF x
  <2> QED
    BY <1>2, <2>1, ConcatEmptySeq
<1>5. q = IF n = 0 THEN [segm |-> s, conn |-> c, rc |-> 1]
          ELSE IF n = len
          THEN [segm |-> With(s, x, 0), conn |-> Left(c, y), rc |-> 0]
          ELSE [segm |-> With(s, x, n), conn |-> Left(c, y), rc |-> 1]
  BY <1>2, <1>4 DEF cgym_recv, With, Left
<1> HIDE DEF q
<1>6. ASSUME l = 0
      PROVE  q.segm = s /\ q.conn = c /\ q.rc = 1
  <2>1. n = 0
    BY <1>6
  <2> QED
    BY <1>5, <2>1
<1>7. ASSUME 0 < l, l < len
      PROVE  /\ q.segm = With(s, SubSeq(c.avail, 1, l), l)
             /\ q.conn = Left(c, SubSeq(c.avail, l + 1, l)) /\ q.rc = 1
  <2>1. n = l /\ n # 0 /\ n # len
    BY <1>1, <1>7
  <2> HIDE DEF n, l
  <2> QED
    BY <1>5, <2>1
<1>8. ASSUME len <= l
      PROVE  /\ q.segm = With(s, SubSeq(c.avail, 1, len), 0)
             /\ q.conn = Left(c, SubSeq(c.avail, len + 1, l)) /\ q.rc = 0
  <2>1. n = len /\ n # 0
    BY <1>1, <1>8
  <2> HIDE DEF n, l
  <2> QED
    BY <1>5, <2>1
<1> QED
  BY <1>6, <1>7, <1>8 DEF q

LEMMA RecvNothing ==
  ASSUME NEW s \in Segment, NEW c \in Conn, NEW len \in Nat, s.pos = 0, 0 < len, ~Eof(c),
         c.avail = <<>>
  PROVE  LET q == cgym_recv(s, c, len) IN q.segm = s /\ q.conn = c /\ q.rc = 1
<1>1. Len(c.avail) = 0
  OBVIOUS
<1> QED
  BY <1>1, RecvAtZero

(* Less than was asked for.                                                *)
LEMMA RecvPart ==
  ASSUME NEW s \in Segment, NEW c \in Conn, NEW len \in Nat, s.pos = 0, 0 < len, ~Eof(c),
         0 < Len(c.avail), Len(c.avail) < len
  PROVE  LET q == cgym_recv(s, c, len) IN
         q.segm = With(s, c.avail, Len(c.avail)) /\ q.conn = Left(c, <<>>) /\ q.rc = 1
<1> DEFINE q == cgym_recv(s, c, len)
           l == Len(c.avail)
           x == SubSeq(c.avail, 1, l)
           y == SubSeq(c.avail, l + 1, l)
<1>1. c.avail \in Seq(Unit)
  BY DEF Conn
<1>2. x = c.avail /\ y = <<>>
  BY <1>1
<1>3. q.segm = With(s, x, l) /\ q.conn = Left(c, y) /\ q.rc = 1
  BY RecvAtZero
<1> HIDE DEF x, y
<1> QED
  BY <1>2, <1>3

(* All that was asked for.                                                 *)
LEMMA RecvWhole ==
  ASSUME NEW s \in Segment, NEW c \in Conn, NEW len \in Nat, s.pos = 0, 0 < len, ~Eof(c),
         NEW a \in Seq(Unit), NEW b \in Seq(Unit), c.avail = a \o b, Len(a) = len
  PROVE  LET q == cgym_recv(s, c, len) IN
         q.segm = With(s, a, 0) /\ q.conn = Left(c, b) /\ q.rc = 0
<1> DEFINE q == cgym_recv(s, c, len)
           l == Len(c.avail)
           x == SubSeq(c.avail, 1, len)
           y == SubSeq(c.avail, len + 1, l)
<1>1. l = len + Len(b) /\ Len(b) \in Nat /\ c.avail \in Seq(Unit)
  BY Joined
<1>2. x = a
  <2> DEFINE z == SubSeq(c.avail, 1, len)
  <2>1. z \in Seq(Unit) /\ Len(z) = len /\ \A j \in 1 .. len : z[j] = c.avail[j]
    BY <1>1
  <2>2. \A j \in 1 .. len : c.avail[j] = a[j]
    BY <1>1, Joined
  <2> HIDE DEF z
  <2>3. z = a
    BY <2>1, <2>2, SeqEqual
  <2> QED
    BY <2>3 DEF z
<1>3. y = b
  <2> DEFINE z == SubSeq(c.avail, len + 1, l)
  <2>1. z \in Seq(Unit) /\ Len(z) = Len(b)
        /\ \A j \in 1 .. Len(b) : z[j] = c.avail[len + j]
    BY <1>1
  <2>2. \A j \in 1 .. Len(b) : c.avail[len + j] = b[j]
    <3> TAKE j \in 1 .. Len(b)
    <3>1. len + j \in 1 .. Len(a) + Len(b) /\ ~(len + j <= Len(a)) /\ len + j - Len(a) = j
      BY <1>1
    <3> QED
      BY <3>1, Joined
  <2> HIDE DEF z
  <2>3. z = b
    BY <2>1, <2>2, SeqEqual
  <2> QED
    BY <2>3 DEF z
<1>4. len <= l
  BY <1>1
<1>5. q.segm = With(s, x, 0) /\ q.conn = Left(c, y) /\ q.rc = 0
  BY <1>4, RecvAtZero, ZenonT(30)
<1> HIDE DEF x, y
<1> QED
  BY <1>2, <1>3, <1>5

LEMMA ConnectPiece ==
  ASSUME NEW s \in Segment, NEW c \in Conn, ~Eof(c), s.pos = 0,
         s.state \in {"CONNECTING", "RECV_HANDSHAKE"},
         IF c.greeted THEN OneOf(c, AckMsg) ELSE Nothing(c)
  PROVE  LET r == cgym_sock_connect(s, c) IN
         /\ r.rc \in {0, 1} /\ r.segm.pos = 0
         /\ r.rc = 1 => r.segm.state = "RECV_HANDSHAKE" /\ r.conn = c
         /\ r.rc = 0 => /\ r.segm.state = "CONNECTED" /\ c.greeted
                        /\ r.conn = Left(c, <<>>) /\ c.flight = <<>>
<1> DEFINE t == [s EXCEPT !.state = "RECV_HANDSHAKE"]
           q == cgym_recv(t, c, 2)
           h == cgym_recv_handshake(t, c)
           r == cgym_sock_connect(s, c)
<1>1. t \in Segment /\ t.state = "RECV_HANDSHAKE" /\ t.pos = 0
  BY DEF Segment, SockStates
<1>2. r = IF h.rc = 0 THEN To(h, "CONNECTED")
          ELSE IF h.rc > 1 THEN Return(To(h, "ERR"), 6) ELSE h
  BY DEF cgym_sock_connect, Eof
<1>3. h = IF q.rc = 0 THEN IF q.segm.buf = AckMsg THEN Clear(q) ELSE Return(q, 2)
          ELSE IF q.rc > 1 THEN Return(q, 3) ELSE q
  BY MessageLengths DEF cgym_recv_handshake
<1> HIDE DEF t, h, r
<1>4. CASE c.avail = <<>>
  <2>1. q.segm = t /\ q.conn = c /\ q.rc = 1
    BY <1>1, <1>4, RecvNothing
  <2> HIDE DEF q
  <2>2. r = q
    BY <1>2, <1>3, <2>1
  <2> QED
    BY <1>1, <2>1, <2>2 DEF r
<1>5. CASE c.avail # <<>>
  <2>1. c.avail = AckMsg /\ c.greeted /\ c.flight = <<>>
    BY <1>5 DEF OneOf, Nothing
  <2>2. AckMsg \in Seq(Unit) /\ <<>> \in Seq(Unit) /\ c.avail = AckMsg \o <<>>
        /\ Len(AckMsg) = 2 /\ 2 \in Nat /\ 0 < 2
    BY <2>1, MessagesType, ConcatEmptySeq, EmptySeq, MessageLengths
  <2>3. /\ q.rc = 0 /\ q.segm = With(t, AckMsg, 0)
        /\ q.conn = Left(c, <<>>)
    BY <1>1, <2>2, RecvWhole, ZenonT(30)
  <2>4. q \in Result
    BY <1>1, RecvType
  <2>5. q.segm.buf = AckMsg
    BY <1>1, <2>3, WithType
  <2> HIDE DEF q
  <2>6. h = Clear(q)
    BY <1>3, <2>3, <2>5
  <2>7. h \in Result /\ h.rc = 0 /\ h.segm.pos = 0 /\ h.conn = q.conn
    BY <2>3, <2>4, <2>6, ClearType
  <2>8. r = To(h, "CONNECTED")
    BY <1>2, <2>7
  <2>9. r.rc = 0 /\ r.segm.pos = 0 /\ r.conn = h.conn /\ r.segm.state = "CONNECTED"
    BY <2>7, <2>8, ToType DEF SockStates
  <2> QED
    BY <2>1, <2>3, <2>7, <2>9 DEF r
<1> QED
  BY <1>4, <1>5

(* The status of a reply of which nothing, or all, is there.               *)
LEMMA StatusPiece ==
  ASSUME NEW s \in Segment, NEW c \in Conn, ~Eof(c), s.pos = 0,
         s.state = "RECV_SIZE_REPLY"
  PROVE  LET r == SizeStatus(s, c) IN
         /\ c.avail = <<>> => r.segm = s /\ r.conn = c /\ r.rc = 1
         /\ \A v \in Versions : c.avail = SizeReply(v) =>
              /\ r.rc = 0 /\ r.segm \in Segment
              /\ r.segm.state = "RECV_SIZE_DATA" /\ r.segm.pos = 0
              /\ r.conn = Left(c, <<Entry(v), CRLF>> \o EndMsg)
<1> DEFINE q == cgym_recv(s, c, 2)
           r == SizeStatus(s, c)
<1>1. r = IF q.rc = 0 THEN IF q.segm.buf = OkMsg THEN To(q, "RECV_SIZE_DATA")
                           ELSE Return(To(q, "CONNECTED"), 2)
          ELSE IF q.rc > 1 THEN To(q, "CONNECTED") ELSE q
  BY MessageLengths DEF SizeStatus
<1>2. q \in Result
  BY RecvType
<1> HIDE DEF r
<1>3. ASSUME c.avail = <<>>
      PROVE  r.segm = s /\ r.conn = c /\ r.rc = 1
  <2>1. q.segm = s /\ q.conn = c /\ q.rc = 1
    BY <1>3, RecvNothing
  <2> HIDE DEF q
  <2> QED
    BY <1>1, <2>1
<1>4. ASSUME NEW v \in Versions, c.avail = SizeReply(v)
      PROVE  /\ r.rc = 0 /\ r.segm \in Segment
             /\ r.segm.state = "RECV_SIZE_DATA" /\ r.segm.pos = 0
             /\ r.conn = Left(c, <<Entry(v), CRLF>> \o EndMsg)
  <2> DEFINE line == <<Entry(v), CRLF>> \o EndMsg
  <2>1. line \in Seq(Unit) /\ OkMsg \in Seq(Unit) /\ Len(OkMsg) = 2
        /\ 2 \in Nat /\ 0 < 2
        /\ c.avail = OkMsg \o line
    BY <1>4, EntryLineType, MessagesType, MessageLengths
  <2> HIDE DEF line
  <2>2. /\ q.rc = 0 /\ q.segm = With(s, OkMsg, 0)
        /\ q.conn = Left(c, line)
    BY <2>1, RecvWhole, ZenonT(30)
  <2>3. q.segm.buf = OkMsg /\ q.segm.pos = 0
    BY <2>2, WithType
  <2> HIDE DEF q
  <2>4. r = To(q, "RECV_SIZE_DATA")
    BY <1>1, <2>2, <2>3
  <2>5. /\ r \in Result /\ r.rc = 0 /\ r.segm.pos = 0 /\ r.conn = q.conn
        /\ r.segm.state = "RECV_SIZE_DATA"
    BY <1>2, <2>2, <2>3, <2>4, ToType DEF SockStates
  <2> QED
    BY <2>2, <2>5 DEF line, Result
<1> QED
  BY <1>3, <1>4 DEF r

(* The line of the entry is read with the end of the reply, and nothing is *)
(* left.                                                                   *)
LEMMA LinePiece ==
  ASSUME NEW s \in Segment, NEW c \in Conn, ~Eof(c), s.pos = 0,
         s.state = "RECV_SIZE_DATA",
         NEW v \in Versions, c.avail = <<Entry(v), CRLF>> \o EndMsg
  PROVE  LET r == SizeLine(s, c) IN
         /\ r.rc = 0 /\ r.segm.pos = 0 /\ r.segm.state = "CONNECTED"
         /\ r.conn = Left(c, <<>>)
<1> DEFINE q == cgym_recv(s, c, MaxLine)
           r == SizeLine(s, c)
           m == <<Entry(v), CRLF>> \o EndMsg
<1>1. MaxLine \in Nat /\ MaxLine > 3
  BY SockAssumption
<1>2. Len(m) = 3 /\ m[1] = Entry(v) /\ m[2] = CRLF /\ m \in Seq(Unit)
  BY EntryLine, EntryLineType
<1>3. c.avail = m
  OBVIOUS
<1> HIDE DEF m
<1>4. 0 < Len(c.avail) /\ Len(c.avail) < MaxLine /\ 0 < MaxLine /\ Len(c.avail) = 3
  <2>1. Len(c.avail) = 3
    BY <1>2, <1>3
  <2> QED
    BY <1>1, <2>1
<1>5. /\ q.rc = 1 /\ q.segm = With(s, c.avail, Len(c.avail))
      /\ q.conn = Left(c, <<>>)
  BY <1>1, <1>4, RecvPart
<1>6. q \in Result
  BY <1>1, RecvType
<1>7. q.segm.buf = m /\ q.segm.pos = 3
  BY <1>2, <1>3, <1>4, <1>5, WithType
<1>8. r = IF q.rc = 1 /\ HasLine(q.segm)
          THEN IF q.segm.buf[1].kind = "entry" THEN Return(Clear(To(q, "CONNECTED")), 0)
               ELSE Return(q, 5)
          ELSE IF q.rc = 0 THEN Return(q, 4) ELSE q
  BY DEF SizeLine
<1> HIDE DEF q, r
<1>9. HasLine(q.segm)
  <2>1. 2 \in 1 .. q.segm.pos /\ q.segm.buf[2] = CRLF
    BY <1>2, <1>7
  <2> QED
    BY <2>1 DEF HasLine
<1>10. q.segm.buf[1].kind = "entry"
  BY <1>2, <1>7 DEF Entry
<1> DEFINE u == To(q, "CONNECTED")
           w == Clear(u)
<1>11. r = Return(w, 0)
  BY <1>5, <1>8, <1>9, <1>10
<1>12. u \in Result /\ u.conn = q.conn /\ u.segm.state = "CONNECTED"
  BY <1>6, ToType DEF SockStates
<1> HIDE DEF u
<1>13. w \in Result /\ w.conn = q.conn /\ w.segm.state = "CONNECTED" /\ w.segm.pos = 0
  BY <1>12, ClearType
<1> HIDE DEF w
<1>14. r.rc = 0 /\ r.conn = w.conn /\ r.segm = w.segm
  BY <1>11, <1>13, ReturnType
<1> QED
  BY <1>5, <1>13, <1>14 DEF r

LEMMA SizePiece ==
  ASSUME NEW s \in Segment, NEW c \in Conn, ~Eof(c), s.pos = 0, c.flight = <<>> \/ c.avail = <<>>,
         \/ s.state = "RECV_SIZE_REPLY"
            /\ (Nothing(c) \/ \E v \in Versions : OneOf(c, SizeReply(v)))
         \/ s.state = "RECV_SIZE_DATA"
            /\ \E v \in Versions : c.avail = <<Entry(v), CRLF>> \o EndMsg
  PROVE  LET r == cgym_recv_size_reply(s, c) IN
         /\ r.rc \in {0, 1}
         /\ r.rc = 1 => r.segm = s /\ r.conn = c
         /\ r.rc = 0 => /\ r.segm.pos = 0 /\ r.segm.state = "CONNECTED"
                        /\ r.conn = Left(c, <<>>) /\ c.flight = <<>>
<1> DEFINE a == AfterSizeStatus(s, c)
           l == SizeLine(a.segm, a.conn)
           r == cgym_recv_size_reply(s, c)
<1>1. r = ClearOnError(IF a.segm.state = "RECV_SIZE_DATA" THEN l ELSE a)
  BY DEF cgym_recv_size_reply
<1> HIDE DEF r
<1>2. CASE s.state = "RECV_SIZE_REPLY" /\ c.avail = <<>>
  <2>1. a.segm = s /\ a.conn = c /\ a.rc = 1
    BY <1>2, StatusPiece DEF AfterSizeStatus
  <2> HIDE DEF a
  <2>2. r = a
    BY <1>1, <1>2, <2>1 DEF ClearOnError
  <2> QED
    BY <2>1, <2>2 DEF r
<1>3. CASE ~(s.state = "RECV_SIZE_REPLY" /\ c.avail = <<>>)
  <2>1. PICK v \in Versions :
          \/ s.state = "RECV_SIZE_REPLY" /\ c.avail = SizeReply(v)
          \/ s.state = "RECV_SIZE_DATA" /\ c.avail = <<Entry(v), CRLF>> \o EndMsg
    BY <1>3 DEF OneOf, Nothing
  <2>2. c.flight = <<>>
    <3>1. c.avail # <<>>
      <4>1. Len(SizeReply(v)) # 0 /\ Len(<<Entry(v), CRLF>> \o EndMsg) # 0
        <5>1. Len(<<Entry(v), CRLF>> \o EndMsg) = 3
          BY EntryLine
        <5>2. Len(SizeReply(v)) = Len(OkMsg) + Len(<<Entry(v), CRLF>> \o EndMsg)
          BY EntryLineType, MessagesType, Joined, ZenonT(30)
        <5> QED
          BY <5>1, <5>2, MessageLengths
      <4> QED
        BY <2>1, <4>1
    <3> QED
      BY <3>1
  <2>3. /\ a.segm \in Segment /\ a.segm.state = "RECV_SIZE_DATA" /\ a.segm.pos = 0
        /\ a.conn = Left(c, <<Entry(v), CRLF>> \o EndMsg)
    <3>1. CASE s.state = "RECV_SIZE_REPLY" /\ c.avail = SizeReply(v)
      BY <3>1, StatusPiece DEF AfterSizeStatus
    <3>2. CASE s.state = "RECV_SIZE_DATA" /\ c.avail = <<Entry(v), CRLF>> \o EndMsg
      <4>1. a.segm = s /\ a.conn = c
        BY <3>2 DEF AfterSizeStatus
      <4>2. c = Left(c, c.avail)
        BY DEF Left, Conn
      <4> HIDE DEF a
      <4> QED
        BY <3>2, <4>1, <4>2
    <3> QED
      BY <2>1, <3>1, <3>2
  <2>4. /\ a.conn \in Conn /\ ~Eof(a.conn) /\ a.conn.avail = <<Entry(v), CRLF>> \o EndMsg
        /\ Left(a.conn, <<>>) = Left(c, <<>>)
    <3>1. <<Entry(v), CRLF>> \o EndMsg \in Seq(Unit)
      BY EntryLineType
    <3> DEFINE line == <<Entry(v), CRLF>> \o EndMsg
    <3> HIDE DEF a
    <3>2. a.conn = Left(c, line) /\ line \in Seq(Unit)
      BY <2>3, <3>1
    <3> HIDE DEF line
    <3>3. a.conn \in Conn /\ ~Eof(a.conn) /\ a.conn.avail = line
          /\ Left(a.conn, <<>>) = Left(c, <<>>)
      BY <3>2, LeftType
    <3> QED
      BY <3>3 DEF line
  <2> HIDE DEF a
  <2>5. /\ l.rc = 0 /\ l.segm.pos = 0 /\ l.segm.state = "CONNECTED"
        /\ l.conn = Left(a.conn, <<>>)
    BY <2>3, <2>4, LinePiece
  <2>6. r = l
    BY <1>1, <2>3, <2>5 DEF ClearOnError
  <2> HIDE DEF l
  <2> QED
    BY <2>2, <2>4, <2>5, <2>6 DEF r
<1> QED
  BY <1>2, <1>3

(* The bytes of a segment of which nothing, or all, is there.              *)
LEMMA BytesPiece ==
  ASSUME NEW s \in Segment, NEW c \in Conn, ~Eof(c), s.pos = 0,
         s.state = "RECV_GET_DATA",
         NEW v \in Versions, NEW start \in Nat, NEW stop \in Nat, start < stop,
         c.avail = Slice(v, start, stop) \o EndMsg
  PROVE  GetData(s, c, stop - start).rc = 0
<1> DEFINE len == stop - start
           q == cgym_recv(s, c, len + 1)
           r == GetData(s, c, len)
           m == Slice(v, start, stop) \o EndMsg
<1>1. m \in Seq(Unit) /\ Len(m) = stop - start + 1 /\ m[stop - start + 1] = CRLF
  BY PieceType
<1>2. len + 1 = stop - start + 1 /\ len + 1 \in Nat /\ 0 < len + 1 /\ <<>> \in Seq(Unit)
  BY EmptySeq
<1>3. c.avail = m
  OBVIOUS
<1> HIDE DEF m
<1>4. c.avail = m \o <<>> /\ Len(m) = len + 1 /\ m[len + 1] = CRLF
  BY <1>1, <1>2, <1>3, ConcatEmptySeq
<1>5. r = IF q.rc = 0
          THEN IF q.segm.buf[len + 1] = CRLF
               THEN Mark(To(q, "CONNECTED"), "DONE")
               ELSE Return(q, 5)
          ELSE IF q.rc > 1 THEN Return(Mark(q, "IDLE"), 4) ELSE q
  BY DEF GetData
<1> HIDE DEF len, r
<1>6. q.segm = With(s, m, 0) /\ q.rc = 0
  BY <1>1, <1>2, <1>4, RecvWhole, ZenonT(30)
<1>7. q.segm.buf = m
  BY <1>6, WithType
<1>8. s.pos <= Len(s.buf) /\ s.pos < len + 1
  BY <1>2 DEF Segment
<1>9. q \in Result
  BY <1>2, <1>8, RecvType
<1> HIDE DEF q
<1> DEFINE u == To(q, "CONNECTED")
<1>10. r = Mark(u, "DONE")
  BY <1>4, <1>5, <1>6, <1>7
<1>11. u \in Result /\ u.rc = 0
  BY <1>6, <1>9, ToType DEF SockStates
<1> HIDE DEF u
<1>12. r.rc = 0
  BY <1>10, <1>11, MarkType DEF Statuses
<1> QED
  BY <1>12 DEF r, len

LEMMA GetStatusPiece ==
  ASSUME NEW s \in Segment, NEW c \in Conn, ~Eof(c), s.pos = 0,
         s.state = "RECV_GET_REPLY", NEW piece \in Seq(Unit)
  PROVE  LET r == GetStatus(s, c) IN
         /\ c.avail = <<>> => r.segm = s /\ r.conn = c /\ r.rc = 1
         /\ c.avail = OkMsg \o piece =>
              /\ r.rc = 0 /\ r.segm \in Segment
              /\ r.segm.state = "RECV_GET_DATA" /\ r.segm.pos = 0
              /\ r.conn = Left(c, piece)
<1> DEFINE q == cgym_recv(s, c, 2)
           r == GetStatus(s, c)
<1>1. r = IF q.rc = 0 THEN IF q.segm.buf = OkMsg
                           THEN Mark(To(q, "RECV_GET_DATA"), "STARTED")
                           ELSE Return(To(q, "CONNECTED"), 2)
          ELSE IF q.rc > 1 THEN Mark(To(q, "CONNECTED"), "IDLE") ELSE q
  BY MessageLengths DEF GetStatus
<1>2. q \in Result
  <2>1. s.pos <= Len(s.buf) /\ s.pos < 2
    BY DEF Segment
  <2> QED
    BY <2>1, RecvType
<1> HIDE DEF r
<1>3. ASSUME c.avail = <<>>
      PROVE  r.segm = s /\ r.conn = c /\ r.rc = 1
  <2>1. q.segm = s /\ q.conn = c /\ q.rc = 1
    BY <1>3, RecvNothing
  <2> HIDE DEF q
  <2> QED
    BY <1>1, <2>1
<1>4. ASSUME c.avail = OkMsg \o piece
      PROVE  /\ r.rc = 0 /\ r.segm \in Segment
             /\ r.segm.state = "RECV_GET_DATA" /\ r.segm.pos = 0
             /\ r.conn = Left(c, piece)
  <2>1. OkMsg \in Seq(Unit) /\ Len(OkMsg) = 2
        /\ 2 \in Nat /\ 0 < 2
        /\ c.avail = OkMsg \o piece
    BY <1>4, MessagesType, MessageLengths
  <2>2. /\ q.rc = 0 /\ q.segm = With(s, OkMsg, 0)
        /\ q.conn = Left(c, piece)
    BY <2>1, RecvWhole, ZenonT(30)
  <2>3. q.segm.buf = OkMsg /\ q.segm.pos = 0
    BY <2>2, WithType
  <2> HIDE DEF q
  <2> DEFINE u == To(q, "RECV_GET_DATA")
  <2>4. r = Mark(u, "STARTED")
    BY <1>1, <2>2, <2>3
  <2>5. /\ u \in Result /\ u.rc = 0 /\ u.segm.pos = 0 /\ u.conn = q.conn
        /\ u.segm.state = "RECV_GET_DATA"
    BY <1>2, <2>2, <2>3, ToType DEF SockStates
  <2> HIDE DEF u
  <2>6. /\ r \in Result /\ r.rc = 0 /\ r.segm.pos = 0 /\ r.conn = q.conn
        /\ r.segm.state = "RECV_GET_DATA"
    BY <2>4, <2>5, MarkType DEF Statuses
  <2> QED
    BY <2>2, <2>6 DEF Result
<1> QED
  BY <1>3, <1>4 DEF r

LEMMA GetPiece ==
  ASSUME NEW s \in Segment, NEW c \in Conn, ~Eof(c), s.pos = 0,
         s.state = "RECV_GET_REPLY",
         NEW start \in Nat, NEW stop \in Nat, start < stop,
         Nothing(c) \/ \E v \in Versions : OneOf(c, GetReply(v, start, stop))
  PROVE  LET r == cgym_recv_get_reply(s, c, stop - start) IN
         /\ r.rc \in {0, 1}
         /\ r.rc = 1 => r.segm = s /\ r.conn = c
<1> DEFINE a == AfterGetStatus(s, c)
           d == GetData(a.segm, a.conn, stop - start)
           r == cgym_recv_get_reply(s, c, stop - start)
<1>1. r = ClearOnError(IF a.segm.state = "RECV_GET_DATA" THEN d ELSE a)
  BY DEF cgym_recv_get_reply
<1>2. a = GetStatus(s, c)
  BY DEF AfterGetStatus
<1> HIDE DEF r
<1>3. CASE c.avail = <<>>
  <2>1. a.segm = s /\ a.conn = c /\ a.rc = 1
    <3>1. <<>> \in Seq(Unit)
      BY EmptySeq
    <3>2. /\ GetStatus(s, c).segm = s /\ GetStatus(s, c).conn = c
          /\ GetStatus(s, c).rc = 1
      BY <1>3, <3>1, GetStatusPiece
    <3> HIDE DEF a
    <3> QED
      BY <1>2, <3>2
  <2> HIDE DEF a
  <2>2. r = a
    BY <1>1, <2>1 DEF ClearOnError
  <2> QED
    BY <2>1, <2>2 DEF r
<1>4. ASSUME NEW v \in Versions, c.avail = GetReply(v, start, stop)
      PROVE  r.rc = 0
  <2> DEFINE piece == Slice(v, start, stop) \o EndMsg
  <2>1. piece \in Seq(Unit) /\ c.avail = OkMsg \o piece
    BY <1>4, PieceType
  <2>2. /\ a.segm \in Segment /\ a.segm.state = "RECV_GET_DATA" /\ a.segm.pos = 0
        /\ a.conn = Left(c, piece)
    <3> HIDE DEF piece
    <3>1. /\ GetStatus(s, c).segm \in Segment
          /\ GetStatus(s, c).segm.state = "RECV_GET_DATA"
          /\ GetStatus(s, c).segm.pos = 0
          /\ GetStatus(s, c).conn = Left(c, piece)
      BY <2>1, GetStatusPiece
    <3> HIDE DEF a
    <3> QED
      BY <1>2, <3>1
  <2> HIDE DEF a
  <2>3. a.conn \in Conn /\ ~Eof(a.conn) /\ a.conn.avail = piece
    <3> HIDE DEF piece
    <3> QED
      BY <2>1, <2>2, LeftType
  <2>4. d.rc = 0
    BY <2>2, <2>3, BytesPiece
  <2>5. r = d
    BY <1>1, <2>2, <2>4 DEF ClearOnError
  <2> HIDE DEF d
  <2> QED
    BY <2>4, <2>5
<1>5. c.avail = <<>> \/ \E v \in Versions : c.avail = GetReply(v, start, stop)
  BY DEF OneOf, Nothing
<1>6. r.rc \in {0, 1} /\ (r.rc = 1 => r.segm = s /\ r.conn = c)
  BY <1>3, <1>4, <1>5 DEF r
<1> QED
  BY <1>6 DEF r

-----------------------------------------------------------------------------
(* Counting connections.                                                   *)
LEMMA FdsFinite ==
  ASSUME NEW cn
  PROVE  /\ IsFiniteSet(OpenFds(cn)) /\ Cardinality(OpenFds(cn)) \in Nat
         /\ Cardinality(OpenFds(cn)) <= MaxFd
         /\ Cardinality(OpenFds(cn)) < MaxFd => \E f \in Fds : cn[f].st = "free"
<1>1. MaxFd \in Nat \ {0}
  BY GetAssumption
<1>2. IsFiniteSet(Fds) /\ Cardinality(Fds) = MaxFd
  <2>1. 1 \in Int /\ MaxFd \in Int /\ ~(1 > MaxFd) /\ MaxFd - 1 + 1 = MaxFd
    BY <1>1
  <2> QED
    BY <2>1, FS_Interval DEF Fds
<1>3. OpenFds(cn) \in SUBSET Fds
  BY DEF OpenFds
<1>4. /\ IsFiniteSet(OpenFds(cn)) /\ Cardinality(OpenFds(cn)) <= MaxFd
      /\ Cardinality(Fds) = Cardinality(OpenFds(cn)) => Fds = OpenFds(cn)
  BY <1>2, <1>3, FS_Subset
<1>5. Cardinality(OpenFds(cn)) \in Nat
  BY <1>4, FS_CardinalityType
<1>6. ASSUME Cardinality(OpenFds(cn)) < MaxFd
      PROVE  \E f \in Fds : cn[f].st = "free"
  <2>1. OpenFds(cn) # Fds
    BY <1>1, <1>2, <1>5, <1>6
  <2> QED
    BY <2>1 DEF OpenFds
<1> QED
  BY <1>4, <1>5, <1>6

LEMMA StuckFinite ==
  ASSUME NEW sg \in Seq(Segment)
  PROVE  /\ IsFiniteSet(Stuck(sg)) /\ Cardinality(Stuck(sg)) \in Nat
         /\ Cardinality(Stuck(sg)) <= Len(sg)
         /\ IsFiniteSet(Undone(sg)) /\ Cardinality(Undone(sg)) <= Len(sg)
         /\ \A k \in 1 .. Len(sg) : k \notin Stuck(sg) => Cardinality(Stuck(sg)) < Len(sg)
<1>1. Len(sg) \in Nat
  OBVIOUS
<1>2. IsFiniteSet(1 .. Len(sg)) /\ Cardinality(1 .. Len(sg)) = Len(sg)
  <2>1. 1 \in Int /\ Len(sg) \in Int
        /\ (IF 1 > Len(sg) THEN 0 ELSE Len(sg) - 1 + 1) = Len(sg)
    BY <1>1
  <2> QED
    BY <2>1, FS_Interval
<1>3. Undone(sg) \in SUBSET (1 .. Len(sg)) /\ Stuck(sg) \in SUBSET (1 .. Len(sg))
  BY DEF Undone, Stuck
<1>4. IsFiniteSet(Undone(sg)) /\ Cardinality(Undone(sg)) <= Len(sg)
  BY <1>2, <1>3, FS_Subset
<1>5. /\ IsFiniteSet(Stuck(sg)) /\ Cardinality(Stuck(sg)) <= Len(sg)
      /\ Cardinality(1 .. Len(sg)) = Cardinality(Stuck(sg)) => 1 .. Len(sg) = Stuck(sg)
  BY <1>2, <1>3, FS_Subset
<1>6. Cardinality(Stuck(sg)) \in Nat
  BY <1>5, FS_CardinalityType
<1>7. ASSUME NEW k \in 1 .. Len(sg), k \notin Stuck(sg)
      PROVE  Cardinality(Stuck(sg)) < Len(sg)
  <2>1. Cardinality(Stuck(sg)) # Len(sg)
    BY <1>2, <1>5, <1>7
  <2> QED
    BY <1>1, <1>5, <1>6, <2>1
<1> QED
  BY <1>4, <1>5, <1>6, <1>7

LEMMA OpenBound ==
  ASSUME NEW sg \in Seq(Segment), NEW cn, OpenFds(cn) \subseteq Live(sg)
  PROVE  Cardinality(OpenFds(cn)) <= Len(sg)
<1> DEFINE f == [k \in Undone(sg) |-> sg[k].fd]
<1>1. f \in Surjection(Undone(sg), Live(sg))
  BY DEF Surjection, Live
<1>2. IsFiniteSet(Undone(sg)) /\ Cardinality(Undone(sg)) <= Len(sg)
  BY StuckFinite
<1> HIDE DEF f
<1>3. IsFiniteSet(Live(sg)) /\ Cardinality(Live(sg)) <= Cardinality(Undone(sg))
  BY <1>1, <1>2, FS_Surjection
<1>4. OpenFds(cn) \in SUBSET Live(sg)
  OBVIOUS
<1>5. Cardinality(OpenFds(cn)) <= Cardinality(Live(sg))
  BY <1>3, <1>4, FS_Subset
<1>6. /\ Cardinality(OpenFds(cn)) \in Nat /\ Cardinality(Live(sg)) \in Nat
      /\ Cardinality(Undone(sg)) \in Nat /\ Len(sg) \in Nat
  BY <1>2, <1>3, FdsFinite, FS_CardinalityType
<1> QED
  BY <1>2, <1>3, <1>5, <1>6

-----------------------------------------------------------------------------
(* One segment and its connection change.                                  *)
Put(f, x, v) == [f EXCEPT ![x] = v]

(* s is not stuck, or t is too.                                            *)
Counted(s, t)  == s.state # "CONNECTED" \/ (~Done(t) /\ t.state = "CONNECTED")

LEMMA CalmReplace ==
  ASSUME NEW sg, NEW cn, Sound(sg, cn), Calm(sg, cn),
         NEW k \in 1 .. Len(sg), ~Done(sg[k]),
         NEW t \in Segment, NEW c \in Conn, t.fd = sg[k].fd,
         Steady(c), Fit(k, t, c), t.status = "DONE" => c.st = "free",
         Counted(sg[k], t) \/ OpenFds(cn) \subseteq Live(sg)
  PROVE  /\ Calm(Put(sg, k, t), Put(cn, t.fd, c))
         /\ OpenFds(cn) \subseteq Live(sg) =>
              OpenFds(Put(cn, t.fd, c)) \subseteq Live(Put(sg, k, t))
<1> DEFINE sgn == Put(sg, k, t)
           cnn == Put(cn, t.fd, c)
<1>1. /\ sg \in Seq(Segment) /\ cn \in [Fds -> Conn]
      /\ \A j, l \in 1 .. Len(sg) : sg[j].fd = sg[l].fd => j = l
  BY DEF Sound
<1>2. /\ sgn \in Seq(Segment) /\ Len(sgn) = Len(sg)
      /\ \A j \in 1 .. Len(sg) : sgn[j] = IF j = k THEN t ELSE sg[j]
  BY <1>1 DEF Put
<1>3. t.fd \in Fds /\ \A j \in 1 .. Len(sg) : sg[j] \in Segment /\ sg[j].fd \in Fds
  <2>1. \A s \in Segment : s.fd \in Fds
    BY DEF Segment
  <2>2. \A j \in 1 .. Len(sg) : sg[j] \in Segment
    BY <1>1
  <2> QED
    BY <2>1, <2>2
<1>4. /\ cnn \in [Fds -> Conn]
      /\ \A f \in Fds : cnn[f] = IF f = t.fd THEN c ELSE cn[f]
  BY <1>1, <1>3 DEF Put
<1> HIDE DEF sgn, cnn
<1>5. \A f \in Fds : Steady(cnn[f])
  BY <1>4 DEF Calm
<1>6. \A j \in 1 .. Len(sgn) : Fit(j, sgn[j], cnn[sgn[j].fd])
  <2> TAKE j \in 1 .. Len(sgn)
  <2>1. CASE j = k
    BY <1>2, <1>3, <1>4, <2>1
  <2>2. CASE j # k
    <3>1. sgn[j] = sg[j] /\ sg[j].fd # t.fd /\ j \in 1 .. Len(sg)
      BY <1>1, <1>2, <2>2
    <3>2. cnn[sgn[j].fd] = cn[sg[j].fd]
      BY <1>3, <1>4, <3>1
    <3>3. Fit(j, sg[j], cn[sg[j].fd])
      BY <3>1 DEF Calm
    <3> QED
      BY <3>1, <3>2, <3>3
  <2> QED
    BY <2>1, <2>2
<1>7. OpenFds(cnn) \subseteq OpenFds(cn)
  <2>1. cn[t.fd].st # "free"
    BY DEF Calm, Fit
  <2> QED
    BY <1>4, <2>1 DEF OpenFds
<1>8. ASSUME OpenFds(cn) \subseteq Live(sg)
      PROVE  OpenFds(cnn) \subseteq Live(sgn)
  <2> SUFFICES ASSUME NEW f \in OpenFds(cnn)
               PROVE  f \in Live(sgn)
    OBVIOUS
  <2>1. CASE f = t.fd
    <3>1. c.st # "free"
      BY <1>3, <1>4, <2>1 DEF OpenFds
    <3>2. k \in Undone(sgn) /\ sgn[k].fd = f
      BY <1>2, <2>1, <3>1 DEF Undone, Done
    <3> QED
      BY <3>2 DEF Live
  <2>2. CASE f # t.fd
    <3>1. PICK j \in Undone(sg) : f = sg[j].fd
      BY <1>7, <1>8 DEF Live
    <3>2. j \in 1 .. Len(sg) /\ j # k
      BY <2>2, <3>1 DEF Undone
    <3>3. j \in Undone(sgn) /\ sgn[j].fd = f
      BY <1>2, <3>1, <3>2 DEF Undone
    <3> QED
      BY <3>3 DEF Live
  <2> QED
    BY <2>1, <2>2
<1>9. Cardinality(OpenFds(cnn)) <= Len(sgn) + Cardinality(Stuck(sgn))
  <2>1. Cardinality(OpenFds(cnn)) \in Nat /\ Cardinality(OpenFds(cn)) \in Nat
        /\ Cardinality(OpenFds(cnn)) <= Cardinality(OpenFds(cn))
    <3>1. OpenFds(cnn) \in SUBSET OpenFds(cn)
      BY <1>7
    <3> QED
      BY <3>1, FdsFinite, FS_Subset
  <2>2. /\ Cardinality(Stuck(sg)) \in Nat /\ Cardinality(Stuck(sgn)) \in Nat
        /\ IsFiniteSet(Stuck(sgn)) /\ Len(sg) \in Nat
    BY <1>1, <1>2, StuckFinite
  <2>3. CASE OpenFds(cn) \subseteq Live(sg)
    <3>1. Cardinality(OpenFds(cnn)) <= Len(sgn)
      BY <1>2, <1>8, <2>3, OpenBound
    <3> QED
      BY <1>2, <2>1, <2>2, <3>1
  <2>4. CASE Counted(sg[k], t)
    <3>1. Stuck(sg) \in SUBSET Stuck(sgn)
      <4> SUFFICES ASSUME NEW j \in Stuck(sg)
                   PROVE  j \in Stuck(sgn)
        OBVIOUS
      <4>1. j \in 1 .. Len(sg) /\ ~Done(sg[j]) /\ sg[j].state = "CONNECTED"
        BY DEF Stuck, Undone
      <4>2. ~Done(sgn[j]) /\ sgn[j].state = "CONNECTED"
        BY <1>2, <2>4, <4>1 DEF Done, Counted
      <4> QED
        BY <1>2, <4>1, <4>2 DEF Stuck, Undone
    <3>2. Cardinality(Stuck(sg)) <= Cardinality(Stuck(sgn))
      BY <2>2, <3>1, FS_Subset
    <3>3. Cardinality(OpenFds(cn)) <= Len(sg) + Cardinality(Stuck(sg))
      BY DEF Calm
    <3> QED
      BY <1>2, <2>1, <2>2, <3>2, <3>3
  <2> QED
    BY <2>3, <2>4
<1>10. Calm(sgn, cnn)
  BY <1>5, <1>6, <1>8, <1>9 DEF Calm
<1> QED
  BY <1>8, <1>10 DEF sgn, cnn

(* One more connection, which no segment has.                              *)
LEMMA NewConnSteady ==
  ASSUME NEW s, NEW mode
  PROVE  Steady(NewConn(s, mode)) /\ NewConn(s, mode).st # "free"
<1>1. /\ NewConn(s, mode).st \in {"opening", "up"}
      /\ NewConn(s, mode).fin = FALSE /\ NewConn(s, mode).req = NoReq
  BY DEF NewConn, FreeConn
<1> QED
  BY <1>1 DEF Steady, NoReq

LEMMA DialledConns ==
  ASSUME NEW sl, NEW p, NEW cn \in [Fds -> Conn], NEW fd \in Fds,
         NEW mode \in ConnectModes, Dialled(sl, p, cn, fd, mode)
  PROVE  /\ cn[fd].st = "free" /\ conn'[fd] = NewConn(sl[p], mode)
         /\ \A f \in Fds \ {fd} : conn'[f] = cn[f]
         /\ OpenFds(conn') = OpenFds(cn) \cup {fd}
         /\ Cardinality(OpenFds(conn')) = Cardinality(OpenFds(cn)) + 1
<1>1. cn[fd].st = "free"
  BY DEF Dialled, IsLowestFree, FreeFds
<1>2. conn'[fd] = NewConn(sl[p], mode) /\ \A f \in Fds \ {fd} : conn'[f] = cn[f]
  BY DEF Dialled
<1>3. conn'[fd].st # "free"
  BY <1>2, NewConnSteady
<1>4. OpenFds(conn') = OpenFds(cn) \cup {fd}
  BY <1>2, <1>3 DEF OpenFds
<1>5. fd \notin OpenFds(cn)
  BY <1>1 DEF OpenFds
<1>6. Cardinality(OpenFds(conn')) = Cardinality(OpenFds(cn)) + 1
  BY <1>4, <1>5, FdsFinite, FS_AddElement
<1> QED
  BY <1>1, <1>2, <1>4, <1>6

LEMMA CalmDial ==
  ASSUME NEW sl, NEW p, NEW sg, NEW cn, Sound(sg, cn), Calm(sg, cn), ~whole,
         Cardinality(OpenFds(cn)) < Len(sg) + Cardinality(Stuck(sg)),
         NEW fd \in Fds, NEW mode \in ConnectModes, Dialled(sl, p, cn, fd, mode)
  PROVE  Calm(sg, conn')
<1>1. cn \in [Fds -> Conn] /\ sg \in Seq(Segment)
  BY DEF Sound
<1>2. /\ cn[fd].st = "free" /\ conn'[fd] = NewConn(sl[p], mode)
      /\ \A f \in Fds \ {fd} : conn'[f] = cn[f]
      /\ OpenFds(conn') = OpenFds(cn) \cup {fd}
      /\ Cardinality(OpenFds(conn')) = Cardinality(OpenFds(cn)) + 1
  <2>1. cn \in [Fds -> Conn]
    BY <1>1
  <2>2. Dialled(sl, p, cn, fd, mode)
    OBVIOUS
  <2> QED
    BY <2>1, <2>2, DialledConns
<1>3. \A f \in Fds : Steady(conn'[f])
  BY <1>2, NewConnSteady DEF Calm
<1>4. \A k \in 1 .. Len(sg) : Fit(k, sg[k], conn'[sg[k].fd])
  <2> TAKE k \in 1 .. Len(sg)
  <2>1. Fit(k, sg[k], cn[sg[k].fd])
    BY DEF Calm
  <2>2. sg[k] \in Segment
    BY <1>1
  <2>3. sg[k].fd \in Fds
    BY <2>2 DEF Segment
  <2>4. CASE Done(sg[k])
    BY <2>1, <2>4 DEF Fit
  <2>5. CASE ~Done(sg[k])
    <3>1. sg[k].fd # fd
      BY <1>2, <2>1, <2>5 DEF Fit
    <3> QED
      BY <1>2, <2>1, <2>3, <3>1
  <2> QED
    BY <2>4, <2>5
<1>5. Cardinality(OpenFds(conn')) <= Len(sg) + Cardinality(Stuck(sg))
  <2>1. Cardinality(OpenFds(cn)) \in Nat /\ Len(sg) \in Nat
        /\ Cardinality(Stuck(sg)) \in Nat
    BY <1>1, FdsFinite, StuckFinite
  <2> QED
    BY <1>2, <2>1
<1> QED
  BY <1>3, <1>4, <1>5 DEF Calm

(* The segments are all Healthy speaks of when nothing else changes.       *)
LEMMA CalmNext ==
  ASSUME UNCHANGED <<e, whole>>, Calm(segm', conn')
  PROVE  /\ Calm(segm, conn)'
         /\ OpenFds(conn') \subseteq Live(segm') => (OpenFds(conn) \subseteq Live(segm))'
<1> DEFINE n == NrSegments
<1>1. NrSegments' = NrSegments
  BY DEF NrSegments
<1>2. \A f \in Fds : Steady(conn'[f])
  BY DEF Calm
<1>3. (\A f \in Fds : Steady(conn[f]))'
  BY <1>2 DEF Steady
<1>4. \A k \in 1 .. Len(segm') : Fit(k, segm'[k], conn'[segm'[k].fd])
  BY DEF Calm
<1>5. (\A k \in 1 .. Len(segm) : Fit(k, segm[k], conn[segm[k].fd]))'
  BY <1>1, <1>4 DEF Fit, Start, Stop
<1>6. /\ Cardinality(OpenFds(conn')) <= Len(segm') + Cardinality(Stuck(segm'))
      /\ whole => OpenFds(conn') \subseteq Live(segm')
  BY DEF Calm
<1>7. /\ (Cardinality(OpenFds(conn)) <= Len(segm) + Cardinality(Stuck(segm)))'
      /\ (whole => OpenFds(conn) \subseteq Live(segm))'
  BY <1>6 DEF OpenFds, Stuck, Live, Undone, Done
<1>8. OpenFds(conn') \subseteq Live(segm') => (OpenFds(conn) \subseteq Live(segm))'
  BY DEF OpenFds, Live, Undone, Done
<1> QED
  BY <1>3, <1>5, <1>7, <1>8 DEF Calm

(* One more segment with its connection.                                   *)
LEMMA NewFit ==
  ASSUME NEW s, NEW mode \in AllModes, NEW fd, NEW k
  PROVE  Fit(k, NewSegm(fd, DialledState(mode)), NewConn(s, mode))
<1> DEFINE t == NewSegm(fd, DialledState(mode))
           c == NewConn(s, mode)
<1>1. t.pos = 0 /\ t.state = DialledState(mode) /\ t.status = "IDLE"
  BY DEF NewSegm
<1>2. c.req = NoReq /\ c.avail = <<>> /\ c.flight = <<>> /\ c.st # "free"
      /\ c.greeted = (mode = "greeted")
  BY DEF NewConn, FreeConn
<1>3. mode \in {"progress", "up", "greeted"}
  BY DEF AllModes
<1> HIDE DEF t, c
<1>4. OnePiece(t, c, Start(k - 1), Stop(k - 1))
  <2>1. CASE mode \in {"progress", "up"}
    <3>1. t.state \in {"CONNECTING", "RECV_HANDSHAKE"}
      BY <1>1, <2>1 DEF DialledState
    <3> QED
      BY <1>1, <1>2, <2>1, <3>1 DEF OnePiece, Nothing
  <2>2. CASE mode = "greeted"
    <3>1. t.state = "CONNECTED"
      BY <1>1, <2>2 DEF DialledState
    <3> QED
      BY <1>1, <1>2, <2>2, <3>1 DEF OnePiece, Nothing
  <2> QED
    BY <1>3, <2>1, <2>2
<1>5. t.state # "ERR"
  BY <1>1, <1>3 DEF DialledState
<1>6. Fit(k, t, c)
  BY <1>2, <1>4, <1>5 DEF Fit
<1> QED
  BY <1>6 DEF t, c

LEMMA CalmAppend ==
  ASSUME Sound(segm, conn), Calm(segm, conn), OpenFds(conn) \subseteq Live(segm),
         NEW sl \in Lists, NEW p \in 1 .. NServers + 1, NEW fd \in Fds,
         NEW mode \in ConnectModes, Dialled(sl, p, conn, fd, mode),
         segm' = Append(segm, NewSegm(fd, DialledState(mode))), segm' \in Seq(Segment)
  PROVE  Calm(segm', conn') /\ OpenFds(conn') \subseteq Live(segm')
<1> DEFINE t == NewSegm(fd, DialledState(mode))
           n == Len(segm)
<1>1. conn \in [Fds -> Conn] /\ segm \in Seq(Segment) /\ n \in Nat
  BY DEF Sound
<1>2. /\ conn[fd].st = "free" /\ conn'[fd] = NewConn(sl[p], mode)
      /\ \A f \in Fds \ {fd} : conn'[f] = conn[f]
      /\ OpenFds(conn') = OpenFds(conn) \cup {fd}
      /\ Cardinality(OpenFds(conn')) = Cardinality(OpenFds(conn)) + 1
  <2>1. conn \in [Fds -> Conn] /\ Dialled(sl, p, conn, fd, mode)
    BY <1>1
  <2> QED
    BY <2>1, DialledConns
<1>3. Len(segm') = n + 1 /\ segm'[n + 1] = t /\ \A k \in 1 .. n : segm'[k] = segm[k]
  BY <1>1
<1>4. t.fd = fd /\ t.status = "IDLE"
  BY DEF NewSegm
<1>5. mode \in AllModes
  BY GetAssumption
<1>6. \A k \in 1 .. n : segm[k].fd \in Fds
  <2>1. \A s \in Segment : s.fd \in Fds
    BY DEF Segment
  <2>2. \A k \in 1 .. n : segm[k] \in Segment
    BY <1>1
  <2> QED
    BY <2>1, <2>2
<1>7. Fit(n + 1, t, conn'[fd])
  BY <1>2, <1>5, NewFit
<1> HIDE DEF t, n
<1>8. \A f \in Fds : Steady(conn'[f])
  BY <1>2, NewConnSteady DEF Calm
<1>9. \A k \in 1 .. n : Fit(k, segm'[k], conn'[segm'[k].fd])
  <2> TAKE k \in 1 .. n
  <2>1. Fit(k, segm[k], conn[segm[k].fd]) /\ segm'[k] = segm[k] /\ segm[k].fd \in Fds
    BY <1>3, <1>6 DEF Calm, n
  <2>2. CASE Done(segm[k])
    BY <2>1, <2>2 DEF Fit
  <2>3. CASE ~Done(segm[k])
    <3>1. segm[k].fd # fd
      BY <1>2, <2>1, <2>3 DEF Fit
    <3> QED
      BY <1>2, <2>1, <3>1
  <2> QED
    BY <2>2, <2>3
<1>10. \A k \in 1 .. Len(segm') : Fit(k, segm'[k], conn'[segm'[k].fd])
  <2> TAKE k \in 1 .. Len(segm')
  <2>1. k \in 1 .. n \/ k = n + 1
    BY <1>1, <1>3
  <2>2. CASE k = n + 1
    BY <1>3, <1>4, <1>7, <2>2
  <2> QED
    BY <1>9, <2>1, <2>2
<1>11. OpenFds(conn') \subseteq Live(segm')
  <2> SUFFICES ASSUME NEW f \in OpenFds(conn')
               PROVE  f \in Live(segm')
    OBVIOUS
  <2>1. CASE f = fd
    <3>1. n + 1 \in Undone(segm') /\ segm'[n + 1].fd = f
      BY <1>1, <1>3, <1>4, <2>1 DEF Undone, Done
    <3> QED
      BY <3>1 DEF Live
  <2>2. CASE f # fd
    <3>1. PICK j \in Undone(segm) : f = segm[j].fd
      BY <1>2, <2>2 DEF Live
    <3>2. j \in 1 .. n /\ j \in 1 .. n + 1
      BY <1>1, <3>1 DEF Undone, n
    <3>3. j \in Undone(segm') /\ segm'[j].fd = f
      BY <1>3, <3>1, <3>2 DEF Undone
    <3> QED
      BY <3>3 DEF Live
  <2> QED
    BY <2>1, <2>2
<1>12. Cardinality(OpenFds(conn')) <= Len(segm') + Cardinality(Stuck(segm'))
  <2>1. Cardinality(OpenFds(conn')) <= Len(segm')
    BY <1>11, OpenBound
  <2>2. /\ Cardinality(OpenFds(conn')) \in Nat /\ Len(segm') \in Nat
        /\ Cardinality(Stuck(segm')) \in Nat
    <3>1. Cardinality(OpenFds(conn')) \in Nat
      BY FdsFinite
    <3>2. Cardinality(Stuck(segm')) \in Nat
      BY StuckFinite, Zenon
    <3>3. Len(segm') \in Nat
      OBVIOUS
    <3> QED
      BY <3>1, <3>2, <3>3
  <2> QED
    BY <2>1, <2>2
<1> QED
  BY <1>8, <1>10, <1>11, <1>12 DEF Calm

(* The network does something to a connection.                             *)
Serves(c, d) ==
  \A s, start, stop : OnePiece(s, c, start, stop) => OnePiece(s, d, start, stop)

LEMMA CalmUpdate ==
  ASSUME Sound(segm, conn), Calm(segm, conn), NEW f \in Fds, NEW c,
         Steady(c), c.st = "free" <=> conn[f].st = "free",
         whole => Serves(conn[f], c)
  PROVE  /\ Calm(segm, [conn EXCEPT ![f] = c])
         /\ OpenFds([conn EXCEPT ![f] = c]) = OpenFds(conn)
<1> DEFINE cn == [conn EXCEPT ![f] = c]
<1>1. conn \in [Fds -> Conn] /\ segm \in Seq(Segment)
  BY DEF Sound
<1>2. cn[f] = c /\ \A g \in Fds \ {f} : cn[g] = conn[g]
  BY <1>1
<1> HIDE DEF cn
<1>3. OpenFds(cn) = OpenFds(conn)
  BY <1>2 DEF OpenFds
<1>4. \A g \in Fds : Steady(cn[g])
  BY <1>2 DEF Calm
<1>5. \A k \in 1 .. Len(segm) : Fit(k, segm[k], cn[segm[k].fd])
  <2> TAKE k \in 1 .. Len(segm)
  <2>1. Fit(k, segm[k], conn[segm[k].fd])
    BY DEF Calm
  <2>2. segm[k] \in Segment
    BY <1>1
  <2>3. segm[k].fd \in Fds
    BY <2>2 DEF Segment
  <2>4. CASE segm[k].fd = f
    BY <1>2, <2>1, <2>4 DEF Fit, Serves
  <2>5. CASE segm[k].fd # f
    BY <1>2, <2>1, <2>3, <2>5
  <2> QED
    BY <2>4, <2>5
<1>6. Calm(segm, cn)
  BY <1>3, <1>4, <1>5 DEF Calm
<1> QED
  BY <1>3, <1>6 DEF cn

-----------------------------------------------------------------------------
(* What does not disturb a download.                                       *)
LEMMA FaultsCounted ==
  ASSUME Next \/ UNCHANGED vars
  PROVE  /\ faults' = faults \/ Fault
         /\ UNCHANGED mirror \/ edits' = edits + 1
<1>1. CASE Connect \/ Handshake \/ ReadSizeStatus \/ ReadSizeLine
  BY <1>1 DEF Connect, Handshake, ReadSizeStatus, ReadSizeLine, NoFault, mirror
<1>2. \A sl, p, cn : SetupFails(sl, p, cn) => faults' = faults \/ Fault
  BY DEF SetupFails, NoFault
<1>3. \A k, sg, sl, cn, next : Retry(k, sg, sl, cn, next) => faults' = faults \/ Fault
  BY <1>2 DEF Retry, NoFault
<1>4. CASE DivideByZero \/ InitFirst \/ InitSegment \/ InitDone
  BY <1>2, <1>4 DEF DivideByZero, InitFirst, InitSegment, InitDone, NoFault, mirror
<1>5. CASE Loop \/ BuildSets \/ Select \/ PassDone \/ Assemble
  BY <1>3, <1>5 DEF Loop, BuildSets, Select, PassDone, Assemble, NoFault, mirror
<1>6. CASE Pass
  <2>1. PICK k \in 0 .. Len(segm) - 1 :
          Connecting(k) \/ Sizing(k) \/ Getting(k) \/ Unhandled(k)
    BY <1>6 DEF Pass
  <2>2. \A j, r : Keep(j, r) => faults' = faults
    BY DEF Keep, NoFault
  <2>3. \A j, r, req, state : SendRequest(j, r, req, state) => faults' = faults \/ Fault
    BY <1>3, <2>2 DEF SendRequest
  <2>4. \A j, r : Mismatch(j, r) => faults' = faults \/ Fault
    BY <1>3, <2>2 DEF Mismatch
  <2>5. ASSUME Connecting(k)
        PROVE  faults' = faults \/ Fault
    BY <1>3, <2>2, <2>3, <2>5 DEF Connecting
  <2>6. ASSUME Sizing(k)
        PROVE  faults' = faults \/ Fault
    BY <1>3, <2>2, <2>3, <2>4, <2>6 DEF Sizing
  <2>7. ASSUME Getting(k)
        PROVE  faults' = faults \/ Fault
    BY <1>3, <2>2, <2>7 DEF Getting
  <2>8. ASSUME Unhandled(k)
        PROVE  faults' = faults \/ Fault
    BY <2>8 DEF Unhandled
  <2>9. UNCHANGED mirror
    BY <1>6, SMTT(30) DEF Pass, mirror
  <2> QED
    BY <2>1, <2>5, <2>6, <2>7, <2>8, <2>9
<1>7. CASE Network \/ Disturb
  BY <1>7 DEF Network, Disturb, Establish, Deliver, Accept, Answer, Refuse, Drop,
     NoFault, mirror
<1>8. CASE Edit
  BY <1>8 DEF Edit
<1>9. CASE Terminated \/ UNCHANGED vars
  BY <1>9 DEF Terminated, vars, mirror
<1> QED
  BY <1>1, <1>4, <1>5, <1>6, <1>7, <1>8, <1>9 DEF Next, Client

LEMMA BeforeUndisturbed ==
  ASSUME IInv, [Next]_vars, Undisturbed'
  PROVE  Undisturbed /\ faults' = faults /\ UNCHANGED <<cur, whole, edits>>
<1>1. faults \in Nat /\ edits \in Nat
  BY GetAssumption DEF IInv, TypeOK
<1>2. faults' = 0 /\ edits' = 0
  BY DEF Undisturbed
<1>3. /\ faults' = faults \/ Fault
      /\ UNCHANGED mirror \/ edits' = edits + 1
  BY FaultsCounted
<1>4. faults' = faults
  BY <1>1, <1>2, <1>3 DEF Fault
<1>5. UNCHANGED <<cur, whole, edits>>
  BY <1>1, <1>2, <1>3 DEF mirror
<1>6. AllAgree
  BY <1>5 DEF Undisturbed, AllAgree
<1> QED
  BY <1>2, <1>4, <1>5, <1>6 DEF Undisturbed

(* Quiet in the next state, when the entry stays as it is.                 *)
LEMMA QuietNext ==
  ASSUME Quiet, UNCHANGED <<e, cur, whole, slist>>, Calm(segm', conn'),
         pc' \in Preparing \ {"plan"} => pc \in Preparing \ {"plan"},
         pc' \in Preparing \cup {"init"} => OpenFds(conn') \subseteq Live(segm')
  PROVE  Quiet'
<1>1. /\ Calm(segm, conn)'
      /\ OpenFds(conn') \subseteq Live(segm') => (OpenFds(conn) \subseteq Live(segm))'
  BY CalmNext
<1>2. (pc \in Preparing \ {"plan"} => e = NoVersion)'
  BY DEF Quiet, Preparing
<1>3. (pc \in Preparing \cup {"init"} => OpenFds(conn) \subseteq Live(segm))'
  BY <1>1 DEF Preparing
<1>4. (e \in Versions => \A s \in Servers : cur[s] = e)'
      /\ (\A s \in Servers : slist[s] = s)'
  BY DEF Quiet
<1> QED
  BY <1>1, <1>2, <1>3, <1>4 DEF Quiet

LEMMA UpdateQuiet ==
  ASSUME IInv, pc \in Running, Quiet, NEW f \in Fds, NEW c,
         Steady(c), c.st = "free" <=> conn[f].st = "free",
         whole => Serves(conn[f], c),
         Update(f, c), UNCHANGED <<client, mirror>>
  PROVE  Quiet'
<1>1. Sound(segm, conn)
  BY NowSound
<1>2. /\ pc' = pc /\ segm' = segm /\ conn' = [conn EXCEPT ![f] = c]
      /\ UNCHANGED <<e, cur, whole, slist>>
  BY DEF Update, client, mirror
<1>3. Calm(segm, conn)
  BY DEF Quiet
<1>4. /\ Calm(segm, [conn EXCEPT ![f] = c])
      /\ OpenFds([conn EXCEPT ![f] = c]) = OpenFds(conn)
  BY <1>1, <1>3, CalmUpdate
<1>5. Calm(segm', conn') /\ OpenFds(conn') = OpenFds(conn)
  BY <1>2, <1>4
<1>6. pc' \in Preparing \cup {"init"} => OpenFds(conn') \subseteq Live(segm')
  BY <1>2, <1>5 DEF Quiet
<1> QED
  BY <1>2, <1>5, <1>6, QuietNext

LEMMA EstablishQuiet ==
  ASSUME IInv, pc \in Running, Quiet, NEW f \in Fds, Establish(f),
         UNCHANGED <<client, mirror>>
  PROVE  Quiet'
<1> DEFINE c == conn[f]
           d == [c EXCEPT !.st = "up"]
<1>1. c \in Conn
  BY DEF IInv, TypeOK
<1>2. Steady(c)
  BY DEF Quiet, Calm
<1>3. c.st = "opening" /\ Update(f, d)
  BY DEF Establish
<1> HIDE DEF c
<1>4. /\ d.st = "up" /\ d.fin = c.fin /\ d.req = c.req /\ d.avail = c.avail
      /\ d.flight = c.flight /\ d.greeted = c.greeted
  BY <1>1 DEF Conn
<1> HIDE DEF d
<1>5. Steady(d)
  BY <1>2, <1>4 DEF Steady
<1>6. Serves(c, d)
  BY <1>4 DEF Serves, OnePiece, OneOf, Nothing
<1>7. d.st = "free" <=> c.st = "free"
  BY <1>3, <1>4
<1> QED
  BY <1>3, <1>5, <1>6, <1>7, UpdateQuiet DEF c

LEMMA DeliverQuiet ==
  ASSUME IInv, pc \in Running, Quiet, NEW f \in Fds, Deliver(f),
         UNCHANGED <<client, mirror>>
  PROVE  Quiet'
<1> DEFINE c == conn[f]
           n == IF whole THEN Len(c.flight) ELSE 1
           d == [c EXCEPT !.avail = @ \o SubSeq(c.flight, 1, n),
                          !.flight = SubSeq(c.flight, n + 1, Len(c.flight))]
<1>1. c \in Conn
  BY DEF IInv, TypeOK
<1>2. Steady(c)
  BY DEF Quiet, Calm
<1>3. c.flight # <<>> /\ Update(f, d)
  BY DEF Deliver
<1> HIDE DEF c
<1>4. /\ d.st = c.st /\ d.fin = c.fin /\ d.req = c.req /\ d.greeted = c.greeted
      /\ d.avail = c.avail \o SubSeq(c.flight, 1, n)
      /\ d.flight = SubSeq(c.flight, n + 1, Len(c.flight))
  BY <1>1 DEF Conn
<1>5. c.flight \in Seq(Unit) /\ c.avail \in Seq(Unit)
  BY <1>1 DEF Conn
<1>6. ASSUME whole, c.avail = <<>>
      PROVE  d.avail = c.flight /\ d.flight = <<>>
  <2> DEFINE x == SubSeq(c.flight, 1, Len(c.flight))
             y == SubSeq(c.flight, Len(c.flight) + 1, Len(c.flight))
  <2>1. x = c.flight /\ y = <<>>
    BY <1>5
  <2>2. d.avail = c.avail \o x /\ d.flight = y
    BY <1>4, <1>6
  <2> HIDE DEF x, y, d
  <2> QED
    BY <1>5, <1>6, <2>1, <2>2, ConcatEmptySeq
<1> HIDE DEF d
<1>7. Steady(d)
  BY <1>2, <1>4 DEF Steady
<1>8. ASSUME whole
      PROVE  Serves(c, d)
  <2>1. \A m : OneOf(c, m) => OneOf(d, m)
    BY <1>3, <1>6, <1>8 DEF OneOf
  <2>2. ~Nothing(c)
    BY <1>3 DEF Nothing
  <2> QED
    BY <1>3, <1>4, <2>1, <2>2, ZenonT(30) DEF Serves, OnePiece
<1>9. d.st = "free" <=> c.st = "free"
  BY <1>4
<1> QED
  BY <1>3, <1>7, <1>8, <1>9, UpdateQuiet DEF c

LEMMA AcceptQuiet ==
  ASSUME IInv, pc \in Running, Quiet, NEW f \in Fds, NEW s \in Servers, Accept(s, f),
         UNCHANGED <<client, mirror>>
  PROVE  Quiet'
<1> DEFINE c == conn[f]
           d == [c EXCEPT !.greeted = TRUE, !.flight = @ \o AckMsg]
<1>1. c \in Conn
  BY DEF IInv, TypeOK
<1>2. Steady(c)
  BY DEF Quiet, Calm
<1>3. ~c.greeted /\ Update(f, d)
  BY DEF Accept
<1> HIDE DEF c
<1>4. /\ d.st = c.st /\ d.fin = c.fin /\ d.req = c.req /\ d.greeted = TRUE
      /\ d.avail = c.avail /\ d.flight = c.flight \o AckMsg
  BY <1>1 DEF Conn
<1> HIDE DEF d
<1>5. Steady(d)
  BY <1>2, <1>4 DEF Steady
<1>6. Nothing(c) => OneOf(d, AckMsg)
  <2>1. <<>> \o AckMsg = AckMsg
    BY MessagesType, ConcatEmptySeq
  <2> QED
    BY <1>4, <2>1 DEF Nothing, OneOf
<1>7. Serves(c, d)
  BY <1>3, <1>4, <1>6 DEF Serves, OnePiece
<1>8. d.st = "free" <=> c.st = "free"
  BY <1>4
<1> QED
  BY <1>3, <1>5, <1>7, <1>8, UpdateQuiet DEF c

(* No server has reason to refuse.                                         *)
LEMMA AnswerQuiet ==
  ASSUME IInv, pc \in Running, Undisturbed, Quiet, NEW f \in Fds, NEW s \in Servers,
         Answer(s, f), UNCHANGED <<client, mirror>>
  PROVE  Quiet'
<1> DEFINE c == conn[f]
           v == cur[s]
           rq == c.req
           reply(msg, end) == [c EXCEPT !.req = NoReq, !.flight = @ \o msg, !.fin = end]
<1>1. c \in Conn /\ v \in Versions \cup {NoVersion} /\ e \in Versions \cup {NoVersion}
  BY DEF IInv, TypeOK
<1>2. Steady(c)
  BY DEF Quiet, Calm
<1>3. v # NoVersion /\ v \in Versions
  BY <1>1 DEF Undisturbed, AllAgree
<1>4. rq.op = "get" => HasRange(v, rq.from, rq.to)
  <2> SUFFICES ASSUME rq.op = "get"
               PROVE  HasRange(v, rq.from, rq.to)
    OBVIOUS
  <2>1. HasRange(e, rq.from, rq.to)
    BY <1>2 DEF Steady
  <2>2. e \in Versions
    BY <1>1, <2>1 DEF HasRange
  <2>3. v = e
    BY <2>2 DEF Quiet
  <2> QED
    BY <2>1, <2>3
<1>5. rq.op \in {"size", "get"}
  <2>1. rq \in Requests
    BY <1>1 DEF Conn
  <2>2. rq.op # "none"
    BY DEF Answer
  <2> QED
    BY <2>1, <2>2 DEF Requests
<1> DEFINE m == IF rq.op = "size" THEN SizeReply(v) ELSE GetReply(v, rq.from, rq.to)
           d == reply(m, FALSE)
<1>6. Update(f, d)
  <2>1. CASE rq.op = "size"
    BY <1>3, <2>1 DEF Answer
  <2>2. CASE rq.op = "get"
    BY <1>4, <2>2 DEF Answer
  <2> QED
    BY <1>5, <2>1, <2>2
<1>7. m \in Seq(Unit)
  <2>1. CASE rq.op = "size"
    BY <1>3, <2>1, MessagesType
  <2>2. CASE rq.op = "get"
    <3>1. rq.from \in Nat /\ rq.to \in Nat /\ rq.from < rq.to
      BY <1>1, <1>4, <2>2 DEF HasRange, Conn, Requests
    <3> DEFINE piece == Slice(v, rq.from, rq.to) \o EndMsg
    <3>2. piece \in Seq(Unit) /\ GetReply(v, rq.from, rq.to) = OkMsg \o piece
      BY <1>3, <3>1, PieceType
    <3> HIDE DEF piece
    <3>3. OkMsg \o piece \in Seq(Unit)
      BY <3>2, MessagesType
    <3> QED
      BY <2>2, <3>2, <3>3
  <2> QED
    BY <1>5, <2>1, <2>2
<1> HIDE DEF c, m
<1>8. /\ d.st = c.st /\ d.fin = FALSE /\ d.req = NoReq /\ d.greeted = c.greeted
      /\ d.avail = c.avail /\ d.flight = c.flight \o m
  BY <1>1 DEF Conn
<1> HIDE DEF d
<1>9. Steady(d)
  BY <1>2, <1>8 DEF Steady, NoReq
<1>10. Nothing(c) => OneOf(d, m)
  <2>1. <<>> \o m = m
    BY <1>7, ConcatEmptySeq
  <2> QED
    BY <1>8, <2>1 DEF Nothing, OneOf
<1>11. Serves(c, d)
  <2> SUFFICES ASSUME NEW t, NEW start, NEW stop, OnePiece(t, c, start, stop)
               PROVE  OnePiece(t, d, start, stop)
    BY DEF Serves
  <2>1. rq # NoReq
    BY <1>5 DEF NoReq
  <2>2. CASE rq = SizeReq
    <3>1. m = SizeReply(v)
      BY <2>2 DEF m, SizeReq
    <3>2. t.state = "RECV_SIZE_REPLY" /\ t.pos = 0 /\ c.greeted /\ Nothing(c)
      BY <2>2 DEF OnePiece, SizeReq, GetReq, NoReq
    <3> QED
      BY <1>3, <1>8, <1>10, <3>1, <3>2 DEF OnePiece
  <2>3. CASE rq # SizeReq
    <3>1. /\ t.state = "RECV_GET_REPLY" /\ t.pos = 0 /\ c.greeted /\ Nothing(c)
          /\ rq = GetReq(start, stop)
      BY <2>1, <2>3 DEF OnePiece
    <3>2. m = GetReply(v, start, stop)
      BY <3>1 DEF m, GetReq
    <3> QED
      BY <1>3, <1>8, <1>10, <3>1, <3>2 DEF OnePiece
  <2> QED
    BY <2>2, <2>3
<1>12. d.st = "free" <=> c.st = "free"
  BY <1>8
<1> QED
  BY <1>6, <1>9, <1>11, <1>12, UpdateQuiet DEF c

LEMMA NetworkQuiet ==
  ASSUME IInv, Undisturbed, Quiet, Network
  PROVE  Quiet'
BY EstablishQuiet, DeliverQuiet, AcceptQuiet, AnswerQuiet DEF Network

-----------------------------------------------------------------------------
(* What the client's functions make of a segment that is fit.              *)
LEMMA SteadySame ==
  ASSUME NEW c, NEW d, SameConn(d, c), Steady(c)
  PROVE  Steady(d) /\ ~Eof(c) /\ ~d.fin
  BY DEF SameConn, Steady, Eof

LEMMA LooseFit ==
  ASSUME NEW k, NEW s, NEW c, ~whole, s.state # "ERR", c.st # "free"
  PROVE  Fit(k, s, c)
  BY DEF Fit

LEMMA Drained ==
  ASSUME NEW c \in Conn, c.flight = <<>>, NEW d, d = Left(c, <<>>)
  PROVE  Nothing(d) /\ d.greeted = c.greeted
  BY DEF Left, Conn, Nothing

LEMMA SentSteady ==
  ASSUME NEW c \in Conn, Steady(c), NEW req \in Requests,
         req.op = "get" => HasRange(e, req.from, req.to)
  PROVE  /\ Steady(Sent(c, req)) /\ Sent(c, req).st = c.st /\ Sent(c, req) \in Conn
         /\ Sent(c, req).req = req /\ Sent(c, req).greeted = c.greeted
         /\ Sent(c, req).avail = c.avail /\ Sent(c, req).flight = c.flight
<1> DEFINE d == [c EXCEPT !.req = req]
<1>1. Sent(c, req) = d
  BY DEF Sent, Steady
<1>2. d \in Conn
  BY DEF Conn
<1>3. /\ d.st = c.st /\ d.fin = c.fin /\ d.req = req /\ d.greeted = c.greeted
      /\ d.avail = c.avail /\ d.flight = c.flight
  BY DEF Conn
<1> HIDE DEF d
<1>4. Steady(d)
  BY <1>3 DEF Steady
<1> QED
  BY <1>1, <1>2, <1>3, <1>4

LEMMA ConnectFits ==
  ASSUME NEW k, NEW s \in Segment, NEW c \in Conn, s.pos <= Len(s.buf), s.pos < 2,
         s.state \in {"CONNECTING", "RECV_HANDSHAKE"}, s.status # "DONE",
         NEW len \in Nat, PosOK(s, len),
         Steady(c), Fit(k, s, c), NEW start, NEW stop, Expects(s, c, start, stop)
  PROVE  LET r == cgym_sock_connect(s, c)
             q == To(r, "RECV_SIZE_REPLY")
             d == Sent(r.conn, SizeReq)
         IN  /\ r \in Result /\ r.rc \in {0, 1} /\ r.segm.status # "DONE"
             /\ r.segm.fd = s.fd /\ Steady(r.conn) /\ ~r.conn.fin
             /\ r.rc = 1 => Fit(k, r.segm, r.conn)
             /\ r.rc = 0 => /\ OnConn(q, d) \in Result /\ OnConn(q, d).segm = q.segm
                            /\ OnConn(q, d).conn = d
                            /\ q.segm.fd = s.fd /\ q.segm.status # "DONE"
                            /\ Steady(d) /\ Fit(k, q.segm, d)
<1> DEFINE r == cgym_sock_connect(s, c)
           q == To(r, "RECV_SIZE_REPLY")
           d == Sent(r.conn, SizeReq)
<1>1. /\ r \in Result /\ SameSock(r, s, c) /\ r.segm.status = s.status
      /\ r.rc = 0 => r.segm.state = "CONNECTED"
      /\ r.rc = 1 => r.segm.state = "RECV_HANDSHAKE"
  BY ConnectType
<1>2. /\ SameConn(r.conn, c)
      /\ r.rc = 0 => c.greeted /\ c.req = NoReq
      /\ r.rc > 1 => Eof(c)
  BY ConnectStream
<1>3. ASSUME whole, c.st # "free"
      PROVE  /\ r.segm.pos = 0
             /\ r.rc = 1 => r.conn = c /\ s.pos = 0
                            /\ c.req = NoReq
                            /\ IF c.greeted THEN OneOf(c, AckMsg) ELSE Nothing(c)
             /\ r.rc = 0 => r.conn = Left(c, <<>>) /\ c.flight = <<>>
  <2>1. OnePiece(s, c, Start(k - 1), Stop(k - 1))
    BY <1>3 DEF Fit, Done
  <2>2. s.pos = 0 /\ c.req = NoReq /\ IF c.greeted THEN OneOf(c, AckMsg) ELSE Nothing(c)
    BY <2>1 DEF OnePiece
  <2>3. ~Eof(c)
    BY <1>2, SteadySame
  <2> QED
    BY <2>2, <2>3, ConnectPiece
<1> HIDE DEF r
<1>4. Steady(r.conn) /\ ~Eof(c) /\ ~r.conn.fin
  BY <1>2, SteadySame
<1>5. r.rc \in {0, 1}
  BY <1>1, <1>2, <1>4 DEF Result
<1>6. c.st # "free"
  BY DEF Fit, Done
<1>7. r.conn.st # "free" /\ r.conn \in Conn
  BY <1>1, <1>6 DEF SameSock, Result
<1>8. ASSUME r.rc = 1
      PROVE  Fit(k, r.segm, r.conn)
  <2>1. whole => OnePiece(r.segm, r.conn, Start(k - 1), Stop(k - 1))
    BY <1>1, <1>3, <1>6, <1>8 DEF OnePiece
  <2> QED
    BY <1>1, <1>7, <1>8, <2>1 DEF Fit
<1>9. ASSUME r.rc = 0
      PROVE  /\ OnConn(q, d) \in Result /\ OnConn(q, d).segm = q.segm
             /\ OnConn(q, d).conn = d
             /\ q.segm.fd = s.fd /\ q.segm.status # "DONE"
             /\ Steady(d) /\ Fit(k, q.segm, d)
  <2>1. "RECV_SIZE_REPLY" \in SockStates /\ SizeReq \in Requests /\ SizeReq.op = "size"
    BY DEF SockStates, SizeReq, Requests
  <2>2. /\ q \in Result /\ q.segm.state = "RECV_SIZE_REPLY"
        /\ q.segm.status = r.segm.status /\ q.segm.pos = r.segm.pos /\ q.segm.fd = r.segm.fd
    BY <1>1, <2>1, ToType
  <2> HIDE DEF q
  <2>3. /\ Steady(d) /\ d.st = r.conn.st /\ d \in Conn
        /\ d.req = SizeReq /\ d.greeted = r.conn.greeted
        /\ d.avail = r.conn.avail /\ d.flight = r.conn.flight
    BY <1>4, <1>7, <2>1, SentSteady
  <2> HIDE DEF d
  <2>4. OnConn(q, d) \in Result /\ OnConn(q, d).segm = q.segm /\ OnConn(q, d).conn = d
    BY <2>2, <2>3, OnConnType
  <2>5. ASSUME whole
        PROVE  OnePiece(q.segm, d, Start(k - 1), Stop(k - 1))
    <3>1. r.segm.pos = 0 /\ r.conn = Left(c, <<>>) /\ c.flight = <<>>
      BY <1>3, <1>6, <1>9, <2>5
    <3>2. Nothing(r.conn) /\ r.conn.greeted
      <4>1. Nothing(r.conn) /\ r.conn.greeted = c.greeted
        BY <3>1, Drained
      <4> QED
        BY <1>2, <1>9, <4>1
    <3> QED
      BY <2>2, <2>3, <3>1, <3>2 DEF OnePiece, Nothing
  <2>6. Fit(k, q.segm, d)
    BY <1>7, <2>2, <2>3, <2>5 DEF Fit
  <2> QED
    BY <1>1, <2>2, <2>3, <2>4, <2>6 DEF SameSock
<1> QED
  BY <1>1, <1>4, <1>5, <1>8, <1>9 DEF r, SameSock

(* A GET for the bytes of the segment, which the file has.                 *)
LEMMA SizeFits ==
  ASSUME NEW k, NEW s \in Segment, NEW c \in Conn, NEW len \in Nat, PosOK(s, len),
         s.state \in {"RECV_SIZE_REPLY", "RECV_SIZE_DATA"}, s.status # "DONE",
         Steady(c), Fit(k, s, c), NEW start, NEW stop, Expects(s, c, start, stop),
         GetReq(Start(k - 1), Stop(k - 1)) \in Requests,
         HasRange(e, Start(k - 1), Stop(k - 1))
  PROVE  LET r == cgym_recv_size_reply(s, c)
             q == To(r, "RECV_GET_REPLY")
             d == Sent(r.conn, GetReq(Start(k - 1), Stop(k - 1)))
         IN  /\ r \in Result /\ r.segm.status # "DONE"
             /\ r.segm.fd = s.fd /\ Steady(r.conn) /\ ~r.conn.fin
             /\ r.rc = 1 => Fit(k, r.segm, r.conn)
             /\ r.rc > 1 => ~whole /\ r.segm.state = "CONNECTED" /\ Fit(k, r.segm, r.conn)
             /\ r.rc = 0 => /\ OnConn(q, d) \in Result /\ OnConn(q, d).segm = q.segm
                            /\ OnConn(q, d).conn = d
                            /\ q.segm.fd = s.fd /\ q.segm.status # "DONE"
                            /\ Steady(d) /\ Fit(k, q.segm, d)
                            /\ Held(c, SizeReplyEntry(s, c)) /\ c.srv \in Servers
<1> DEFINE r == cgym_recv_size_reply(s, c)
           req == GetReq(Start(k - 1), Stop(k - 1))
           q == To(r, "RECV_GET_REPLY")
           d == Sent(r.conn, req)
<1>1. /\ r \in Result /\ SameSock(r, s, c) /\ r.segm.status = s.status
      /\ r.rc = 0 => r.segm.state = "CONNECTED"
  BY SizeReplyType
<1>2. /\ SameConn(r.conn, c) /\ c.greeted /\ Greeted(c)
      /\ r.rc = 0 => Held(c, SizeReplyEntry(s, c)) /\ c.req = NoReq
      /\ r.rc = 1 => r.segm.state \in {"RECV_SIZE_REPLY", "RECV_SIZE_DATA"}
      /\ r.rc > 1 => Eof(c) \/ r.segm.state = "CONNECTED"
  BY SizeReplyStream
<1>3. c.st # "free"
  BY DEF Fit, Done
<1>4. Steady(r.conn) /\ ~Eof(c) /\ ~r.conn.fin
  BY <1>2, SteadySame
<1>5. ASSUME whole
      PROVE  /\ r.rc \in {0, 1} /\ OnePiece(s, c, Start(k - 1), Stop(k - 1))
             /\ r.rc = 1 => r.segm = s /\ r.conn = c
             /\ r.rc = 0 => /\ r.segm.pos = 0 /\ r.conn = Left(c, <<>>)
                            /\ c.flight = <<>>
  <2>1. OnePiece(s, c, Start(k - 1), Stop(k - 1))
    BY <1>5 DEF Fit, Done
  <2>2. CASE s.state = "RECV_SIZE_REPLY"
    <3>1. s.pos = 0 /\ (Nothing(c) \/ \E v \in Versions : OneOf(c, SizeReply(v)))
      BY <2>1, <2>2 DEF OnePiece
    <3>2. c.flight = <<>> \/ c.avail = <<>>
      BY <3>1 DEF Nothing, OneOf
    <3> QED
      BY <1>4, <2>1, <2>2, <3>1, <3>2, SizePiece
  <2>3. CASE s.state = "RECV_SIZE_DATA"
    <3>1. s.pos = 0 /\ c.flight = <<>>
          /\ \E v \in Versions : c.avail = <<Entry(v), CRLF>> \o EndMsg
      BY <2>1, <2>3 DEF OnePiece
    <3> QED
      BY <1>4, <2>1, <2>3, <3>1, SizePiece
  <2> QED
    BY <2>2, <2>3
<1> HIDE DEF r, req
<1>6. r.conn.st # "free" /\ r.conn \in Conn
  BY <1>1, <1>3 DEF SameSock, Result
<1>7. ASSUME r.rc = 1
      PROVE  Fit(k, r.segm, r.conn)
  <2>1. CASE whole
    BY <1>5, <1>7, <2>1
  <2>2. CASE ~whole
    BY <1>2, <1>6, <1>7, <2>2, LooseFit
  <2> QED
    BY <2>1, <2>2
<1>8. ASSUME r.rc > 1
      PROVE  ~whole /\ r.segm.state = "CONNECTED" /\ Fit(k, r.segm, r.conn)
  <2>1. ~whole
    BY <1>5, <1>8
  <2> QED
    BY <1>2, <1>4, <1>6, <1>8, <2>1, LooseFit
<1>9. ASSUME r.rc = 0
      PROVE  /\ OnConn(q, d) \in Result /\ OnConn(q, d).segm = q.segm
             /\ OnConn(q, d).conn = d
             /\ q.segm.fd = s.fd /\ q.segm.status # "DONE"
             /\ Steady(d) /\ Fit(k, q.segm, d)
             /\ c.srv \in Servers
  <2>1. /\ "RECV_GET_REPLY" \in SockStates /\ req \in Requests
        /\ HasRange(e, req.from, req.to)
    BY DEF SockStates, req, GetReq
  <2>2. /\ q \in Result /\ q.segm.state = "RECV_GET_REPLY"
        /\ q.segm.status = r.segm.status /\ q.segm.pos = r.segm.pos /\ q.segm.fd = r.segm.fd
    BY <1>1, <2>1, ToType
  <2> HIDE DEF q
  <2>3. /\ Steady(d) /\ d.st = r.conn.st /\ d \in Conn
        /\ d.req = req /\ d.greeted = r.conn.greeted
        /\ d.avail = r.conn.avail /\ d.flight = r.conn.flight
    BY <1>4, <1>6, <2>1, SentSteady
  <2> HIDE DEF d
  <2>4. OnConn(q, d) \in Result /\ OnConn(q, d).segm = q.segm /\ OnConn(q, d).conn = d
    BY <2>2, <2>3, OnConnType
  <2>5. ASSUME whole
        PROVE  OnePiece(q.segm, d, Start(k - 1), Stop(k - 1))
    <3>1. r.segm.pos = 0 /\ r.conn = Left(c, <<>>) /\ c.flight = <<>>
      BY <1>5, <1>9, <2>5
    <3>2. Nothing(r.conn) /\ r.conn.greeted
      <4>1. Nothing(r.conn) /\ r.conn.greeted = c.greeted
        BY <3>1, Drained
      <4> QED
        BY <1>2, <4>1
    <3> QED
      BY <2>2, <2>3, <3>1, <3>2 DEF OnePiece, Nothing, req
  <2>6. Fit(k, q.segm, d)
    BY <1>6, <2>2, <2>3, <2>5 DEF Fit
  <2>7. c.srv \in Servers
    BY <1>2 DEF Greeted
  <2> QED
    BY <1>1, <2>2, <2>3, <2>4, <2>6, <2>7 DEF SameSock
<1> QED
  BY <1>1, <1>2, <1>4, <1>7, <1>8, <1>9 DEF r, req, SameSock

LEMMA GetFits ==
  ASSUME NEW k, NEW s \in Segment, NEW c \in Conn,
         NEW start, NEW stop, start = Start(k - 1), stop = Stop(k - 1),
         start \in Nat, stop \in Nat, start < stop,
         PosOK(s, stop - start), s.status # "DONE",
         s.state \in {"RECV_GET_REPLY", "RECV_GET_DATA"},
         Steady(c), Fit(k, s, c), Expects(s, c, start, stop)
  PROVE  LET r == cgym_recv_get_reply(s, c, stop - start) IN
         /\ r \in Result /\ r.segm.fd = s.fd /\ Steady(r.conn)
         /\ r.segm.status = "DONE" <=> r.rc = 0
         /\ r.rc = 1 => Fit(k, r.segm, r.conn)
         /\ r.rc > 1 => ~whole /\ r.segm.state = "CONNECTED" /\ Fit(k, r.segm, r.conn)
<1> DEFINE r == cgym_recv_get_reply(s, c, stop - start)
<1>0. stop - start \in Nat
  OBVIOUS
<1>1. r \in Result /\ SameSock(r, s, c) /\ (r.segm.status = "DONE" <=> r.rc = 0)
  BY <1>0, GetReplyType
<1>2. /\ SameConn(r.conn, c)
      /\ r.rc = 1 => r.segm.state \in {"RECV_GET_REPLY", "RECV_GET_DATA"}
      /\ r.rc > 1 => Eof(c) \/ r.segm.state = "CONNECTED"
  BY GetReplyStream
<1>3. c.st # "free"
  BY DEF Fit, Done
<1>4. Steady(r.conn) /\ ~Eof(c)
  BY <1>2, SteadySame
<1>5. ASSUME whole
      PROVE  r.rc \in {0, 1} /\ (r.rc = 1 => r.segm = s /\ r.conn = c)
  <2>1. OnePiece(s, c, start, stop)
    BY <1>5 DEF Fit, Done
  <2>2. s.pos = 0 /\ s.state = "RECV_GET_REPLY"
        /\ (Nothing(c) \/ \E v \in Versions : OneOf(c, GetReply(v, start, stop)))
    BY <2>1 DEF OnePiece
  <2> QED
    BY <1>4, <2>2, GetPiece
<1> HIDE DEF r
<1>6. r.conn.st # "free"
  BY <1>1, <1>3 DEF SameSock
<1>7. ASSUME r.rc = 1
      PROVE  Fit(k, r.segm, r.conn)
  <2>1. CASE whole
    BY <1>5, <1>7, <2>1
  <2>2. CASE ~whole
    BY <1>2, <1>6, <1>7, <2>2, LooseFit
  <2> QED
    BY <2>1, <2>2
<1>8. ASSUME r.rc > 1
      PROVE  ~whole /\ r.segm.state = "CONNECTED" /\ Fit(k, r.segm, r.conn)
  <2>1. ~whole
    BY <1>5, <1>8
  <2> QED
    BY <1>2, <1>4, <1>6, <1>8, <2>1, LooseFit
<1> QED
  BY <1>1, <1>4, <1>7, <1>8 DEF r, SameSock

-----------------------------------------------------------------------------
(* The steps of the first connection.                                      *)
Peaceful ==
  /\ IInv /\ StreamInv /\ IInv' /\ StreamInv'
  /\ Undisturbed /\ Quiet
  /\ faults' = faults /\ UNCHANGED <<cur, whole, edits>>

Onward == Quiet' /\ (Ample /\ Fine => Fine')

LEMMA Faultless ==
  ASSUME Peaceful
  PROVE  ~Fault
<1>1. faults \in Nat /\ faults' = faults
  BY GetAssumption DEF Peaceful, IInv, TypeOK
<1> QED
  BY <1>1 DEF Fault

LEMMA ConnectOnward ==
  ASSUME Peaceful, Connect
  PROVE  Onward
<1> DEFINE t == NewSegm(1, "RECV_HANDSHAKE")
           c == NewConn(slist[1], "up")
<1>1. /\ pc = "connect" /\ segm' = <<t>> /\ conn' = [conn EXCEPT ![1] = c]
      /\ pc' = "handshake" /\ ret' = ret
      /\ UNCHANGED <<e, slist, cur, whole>>
  BY Faultless DEF Connect, Goto, mirror
<1>2. /\ segm = <<>> /\ conn \in [Fds -> Conn] /\ 1 \in Fds /\ segm' \in Seq(Segment)
  <2>1. 1 \in Fds
    BY GetAssumption DEF Fds
  <2> QED
    BY <1>1, <2>1 DEF Peaceful, IInv, TypeOK
<1>3. Quiet
  BY DEF Peaceful
<1>4. \A f \in Fds : conn[f].st = "free"
  <2>1. OpenFds(conn) \subseteq Live(segm)
    BY <1>1, <1>3 DEF Quiet, Preparing
  <2>2. Undone(segm) = {}
    <3>1. Len(segm) = 0
      BY <1>2
    <3>2. 1 .. 0 = {}
      OBVIOUS
    <3> QED
      BY <3>1, <3>2 DEF Undone
  <2> QED
    BY <2>1, <2>2 DEF OpenFds, Live
<1>5. conn'[1] = c /\ \A f \in Fds \ {1} : conn'[f] = conn[f]
  BY <1>1, <1>2
<1>6. Len(segm') = 1 /\ segm'[1] = t /\ t.fd = 1 /\ t.status = "IDLE"
  BY <1>1 DEF NewSegm
<1>7. Fit(1, t, c)
  <2>1. "up" \in AllModes /\ DialledState("up") = "RECV_HANDSHAKE"
    BY DEF AllModes, DialledState
  <2> QED
    BY <2>1, NewFit
<1>8. Steady(c)
  BY NewConnSteady
<1> HIDE DEF t, c
<1>9. \A f \in Fds : Steady(conn'[f])
  BY <1>3, <1>5, <1>8 DEF Quiet, Calm
<1>10. \A k \in 1 .. Len(segm') : Fit(k, segm'[k], conn'[segm'[k].fd])
  <2>1. \A k \in 1 .. Len(segm') : k = 1
    BY <1>6
  <2> QED
    BY <1>5, <1>6, <1>7, <2>1
<1>11. OpenFds(conn') \subseteq Live(segm')
  <2>1. OpenFds(conn') \subseteq {1}
    BY <1>4, <1>5 DEF OpenFds
  <2>2. 1 \in Undone(segm')
    BY <1>6 DEF Undone, Done
  <2>3. 1 \in Live(segm')
    BY <1>6, <2>2 DEF Live
  <2> QED
    BY <2>1, <2>3
<1>12. Cardinality(OpenFds(conn')) <= Len(segm') + Cardinality(Stuck(segm'))
  <2>1. Cardinality(OpenFds(conn')) <= Len(segm')
    BY <1>2, <1>11, OpenBound
  <2>2. Cardinality(OpenFds(conn')) \in Nat
    BY FdsFinite
  <2>3. Cardinality(Stuck(segm')) \in Nat
    BY <1>2, StuckFinite, Zenon
  <2> QED
    BY <1>6, <2>1, <2>2, <2>3
<1>13. Calm(segm', conn')
  BY <1>9, <1>10, <1>11, <1>12 DEF Calm
<1>14. Quiet'
  BY <1>1, <1>3, <1>11, <1>13, QuietNext DEF Preparing
<1>15. Fine => Fine'
  BY <1>1 DEF Fine
<1> QED
  BY <1>14, <1>15 DEF Onward

(* Segment 0 and its connection change.                                    *)
LEMMA FirstCalm ==
  ASSUME IInv, Quiet, pc \in {"handshake", "sizeStatus", "sizeLine", "plan"},
         NEW t \in Segment, NEW c \in Conn, t.fd = segm[1].fd, t.status # "DONE",
         Steady(c), Fit(1, t, c),
         segm' = <<t>>, conn' = [conn EXCEPT ![t.fd] = c]
  PROVE  Calm(segm', conn') /\ OpenFds(conn') \subseteq Live(segm')
<1>1. Len(segm) = 1 /\ segm[1].status # "DONE" /\ segm[1] \in Segment
  BY FirstFound
<1>2. Sound(segm, conn)
  BY NowSound DEF Running
<1>3. Calm(segm, conn) /\ OpenFds(conn) \subseteq Live(segm)
  BY DEF Quiet, Preparing
<1>4. 1 \in 1 .. Len(segm) /\ ~Done(segm[1])
  BY <1>1 DEF Done
<1> DEFINE sg == [segm EXCEPT ![1] = t]
<1>5. /\ Calm(sg, [conn EXCEPT ![t.fd] = c])
      /\ OpenFds([conn EXCEPT ![t.fd] = c]) \subseteq Live(sg)
  <2>1. /\ Calm(Put(segm, 1, t), Put(conn, t.fd, c))
        /\ OpenFds(Put(conn, t.fd, c)) \subseteq Live(Put(segm, 1, t))
    BY <1>2, <1>3, <1>4, CalmReplace
  <2> QED
    BY <2>1 DEF Put
<1>6. sg = <<t>>
  <2>1. segm \in Seq(Segment)
    BY <1>2 DEF Sound
  <2>2. sg \in Seq(Segment) /\ Len(sg) = 1 /\ sg[1] = t
    <3>1. sg \in Seq(Segment) /\ Len(sg) = Len(segm)
      BY <1>4, <2>1
    <3>2. sg[1] = t
      BY <1>4, <2>1
    <3> QED
      BY <1>1, <3>1, <3>2
  <2> HIDE DEF sg
  <2>3. <<t>> \in Seq(Segment) /\ Len(<<t>>) = 1 /\ <<t>>[1] = t
    OBVIOUS
  <2>4. \A j \in 1 .. Len(sg) : sg[j] = <<t>>[j]
    BY <2>2, <2>3
  <2> QED
    BY <2>2, <2>3, <2>4, SeqEqual
<1> HIDE DEF sg
<1> QED
  BY <1>5, <1>6

LEMMA HandshakeOnward ==
  ASSUME Peaceful, Handshake
  PROVE  Onward
<1> DEFINE s == segm[1]
           c == first
           r == cgym_sock_connect(s, c)
           q == To(r, "RECV_SIZE_REPLY")
           d == Sent(r.conn, SizeReq)
           w == OnConn(q, d)
<1>1. IInv /\ StreamInv /\ Quiet /\ pc = "handshake"
  BY DEF Peaceful, Handshake
<1>2. /\ s \in Segment /\ c \in Conn /\ PosOK(s, 0) /\ s.status # "DONE"
      /\ Expects(s, c, Start(0), Stop(0)) /\ s.state = "RECV_HANDSHAKE"
      /\ Len(segm) = 1
  BY <1>1, FirstExpects, FirstFound
<1>3. Steady(c) /\ Fit(1, s, c)
  <2>1. s.fd \in Fds
    BY <1>2 DEF Segment
  <2>2. 1 \in 1 .. Len(segm)
    BY <1>2
  <2> QED
    BY <1>1, <2>1, <2>2 DEF Quiet, Calm, first
<1>4. UNCHANGED <<e, slist, cur, whole>>
  BY DEF Peaceful, Handshake
<1>5. \/ r.rc # 0 /\ First(r) /\ Exit(2)
      \/ r.rc = 0 /\ First(w) /\ Goto("sizeStatus")
      \/ SendMayFail(r.conn)
  BY DEF Handshake
<1>14. s = segm[1]
  OBVIOUS
<1> HIDE DEF s, c
<1>6. s.pos <= Len(s.buf) /\ s.pos < 2 /\ s.state \in {"CONNECTING", "RECV_HANDSHAKE"}
  BY <1>2 DEF PosOK
<1>7. /\ r \in Result /\ r.rc \in {0, 1} /\ r.segm.status # "DONE"
      /\ r.segm.fd = s.fd /\ Steady(r.conn) /\ ~r.conn.fin
      /\ r.rc = 1 => Fit(1, r.segm, r.conn)
      /\ r.rc = 0 => /\ w \in Result /\ w.segm = q.segm
                     /\ w.conn = d
                     /\ q.segm.fd = s.fd /\ q.segm.status # "DONE"
                     /\ Steady(d) /\ Fit(1, q.segm, d)
  <2>1. 0 \in Nat
    OBVIOUS
  <2> QED
    BY <1>2, <1>3, <1>6, <2>1, ConnectFits
<1> HIDE DEF r, q, d, w
<1>8. \E x \in {r, w} :
        /\ x \in Result /\ First(x) /\ x.segm.fd = s.fd /\ x.segm.status # "DONE"
        /\ Steady(x.conn) /\ Fit(1, x.segm, x.conn)
        /\ Exit(2) \/ Goto("sizeStatus")
  BY <1>5, <1>7 DEF SendMayFail
<1>9. PICK x : /\ x \in Result /\ First(x) /\ x.segm.fd = s.fd /\ x.segm.status # "DONE"
               /\ Steady(x.conn) /\ Fit(1, x.segm, x.conn)
               /\ Exit(2) \/ Goto("sizeStatus")
  BY <1>8
<1>10. x.segm \in Segment /\ x.conn \in Conn
  BY <1>9 DEF Result
<1>11. segm' = <<x.segm>> /\ conn' = [conn EXCEPT ![x.segm.fd] = x.conn]
  BY <1>9 DEF First
<1>12. Calm(segm', conn') /\ OpenFds(conn') \subseteq Live(segm')
  BY <1>1, <1>9, <1>10, <1>11, <1>14, FirstCalm
<1>13. Quiet'
  <2>1. pc \in Preparing \ {"plan"}
    BY <1>1 DEF Preparing
  <2> QED
    BY <1>1, <1>4, <1>12, <2>1, QuietNext
<1>15. Fine => Fine'
  BY <1>9 DEF Fine, Exit, Goto
<1> QED
  BY <1>13, <1>15 DEF Onward

LEMMA ReadSizeStatusOnward ==
  ASSUME Peaceful, ReadSizeStatus
  PROVE  Onward
<1> DEFINE s == segm[1]
           c == first
           r == SizeStatus(s, c)
<1>1. IInv /\ StreamInv /\ Quiet /\ pc = "sizeStatus"
  BY DEF Peaceful, ReadSizeStatus
<1>2. /\ s \in Segment /\ c \in Conn /\ PosOK(s, 0) /\ s.status # "DONE"
      /\ c.st # "free"
      /\ Expects(s, c, Start(0), Stop(0)) /\ s.state = "RECV_SIZE_REPLY"
      /\ Len(segm) = 1
  BY <1>1, FirstExpects, FirstFound
<1>3. Steady(c) /\ Fit(1, s, c)
  <2>1. s.fd \in Fds
    BY <1>2 DEF Segment
  <2>2. 1 \in 1 .. Len(segm)
    BY <1>2
  <2> QED
    BY <1>1, <2>1, <2>2 DEF Quiet, Calm, first
<1>4. UNCHANGED <<e, slist, cur, whole>>
  BY DEF Peaceful, ReadSizeStatus
<1>5. First(r) /\ (Exit(4) \/ Goto("sizeLine"))
  BY DEF ReadSizeStatus
<1>6. s = segm[1]
  OBVIOUS
<1> HIDE DEF s, c
<1>7. s.pos <= Len(s.buf) /\ s.pos < 2 /\ Greeted(c) /\ c.greeted
      /\ AwaitsSize(c, Stream(s, c))
  BY <1>2 DEF PosOK, Expects
<1>8. /\ r \in Result /\ SameSock(r, s, c) /\ r.segm.status = s.status
      /\ r.segm.state \in {"RECV_SIZE_REPLY", "RECV_SIZE_DATA", "CONNECTED"}
  <2>1. 0 \in Nat
    OBVIOUS
  <2> QED
    BY <1>2, <2>1, SizeStatusType
<1>9. SameConn(r.conn, c)
  BY <1>2, <1>7, SizeStatusStream
<1>10. Steady(r.conn) /\ ~Eof(c)
  BY <1>3, <1>9, SteadySame
<1>11. ASSUME whole
       PROVE  OnePiece(r.segm, r.conn, Start(0), Stop(0))
  <2>1. OnePiece(s, c, Start(0), Stop(0))
    BY <1>2, <1>3, <1>11 DEF Fit, Done
  <2>2. /\ s.pos = 0
        /\ \/ c.req = SizeReq /\ Nothing(c)
           \/ c.req = NoReq /\ \E v \in Versions : OneOf(c, SizeReply(v))
    BY <1>2, <2>1 DEF OnePiece
  <2>3. CASE c.avail = <<>>
    <3>1. r.segm = s /\ r.conn = c
      BY <1>2, <1>10, <2>2, <2>3, StatusPiece
    <3> HIDE DEF r
    <3> QED
      BY <2>1, <3>1
  <2>4. CASE c.avail # <<>>
    <3>1. PICK v \in Versions : c.avail = SizeReply(v)
      BY <2>2, <2>4 DEF Nothing, OneOf
    <3>2. c.flight = <<>> /\ c.req = NoReq
      BY <2>2, <2>4 DEF Nothing, OneOf
    <3> DEFINE line == <<Entry(v), CRLF>> \o EndMsg
    <3>3. /\ r.segm.state = "RECV_SIZE_DATA" /\ r.segm.pos = 0
          /\ r.conn = Left(c, line)
      BY <1>2, <1>10, <2>2, <3>1, StatusPiece
    <3>4. line \in Seq(Unit)
      BY EntryLineType
    <3>5. r.conn.avail = line
      <4> HIDE DEF r, line
      <4> QED
        BY <1>2, <3>3, <3>4, LeftType
    <3>6. r.conn.flight = <<>> /\ r.conn.req = NoReq /\ r.conn.greeted
      <4> HIDE DEF r
      <4> QED
        BY <1>7, <1>9, <3>2 DEF SameConn
    <3> HIDE DEF r
    <3> QED
      BY <3>3, <3>5, <3>6 DEF OnePiece
  <2> QED
    BY <2>3, <2>4
<1> HIDE DEF r
<1>12. Fit(1, r.segm, r.conn)
  <2>1. r.conn.st # "free" /\ r.segm.state # "ERR"
    BY <1>2, <1>8 DEF SameSock
  <2>2. Start(1 - 1) = Start(0) /\ Stop(1 - 1) = Stop(0)
    OBVIOUS
  <2> QED
    BY <1>11, <2>1, <2>2 DEF Fit
<1>13. r.segm \in Segment /\ r.conn \in Conn /\ r.segm.fd = s.fd /\ r.segm.status # "DONE"
  BY <1>2, <1>8 DEF Result, SameSock
<1>14. segm' = <<r.segm>> /\ conn' = [conn EXCEPT ![r.segm.fd] = r.conn]
  BY <1>5 DEF First
<1>15. Calm(segm', conn') /\ OpenFds(conn') \subseteq Live(segm')
  BY <1>1, <1>6, <1>10, <1>12, <1>13, <1>14, FirstCalm
<1>16. Quiet'
  <2>1. pc \in Preparing \ {"plan"}
    BY <1>1 DEF Preparing
  <2> QED
    BY <1>1, <1>4, <1>15, <2>1, QuietNext
<1>17. Fine => Fine'
  BY <1>5 DEF Fine, Exit, Goto
<1> QED
  BY <1>16, <1>17 DEF Onward

LEMMA ReadSizeLineOnward ==
  ASSUME Peaceful, ReadSizeLine
  PROVE  Onward
<1> DEFINE s == segm[1]
           c == first
           r == SizeLine(s, c)
           v == LineEntry(s, c)
<1>1. IInv /\ StreamInv /\ Quiet /\ pc = "sizeLine"
  BY DEF Peaceful, ReadSizeLine
<1>2. /\ s \in Segment /\ c \in Conn /\ PosOK(s, 0) /\ s.status # "DONE"
      /\ c.st # "free"
      /\ Expects(s, c, Start(0), Stop(0)) /\ s.state = "RECV_SIZE_DATA"
      /\ Len(segm) = 1
  BY <1>1, FirstExpects, FirstFound
<1>3. Steady(c) /\ Fit(1, s, c)
  <2>1. s.fd \in Fds
    BY <1>2 DEF Segment
  <2>2. 1 \in 1 .. Len(segm)
    BY <1>2
  <2> QED
    BY <1>1, <2>1, <2>2 DEF Quiet, Calm, first
<1>4. UNCHANGED <<slist, cur, whole, edits>>
  BY DEF Peaceful, ReadSizeLine
<1>5. /\ First(r)
      /\ \/ r.rc = 0 /\ e' = v /\ Goto("plan")
         \/ r.rc # 0 /\ e' = e /\ Exit(4)
  BY DEF ReadSizeLine
<1>6. s = segm[1]
  OBVIOUS
<1> HIDE DEF s, c, v
<1>7. s.pos <= Len(s.buf) /\ s.pos < MaxLine /\ Greeted(c) /\ c.greeted
      /\ AwaitsEntry(c, Stream(s, c))
  BY <1>2 DEF PosOK, Expects
<1>8. /\ r \in Result /\ SameSock(r, s, c) /\ r.segm.status = s.status
      /\ r.rc = 0 => r.segm.state = "CONNECTED"
      /\ r.rc # 0 => r.segm.state = "RECV_SIZE_DATA"
  <2>1. 0 \in Nat
    OBVIOUS
  <2> QED
    BY <1>2, <2>1, SizeLineType
<1>9. SameConn(r.conn, c) /\ (r.rc = 0 => Held(c, v))
  BY <1>2, <1>7, SizeLineStream DEF v
<1>10. Steady(r.conn) /\ ~Eof(c)
  BY <1>3, <1>9, SteadySame
<1>11. ASSUME whole
       PROVE  r.rc = 0 /\ OnePiece(r.segm, r.conn, Start(0), Stop(0))
  <2>1. OnePiece(s, c, Start(0), Stop(0))
    BY <1>2, <1>3, <1>11 DEF Fit, Done
  <2>2. PICK w \in Versions : c.avail = <<Entry(w), CRLF>> \o EndMsg
    BY <1>2, <2>1 DEF OnePiece
  <2>3. s.pos = 0 /\ c.flight = <<>> /\ c.req = NoReq
    BY <1>2, <2>1 DEF OnePiece
  <2>4. r.rc = 0 /\ r.segm.pos = 0 /\ r.segm.state = "CONNECTED" /\ r.conn = Left(c, <<>>)
    BY <1>2, <1>10, <2>2, <2>3, LinePiece
  <2> HIDE DEF r
  <2>5. Nothing(r.conn) /\ r.conn.greeted = c.greeted
    BY <1>2, <2>3, <2>4, Drained
  <2>6. r.conn.req = NoReq
    BY <1>9, <2>3 DEF SameConn
  <2> QED
    BY <1>7, <2>4, <2>5, <2>6 DEF OnePiece
<1> HIDE DEF r
<1>12. Fit(1, r.segm, r.conn)
  <2>1. r.conn.st # "free" /\ r.segm.state # "ERR"
    BY <1>2, <1>8 DEF SameSock
  <2>2. Start(1 - 1) = Start(0) /\ Stop(1 - 1) = Stop(0)
    OBVIOUS
  <2> QED
    BY <1>11, <2>1, <2>2 DEF Fit
<1>13. r.segm \in Segment /\ r.conn \in Conn /\ r.segm.fd = s.fd /\ r.segm.status # "DONE"
  BY <1>2, <1>8 DEF Result, SameSock
<1>14. segm' = <<r.segm>> /\ conn' = [conn EXCEPT ![r.segm.fd] = r.conn]
  BY <1>5 DEF First
<1>15. Calm(segm', conn') /\ OpenFds(conn') \subseteq Live(segm')
  BY <1>1, <1>6, <1>10, <1>12, <1>13, <1>14, FirstCalm
<1>16. Fine => Fine'
  BY <1>5 DEF Fine, Exit, Goto
<1>17. CASE r.rc # 0 /\ e' = e /\ Exit(4)
  <2>1. pc \in Preparing \ {"plan"}
    BY <1>1 DEF Preparing
  <2>2. Quiet'
    BY <1>1, <1>4, <1>15, <1>17, <2>1, QuietNext
  <2> QED
    BY <1>16, <2>2 DEF Onward
<1>18. CASE r.rc = 0 /\ e' = v /\ Goto("plan")
  <2>1. e = NoVersion /\ \A x \in Servers : slist[x] = x
    BY <1>1 DEF Quiet, Preparing
  <2>2. \A f \in Fds : conn'[f].req.op # "get" /\ Steady(conn'[f])
    BY <1>15, <2>1 DEF Calm, Steady, HasRange
  <2>3. (\A f \in Fds : Steady(conn[f]))'
    BY <2>2 DEF Steady
  <2>4. r.segm.state = "CONNECTED" /\ r.segm.status # "DONE"
    BY <1>8, <1>13, <1>18
  <2>5. (\A k \in 1 .. Len(segm) : Fit(k, segm[k], conn[segm[k].fd]))'
    <3>1. \A k \in 1 .. Len(segm') : k = 1 /\ segm'[k] = r.segm
      BY <1>13, <1>14
    <3> DEFINE d == conn'[segm'[1].fd]
    <3>2. Fit(1, segm'[1], d)
      BY <1>13, <1>14, <1>15 DEF Calm
    <3>3. 1 \in 1 .. Len(segm') /\ segm'[1] = r.segm
      BY <1>13, <1>14
    <3> HIDE DEF d
    <3>4. /\ d.st # "free"
          /\ whole => /\ r.segm.pos = 0 /\ d.greeted /\ d.req = NoReq /\ Nothing(d)
      BY <2>4, <3>2, <3>3 DEF Fit, OnePiece, Done
    <3>5. \A k \in 1 .. Len(segm') :
            /\ segm'[k].state = "CONNECTED" /\ d = conn'[segm'[k].fd]
            /\ segm'[k].pos = r.segm.pos
      BY <2>4, <3>1, <3>3 DEF d
    <3> QED
      BY <1>4, <3>4, <3>5 DEF Fit, OnePiece
  <2>6. /\ (Cardinality(OpenFds(conn)) <= Len(segm) + Cardinality(Stuck(segm)))'
        /\ (OpenFds(conn) \subseteq Live(segm))'
    BY <1>15 DEF Calm, OpenFds, Stuck, Live, Undone, Done
  <2>7. Calm(segm, conn)'
    BY <2>3, <2>5, <2>6 DEF Calm
  <2>8. (e \in Versions => \A x \in Servers : cur[x] = e)'
    <3>1. Undisturbed
      BY DEF Peaceful
    <3>2. c.srv \in Servers
      BY <1>7 DEF Greeted
    <3>3. cur[c.srv] = v
      BY <1>9, <1>18, <3>1 DEF Held, Undisturbed
    <3> QED
      BY <1>4, <1>18, <3>1, <3>2, <3>3 DEF Undisturbed, AllAgree
  <2>9. pc' = "plan"
    BY <1>18 DEF Goto
  <2>10. Quiet'
    BY <1>4, <2>1, <2>6, <2>7, <2>8, <2>9 DEF Quiet, Preparing
  <2> QED
    BY <1>16, <2>10 DEF Onward
<1> QED
  BY <1>5, <1>17, <1>18

-----------------------------------------------------------------------------
(* The steps that leave the segments and their connections alone.          *)
LEMMA UnmovedOnward ==
  ASSUME Peaceful, UNCHANGED <<e, segm, slist, conn>>,
         pc' \in Preparing \ {"plan"} => pc \in Preparing \ {"plan"},
         pc' \in Preparing \cup {"init"} => pc \in Preparing \cup {"init"},
         Ample /\ Fine => Fine'
  PROVE  Onward
<1>1. Quiet /\ UNCHANGED <<cur, whole>>
  BY DEF Peaceful
<1>2. Calm(segm', conn')
  BY <1>1 DEF Quiet
<1>3. pc' \in Preparing \cup {"init"} => OpenFds(conn') \subseteq Live(segm')
  BY <1>1 DEF Quiet
<1>4. Quiet'
  BY <1>1, <1>2, <1>3, QuietNext
<1> QED
  BY <1>4 DEF Onward

(* The count of segments is that of Ample.                                 *)
LEMMA AmpleNow ==
  ASSUME Quiet, Ample, e \in Versions
  PROVE  Divides(NrSegments) /\ 2 * NrSegments <= MaxFd
<1>1. 1 \in Servers
  BY GetAssumption DEF Servers
<1>2. cur[1] = e
  BY <1>1 DEF Quiet
<1> QED
  BY <1>2 DEF Ample, NrSegments

LEMMA DivideByZeroOnward ==
  ASSUME Peaceful, DivideByZero
  PROVE  Onward
<1>1. Quiet /\ e \in Versions /\ pc = "plan" /\ ~Divides(NrSegments)
  BY DEF Peaceful, DivideByZero, IInv, Stage
<1>2. ~Ample
  BY <1>1, AmpleNow
<1>3. UNCHANGED <<e, segm, slist, conn>> /\ pc' = "killed"
  BY DEF DivideByZero, Killed
<1> QED
  BY <1>2, <1>3, UnmovedOnward DEF Preparing

LEMMA InitDoneOnward ==
  ASSUME Peaceful, InitDone
  PROVE  Onward
<1>1. UNCHANGED <<e, segm, slist, conn>> /\ pc' = "loop" /\ ret' = ret
  BY DEF InitDone, Goto
<1> QED
  BY <1>1, UnmovedOnward DEF Preparing, Fine

LEMMA LoopOnward ==
  ASSUME Peaceful, Loop
  PROVE  Onward
<1>1. UNCHANGED <<e, segm, slist, conn>> /\ pc' \in {"assemble", "build"} /\ ret' = ret
  BY DEF Loop, Goto
<1> QED
  BY <1>1, UnmovedOnward DEF Preparing, Fine

(* No segment is in error.                                                 *)
LEMMA BuildSetsOnward ==
  ASSUME Peaceful, BuildSets
  PROVE  Onward
<1>1. i + 1 \in 1 .. Len(segm)
  <2>1. pc = "build" /\ i < NrSegments
    BY DEF BuildSets
  <2>2. i \in Nat /\ Len(segm) = NrSegments /\ segm \in Seq(Segment)
    BY <2>1 DEF Peaceful, IInv, TypeOK, Stage, Looping
  <2> QED
    BY <2>1, <2>2
<1>2. segm[i + 1].state # "ERR"
  BY <1>1 DEF Peaceful, Quiet, Calm, Fit
<1>3. UNCHANGED <<e, segm, slist, conn>>
  BY <1>2 DEF BuildSets
<1>4. \/ pc' = "build" /\ ret' = ret
      \/ pc' = "exit" /\ ret' = 2
  BY <1>2 DEF BuildSets, Goto, Exit
<1> QED
  BY <1>3, <1>4, UnmovedOnward DEF Preparing, Fine

LEMMA SelectOnward ==
  ASSUME Peaceful, Select
  PROVE  Onward
<1>1. UNCHANGED <<e, segm, slist, conn>>
  BY DEF Select
<1>2. \/ pc' = "pass" /\ ret' = ret
      \/ pc' = "exit" /\ ret' = 2
  BY DEF Select, Goto, Exit
<1> QED
  BY <1>1, <1>2, UnmovedOnward DEF Preparing, Fine

LEMMA PassDoneOnward ==
  ASSUME Peaceful, PassDone
  PROVE  Onward
<1>1. UNCHANGED <<e, segm, slist, conn>> /\ pc' = "loop" /\ ret' = ret
  BY DEF PassDone, Goto
<1> QED
  BY <1>1, UnmovedOnward DEF Preparing, Fine

(* The file is the one described, so that the MD5 check succeeds.          *)
LEMMA AssembleOnward ==
  ASSUME Peaceful, Assemble
  PROVE  Onward
<1>1. UNCHANGED <<e, segm, slist, conn>>
  BY DEF Assemble
<1>2. ~Fault
  BY Faultless
<1>3. Assembled = Content(e)
  <2>1. AssembledMatches
    BY WholeFile DEF Peaceful
  <2> QED
    BY <2>1 DEF AssembledMatches, Peaceful, Undisturbed, Assemble
<1>4. pc' = "exit" /\ ret' = 0
  BY <1>2, <1>3 DEF Assemble, Exit
<1> QED
  BY <1>1, <1>4, UnmovedOnward DEF Preparing, Fine

-----------------------------------------------------------------------------
(* The segments are made.                                                  *)
LEMMA RangeOK ==
  ASSUME Planned, NEW k \in 1 .. NrSegments
  PROVE  /\ HasRange(e, Start(k - 1), Stop(k - 1))
         /\ GetReq(Start(k - 1), Stop(k - 1)) \in Requests
<1> DEFINE n == NrSegments
           size == SizeOf[e]
           q == SegmSize(n, size)
           x == k - 1
           next == (x + 1) * q
           all == n * q
<1>1. n \in Nat \ {0} /\ size \in Nat \ {0} /\ Fits(n, size)
  BY PlanFits DEF Planned
<1>2. /\ q \in Nat \ {0} /\ n * q <= size
      /\ \A y \in 0 .. n - 1 : Stop(y) = IF y < n - 1 THEN (y + 1) * q ELSE size
  BY <1>1, SegmentEnds DEF Stop
<1>3. x \in 0 .. n - 1 /\ x + 1 \in Nat /\ x + 1 <= n
  BY <1>1
<1>4. /\ Start(k - 1) \in Nat /\ Stop(k - 1) \in Nat
      /\ Start(k - 1) < Stop(k - 1)
  BY BytesType
<1> HIDE DEF q, n, x
<1>5. next <= all /\ all \in Int /\ next \in Int
  BY <1>1, <1>2, <1>3, TimesMonotone, NextMultiple
<1>6. next <= size
  <2>1. all <= size
    BY <1>2
  <2> HIDE DEF next, all
  <2> QED
    BY <1>1, <1>5, <2>1
<1>7. Stop(x) <= size
  <2>1. Stop(x) = next \/ Stop(x) = size
    BY <1>2, <1>3
  <2> HIDE DEF next
  <2> QED
    BY <1>1, <1>6, <2>1
<1>8. e # NoVersion
  BY SockAssumption DEF Planned
<1> QED
  BY <1>4, <1>7, <1>8 DEF HasRange, GetReq, Requests, x

LEMMA InitFirstOnward ==
  ASSUME Peaceful, InitFirst
  PROVE  Onward
<1> DEFINE s == segm[1]
           t == [s EXCEPT !.state = "RECV_GET_REPLY"]
           req == GetReq(Start(0), Stop(0))
           c == first
           d == Sent(c, req)
<1>1. IInv /\ StreamInv /\ Quiet /\ pc = "plan" /\ ~Fault
  BY Faultless DEF Peaceful, InitFirst
<1>2. /\ s \in Segment /\ c \in Conn /\ PosOK(s, 0) /\ s.status # "DONE"
      /\ c.st # "free" /\ s.state = "CONNECTED" /\ Len(segm) = 1
      /\ c = conn[s.fd] /\ s.fd \in Fds
  BY <1>1, FirstFound DEF first
<1>3. Steady(c) /\ Fit(1, s, c)
  <2>1. 1 \in 1 .. Len(segm)
    BY <1>2
  <2> QED
    BY <1>1, <1>2, <2>1 DEF Quiet, Calm
<1>4. UNCHANGED <<e, slist, cur, whole>>
  BY DEF Peaceful, InitFirst
<1>5. HasRange(e, Start(0), Stop(0)) /\ req \in Requests
  <2>1. Planned
    BY <1>1 DEF IInv, Stage, InitFirst, Planned
  <2>2. NrSegments \in Nat \ {0}
    BY <2>1, PlanFits DEF Planned
  <2>3. 1 \in 1 .. NrSegments /\ 1 - 1 = 0
    BY <2>2
  <2>4. /\ HasRange(e, Start(1 - 1), Stop(1 - 1))
        /\ GetReq(Start(1 - 1), Stop(1 - 1)) \in Requests
    BY <2>1, <2>3, RangeOK
  <2> QED
    BY <2>3, <2>4
<1>6. ~c.fin /\ d = [c EXCEPT !.req = req]
  BY <1>3 DEF Steady, Sent
<1>7. segm' = <<t>> /\ conn' = [conn EXCEPT ![s.fd] = d] /\ pc' = "init" /\ ret' = ret
  BY <1>1, <1>6 DEF InitFirst, SendMayFail, Goto
<1>8. t \in Segment /\ t.fd = s.fd /\ t.status # "DONE" /\ t.state = "RECV_GET_REPLY"
      /\ t.pos = s.pos
  BY <1>2 DEF Segment, SockStates
<1> HIDE DEF s, t, c
<1>9. /\ Steady(d) /\ d.st = c.st /\ d \in Conn
      /\ d.req = req /\ d.greeted = c.greeted
      /\ d.avail = c.avail /\ d.flight = c.flight
  <2>1. req.op = "get" => HasRange(e, req.from, req.to)
    BY <1>5 DEF GetReq
  <2> HIDE DEF req
  <2> QED
    BY <1>2, <1>3, <1>5, <2>1, SentSteady
<1> HIDE DEF d
<1>10. Fit(1, t, d)
  <2>1. ASSUME whole
        PROVE  OnePiece(t, d, Start(0), Stop(0))
    <3>1. s.pos = 0 /\ c.greeted /\ Nothing(c)
      BY <1>2, <1>3, <2>1 DEF Fit, OnePiece, Done
    <3>2. t.pos = 0 /\ d.greeted /\ Nothing(d)
      BY <1>8, <1>9, <3>1 DEF Nothing
    <3> QED
      BY <1>8, <1>9, <3>2 DEF OnePiece
  <2>2. 1 - 1 = 0
    OBVIOUS
  <2> QED
    BY <1>2, <1>8, <1>9, <2>1, <2>2 DEF Fit
<1>11. Calm(segm', conn') /\ OpenFds(conn') \subseteq Live(segm')
  <2>1. t.fd = segm[1].fd /\ conn' = [conn EXCEPT ![t.fd] = d]
    BY <1>7, <1>8 DEF s
  <2> QED
    BY <1>1, <1>7, <1>8, <1>9, <1>10, <2>1, FirstCalm
<1>12. Quiet'
  <2>1. pc' \notin Preparing
    BY <1>7 DEF Preparing
  <2> QED
    BY <1>1, <1>4, <1>11, <2>1, QuietNext
<1>13. Fine => Fine'
  BY <1>7 DEF Fine
<1> QED
  BY <1>12, <1>13 DEF Onward

(* A server of the list is where it was, so that Wrap() finds one.         *)
LEMMA WrapFinds ==
  ASSUME IInv, Quiet
  PROVE  /\ slist \in Lists /\ Wrap(slist, serv) \in 1 .. NServers + 1
         /\ slist[Wrap(slist, serv)] \in Servers
<1>1. /\ slist \in Lists /\ slist[NServers + 1] = NoServer
      /\ serv \in 1 .. NServers + 1
  BY DEF IInv, TypeOK, Lists
<1>2. Wrap(slist, serv) \in 1 .. NServers
  BY <1>1, WrapType
<1> DEFINE p == Wrap(slist, serv)
<1> HIDE DEF p
<1>3. p \in Servers /\ p \in 1 .. NServers + 1
  BY <1>2, GetAssumption DEF p, Servers
<1>4. slist[p] = p
  BY <1>3 DEF Quiet
<1> QED
  BY <1>1, <1>3, <1>4 DEF p

(* With a descriptor left, a connection can be dialled.                    *)
LEMMA CanAlwaysDial ==
  ASSUME IInv, Quiet, NEW cn, Cardinality(OpenFds(cn)) < MaxFd
  PROVE  CanDial(slist, Wrap(slist, serv), cn)
<1>1. slist[Wrap(slist, serv)] # NoServer
  <2>1. slist[Wrap(slist, serv)] \in Servers
    BY WrapFinds
  <2>2. NoServer \notin Servers
    BY GetAssumption DEF NoServer, Servers
  <2> QED
    BY <2>1, <2>2
<1>2. \E f \in Fds : cn[f].st = "free"
  BY FdsFinite
<1> QED
  BY <1>1, <1>2 DEF CanDial, FreeFds

LEMMA InitSegmentOnward ==
  ASSUME Peaceful, InitSegment
  PROVE  Onward
<1> DEFINE p == Wrap(slist, serv)
<1>1. /\ IInv /\ Quiet /\ pc = "init" /\ ~Fault /\ i < NrSegments
      /\ UNCHANGED <<e, slist, cur, whole>>
  BY Faultless DEF Peaceful, InitSegment, mirror
<1>2. slist \in Lists /\ p \in 1 .. NServers + 1
  BY <1>1, WrapFinds
<1>3. Sound(segm, conn) /\ Calm(segm, conn) /\ OpenFds(conn) \subseteq Live(segm)
  BY <1>1, NowSound DEF Running, Quiet
<1>4. \/ SetupFails(slist, p, conn) /\ segm' = segm
      \/ \E fd \in Fds, mode \in ConnectModes :
           /\ Dialled(slist, p, conn, fd, mode)
           /\ segm' = Append(segm, NewSegm(fd, DialledState(mode)))
           /\ Goto("init")
  BY DEF InitSegment
<1>5. CASE SetupFails(slist, p, conn) /\ segm' = segm
  <2>1. ~CanDial(slist, p, conn) /\ conn' = conn /\ pc' = "spin"
    BY <1>1, <1>5 DEF SetupFails, Goto
  <2>2. ~Ample
    <3>1. SUFFICES ASSUME Ample
                   PROVE  FALSE
      OBVIOUS
    <3>2. Planned /\ i = Len(segm) /\ segm \in Seq(Segment)
      BY <1>1 DEF IInv, Stage, TypeOK
    <3>3. 2 * NrSegments <= MaxFd
      BY <1>1, <3>1, <3>2, AmpleNow DEF Planned
    <3>4. NrSegments \in Nat
      BY <3>2, PlanFits DEF Planned
    <3>5. Cardinality(OpenFds(conn)) <= Len(segm) /\ Cardinality(OpenFds(conn)) \in Nat
      BY <1>3, <3>2, OpenBound, FdsFinite
    <3>6. Cardinality(OpenFds(conn)) < MaxFd
      BY <1>1, <3>2, <3>3, <3>4, <3>5, GetAssumption
    <3> QED
      BY <1>1, <2>1, <3>6, CanAlwaysDial
  <2>3. UNCHANGED <<e, segm, slist, conn>>
    BY <1>1, <1>5, <2>1
  <2> QED
    BY <2>1, <2>2, <2>3, UnmovedOnward DEF Preparing
<1>6. ASSUME NEW fd \in Fds, NEW mode \in ConnectModes,
             Dialled(slist, p, conn, fd, mode),
             segm' = Append(segm, NewSegm(fd, DialledState(mode))),
             Goto("init")
      PROVE  Onward
  <2> HIDE DEF p
  <2>1. segm' \in Seq(Segment)
    BY DEF Peaceful, IInv, TypeOK
  <2>2. Calm(segm', conn') /\ OpenFds(conn') \subseteq Live(segm')
    BY <1>2, <1>3, <1>6, <2>1, CalmAppend
  <2>3. Quiet'
    <3>1. pc' \notin Preparing
      BY <1>6 DEF Preparing, Goto
    <3> QED
      BY <1>1, <2>2, <3>1, QuietNext
  <2>4. Fine => Fine'
    BY <1>6 DEF Fine, Goto
  <2> QED
    BY <2>3, <2>4 DEF Onward
<1> QED
  BY <1>4, <1>5, <1>6

-----------------------------------------------------------------------------
(* A segment is handled.                                                   *)
LEMMA PassQuiet ==
  ASSUME Peaceful, pc = "pass", UNCHANGED <<e, slist>>, Calm(segm', conn'),
         pc' = "pass" \/ pc' \in Stopped
  PROVE  Quiet'
<1>1. Quiet /\ UNCHANGED <<cur, whole>>
  BY DEF Peaceful
<1>2. pc' \notin Preparing \cup {"init"}
  BY DEF Preparing, Stopped
<1> QED
  BY <1>1, <1>2, QuietNext

(* What the second pass finds.                                             *)
LEMMA FoundCalm ==
  ASSUME Peaceful, pc = "pass", NEW k \in 0 .. Len(segm) - 1, IsNext(k)
  PROVE  /\ Sound(segm, conn) /\ Calm(segm, conn)
         /\ k + 1 \in 1 .. Len(segm) /\ ~Done(segm[k + 1])
         /\ segm[k + 1].state \in Waiting /\ segm[k + 1].state # "CONNECTED"
         /\ Steady(conn[segm[k + 1].fd])
         /\ Fit(k + 1, segm[k + 1], conn[segm[k + 1].fd])
<1>1. IInv /\ Calm(segm, conn)
  BY DEF Peaceful, Quiet
<1>2. /\ k + 1 \in 1 .. Len(segm) /\ ~Done(segm[k + 1])
      /\ segm[k + 1].state \in Waiting /\ segm[k + 1].fd \in Fds
  BY <1>1, FoundType
<1>3. Sound(segm, conn)
  BY <1>1, NowSound DEF Running
<1> QED
  BY <1>1, <1>2, <1>3 DEF Calm, Waiting

LEMMA KeepOnward ==
  ASSUME Peaceful, pc = "pass", e' = e, NEW k \in 0 .. Len(segm) - 1, IsNext(k),
         NEW r \in Result, r.segm.fd = segm[k + 1].fd, Steady(r.conn),
         Fit(k + 1, r.segm, r.conn), r.segm.status = "DONE" => r.conn.st = "free",
         Keep(k, r), Goto("pass")
  PROVE  Onward
<1>1. /\ Sound(segm, conn) /\ Calm(segm, conn)
      /\ k + 1 \in 1 .. Len(segm) /\ ~Done(segm[k + 1])
      /\ segm[k + 1].state # "CONNECTED"
  BY FoundCalm
<1>2. r.segm \in Segment /\ r.conn \in Conn
  BY DEF Result
<1>3. Calm(Put(segm, k + 1, r.segm), Put(conn, r.segm.fd, r.conn))
  <2>1. Counted(segm[k + 1], r.segm)
    BY <1>1 DEF Counted
  <2> QED
    BY <1>1, <1>2, <2>1, CalmReplace
<1>4. Quiet'
  <2>1. /\ segm' = Put(segm, k + 1, r.segm) /\ conn' = Put(conn, r.segm.fd, r.conn)
        /\ slist' = slist /\ pc' = "pass"
    BY DEF Keep, Segm, Conns, Put, Goto
  <2> QED
    BY <1>3, <2>1, PassQuiet
<1>5. Fine => Fine'
  BY DEF Fine, Goto
<1> QED
  BY <1>4, <1>5 DEF Onward

(* A connection ready for another request, which is not used.              *)
LEMMA OneMoreStuck ==
  ASSUME NEW sg, NEW cn, Sound(sg, cn), NEW k \in 1 .. Len(sg),
         ~Done(sg[k]), sg[k].state # "CONNECTED",
         NEW t \in Segment, NEW c \in Conn, t.fd = sg[k].fd, t.status # "DONE",
         t.state = "CONNECTED", c.st # "free"
  PROVE  /\ OpenFds([cn EXCEPT ![t.fd] = c]) = OpenFds(cn)
         /\ Cardinality(Stuck([sg EXCEPT ![k] = t])) = Cardinality(Stuck(sg)) + 1
<1> DEFINE sg2 == [sg EXCEPT ![k] = t]
           cn2 == [cn EXCEPT ![t.fd] = c]
<1>1. sg \in Seq(Segment) /\ cn \in [Fds -> Conn] /\ cn[sg[k].fd].st # "free"
  BY DEF Sound
<1>2. t.fd \in Fds
  BY DEF Segment
<1>3. OpenFds(cn2) = OpenFds(cn)
  <2>1. \A f \in Fds : cn2[f] = IF f = t.fd THEN c ELSE cn[f]
    BY <1>1, <1>2
  <2> HIDE DEF cn2
  <2> QED
    BY <1>1, <2>1 DEF OpenFds
<1>4. Len(sg2) = Len(sg) /\ \A j \in 1 .. Len(sg) : sg2[j] = IF j = k THEN t ELSE sg[j]
  BY <1>1
<1> HIDE DEF sg2, cn2
<1>5. Stuck(sg2) = Stuck(sg) \cup {k}
  BY <1>4 DEF Stuck, Undone, Done
<1>6. k \notin Stuck(sg)
  BY DEF Stuck
<1>7. IsFiniteSet(Stuck(sg))
  BY <1>1, StuckFinite
<1>8. Cardinality(Stuck(sg2)) = Cardinality(Stuck(sg)) + 1
  BY <1>5, <1>6, <1>7, FS_AddElement
<1> QED
  BY <1>3, <1>8 DEF sg2, cn2

(* A segment that got an answer it did not expect, or none: a second       *)
(* connection is made for it, and it stays as it is.                       *)
LEMMA RetryOnward ==
  ASSUME Peaceful, pc = "pass", e' = e, NEW k \in 0 .. Len(segm) - 1, IsNext(k),
         NEW r, Unfinished(k, r), r.segm.state = "CONNECTED", ~whole,
         Steady(r.conn), Fit(k + 1, r.segm, r.conn),
         Retry(k, Segm(k, r), slist, Conns(r), "pass")
  PROVE  Onward
<1> DEFINE sg == Segm(k, r)
           cn == Conns(r)
           p  == Wrap(slist, serv)
           n  == Len(segm)
           o  == Cardinality(OpenFds(conn))
           q  == Cardinality(Stuck(segm))
<1>1. /\ Sound(segm, conn) /\ Calm(segm, conn)
      /\ k + 1 \in 1 .. n /\ ~Done(segm[k + 1])
      /\ segm[k + 1].state # "CONNECTED"
  BY FoundCalm
<1>2. /\ r.segm \in Segment /\ r.conn \in Conn /\ r.segm.fd = segm[k + 1].fd
      /\ r.segm.status # "DONE" /\ r.conn.st # "free" /\ ~Done(r.segm)
  BY DEF Unfinished, Result, Done
<1>3. Calm(sg, cn)
  <2>1. Counted(segm[k + 1], r.segm)
    BY <1>1 DEF Counted
  <2>2. Calm(Put(segm, k + 1, r.segm), Put(conn, r.segm.fd, r.conn))
    BY <1>1, <1>2, <2>1, CalmReplace
  <2> QED
    BY <2>2 DEF Put, Segm, Conns
<1>4. Sound(sg, cn) /\ Len(sg) = n
  <2>1. k \in Nat
    BY <1>1
  <2> QED
    BY <1>1, <2>1, UnfinishedSound
<1>5. OpenFds(cn) = OpenFds(conn) /\ Cardinality(Stuck(sg)) = q + 1
  BY <1>1, <1>2, OneMoreStuck DEF Segm, Conns
<1>6. o \in Nat /\ q \in Nat /\ n \in Nat /\ o <= n + q /\ q < n
  <2>1. segm \in Seq(Segment)
    BY <1>1 DEF Sound
  <2>2. k + 1 \notin Stuck(segm)
    BY <1>1 DEF Stuck
  <2>3. o \in Nat
    BY FdsFinite
  <2>4. q \in Nat /\ q < n
    BY <1>1, <2>1, <2>2, StuckFinite
  <2>5. o <= n + q
    BY <1>1 DEF Calm
  <2> QED
    BY <2>1, <2>3, <2>4, <2>5
<1>7. IInv /\ Quiet /\ ~Fault
  BY Faultless DEF Peaceful
<1>8. Ample => CanDial(slist, p, cn)
  <2>1. SUFFICES ASSUME Ample
                 PROVE  CanDial(slist, p, cn)
    OBVIOUS
  <2>2. Planned /\ n = NrSegments
    BY <1>7 DEF IInv, Stage, Looping
  <2>3. 2 * n <= MaxFd
    BY <1>7, <2>1, <2>2, AmpleNow DEF Planned
  <2> HIDE DEF n, o, q, cn
  <2>4. o < MaxFd
    BY <1>6, <2>3, GetAssumption
  <2>5. Cardinality(OpenFds(cn)) < MaxFd
    BY <1>5, <2>4 DEF o
  <2> QED
    BY <1>7, <2>5, CanAlwaysDial
<1>9. /\ segm' = sg /\ slist' = slist
      /\ \/ SetupFails(slist, p, cn)
         \/ (\E fd \in Fds, mode \in ConnectModes : Dialled(slist, p, cn, fd, mode))
            /\ Goto("pass")
  BY DEF Retry
<1>10. CASE SetupFails(slist, p, cn)
  <2>1. ~CanDial(slist, p, cn) /\ conn' = cn /\ pc' = "spin"
    BY <1>7, <1>10 DEF SetupFails, Goto
  <2>2. Quiet'
    BY <1>3, <1>9, <2>1, PassQuiet DEF Stopped
  <2> QED
    BY <1>8, <2>1, <2>2 DEF Onward
<1>11. ASSUME NEW fd \in Fds, NEW mode \in ConnectModes,
              Dialled(slist, p, cn, fd, mode), Goto("pass")
       PROVE  Onward
  <2>1. Cardinality(OpenFds(cn)) < Len(sg) + Cardinality(Stuck(sg))
    <3> HIDE DEF n, o, q, cn, sg
    <3>1. Cardinality(OpenFds(cn)) = o
      BY <1>5 DEF o
    <3> QED
      BY <1>4, <1>5, <1>6, <3>1
  <2> HIDE DEF cn, sg, p
  <2>2. Calm(sg, conn')
    BY <1>3, <1>4, <1>11, <2>1, CalmDial
  <2>3. Quiet'
    BY <1>9, <1>11, <2>2, PassQuiet DEF Goto
  <2>4. Fine => Fine'
    BY <1>11 DEF Fine, Goto
  <2> QED
    BY <2>3, <2>4 DEF Onward
<1> QED
  BY <1>9, <1>10, <1>11

LEMMA ConnectingOnward ==
  ASSUME Peaceful, pc = "pass", e' = e, NEW k \in 0 .. Len(segm) - 1, IsNext(k),
         Connecting(k)
  PROVE  Onward
<1> DEFINE s == segm[k + 1]
           c == conn[s.fd]
           r == cgym_sock_connect(s, c)
           q == To(r, "RECV_SIZE_REPLY")
           d == Sent(r.conn, SizeReq)
           w == OnConn(q, d)
<1>1. /\ s \in Segment /\ s.status # "DONE" /\ c \in Conn
      /\ PosOK(s, Bytes(k + 1)) /\ Bytes(k + 1) \in Nat
      /\ Expects(s, c, Start(k), Stop(k))
  BY FoundGood DEF Peaceful
<1>2. Steady(c) /\ Fit(k + 1, s, c)
  BY FoundCalm
<1>3. s.state \in {"CONNECTING", "RECV_HANDSHAKE"}
  BY DEF Connecting
<1>4. \/ r.rc = 1 /\ Keep(k, r) /\ Goto("pass")
      \/ r.rc > 1
      \/ r.rc = 0 /\ Keep(k, w) /\ Goto("pass")
      \/ SendMayFail(r.conn)
  BY DEF Connecting, SendRequest
<1>5. s = segm[k + 1]
  OBVIOUS
<1> HIDE DEF s, c
<1>6. s.pos <= Len(s.buf) /\ s.pos < 2
  BY <1>1, <1>3 DEF PosOK
<1>7. /\ r \in Result /\ r.rc \in {0, 1} /\ r.segm.status # "DONE"
      /\ r.segm.fd = s.fd /\ Steady(r.conn) /\ ~r.conn.fin
      /\ r.rc = 1 => Fit(k + 1, r.segm, r.conn)
      /\ r.rc = 0 => /\ w \in Result /\ w.segm = q.segm
                     /\ w.conn = d
                     /\ q.segm.fd = s.fd /\ q.segm.status # "DONE"
                     /\ Steady(d) /\ Fit(k + 1, q.segm, d)
  BY <1>1, <1>2, <1>3, <1>6, ConnectFits
<1> HIDE DEF r, q, d, w
<1>8. \E x \in {r, w} :
        /\ x \in Result /\ x.segm.fd = s.fd /\ x.segm.status # "DONE"
        /\ Steady(x.conn) /\ Fit(k + 1, x.segm, x.conn)
        /\ Keep(k, x) /\ Goto("pass")
  BY <1>4, <1>7 DEF SendMayFail
<1>9. PICK x : /\ x \in Result /\ x.segm.fd = s.fd /\ x.segm.status # "DONE"
               /\ Steady(x.conn) /\ Fit(k + 1, x.segm, x.conn)
               /\ Keep(k, x) /\ Goto("pass")
  BY <1>8
<1> QED
  BY <1>5, <1>9, KeepOnward

LEMMA GettingOnward ==
  ASSUME Peaceful, pc = "pass", e' = e, NEW k \in 0 .. Len(segm) - 1, IsNext(k),
         Getting(k)
  PROVE  Onward
<1> DEFINE s == segm[k + 1]
           c == conn[s.fd]
           start == Start(k)
           stop == Stop(k)
           r == cgym_recv_get_reply(s, c, stop - start)
           w == Closed(r)
<1>1. /\ s \in Segment /\ s.status # "DONE" /\ c \in Conn /\ c.st # "free"
      /\ PosOK(s, stop - start) /\ stop - start \in Nat
      /\ Bytes(k + 1) = stop - start
      /\ start \in Nat /\ stop \in Nat /\ start < stop
      /\ Expects(s, c, start, stop)
  BY FoundGood DEF Peaceful
<1>2. Steady(c) /\ Fit(k + 1, s, c)
  BY FoundCalm
<1>3. s.state \in {"RECV_GET_REPLY", "RECV_GET_DATA"}
  BY DEF Getting
<1>4. \/ r.rc = 1 /\ Keep(k, r) /\ Goto("pass")
      \/ r.rc > 1 /\ Retry(k, Segm(k, r), slist, Conns(r), "pass")
      \/ r.rc = 0 /\ Keep(k, w) /\ Goto("pass")
  BY DEF Getting
<1>5. s = segm[k + 1] /\ start = Start((k + 1) - 1) /\ stop = Stop((k + 1) - 1)
  <2>1. (k + 1) - 1 = k
    OBVIOUS
  <2> QED
    BY <2>1
<1> HIDE DEF s, c, start, stop
<1>6. /\ r \in Result /\ r.segm.fd = s.fd /\ Steady(r.conn)
      /\ r.segm.status = "DONE" <=> r.rc = 0
      /\ r.rc = 1 => Fit(k + 1, r.segm, r.conn)
      /\ r.rc > 1 => ~whole /\ r.segm.state = "CONNECTED" /\ Fit(k + 1, r.segm, r.conn)
  <2> DEFINE l == k + 1
  <2>1. Fit(l, s, c) /\ start = Start(l - 1) /\ stop = Stop(l - 1)
    BY <1>2, <1>5
  <2> HIDE DEF l
  <2>2. /\ r \in Result /\ r.segm.fd = s.fd /\ Steady(r.conn)
        /\ r.segm.status = "DONE" <=> r.rc = 0
        /\ r.rc = 1 => Fit(l, r.segm, r.conn)
        /\ r.rc > 1 => ~whole /\ r.segm.state = "CONNECTED" /\ Fit(l, r.segm, r.conn)
    BY <1>1, <1>2, <1>3, <2>1, GetFits
  <2> QED
    BY <2>2 DEF l
<1>7. SameSock(r, s, c) /\ PosOK(r.segm, stop - start)
  BY <1>1, <1>3, GetReplyType
<1> HIDE DEF r
<1>8. CASE r.rc = 1 /\ Keep(k, r) /\ Goto("pass")
  <2>1. r.segm.status # "DONE"
    BY <1>6, <1>8
  <2> QED
    BY <1>5, <1>6, <1>8, <2>1, KeepOnward
<1>9. CASE r.rc > 1 /\ Retry(k, Segm(k, r), slist, Conns(r), "pass")
  <2>1. r.segm.status # "DONE"
    BY <1>6, <1>9
  <2>2. Unfinished(k, r)
    BY <1>1, <1>5, <1>6, <1>7, <2>1 DEF Unfinished, SameSock, Done
  <2> QED
    BY <1>6, <1>9, <2>2, RetryOnward
<1>10. CASE r.rc = 0 /\ Keep(k, w) /\ Goto("pass")
  <2>1. FreeConn \in Conn
    <3>1. NoReq \in Requests
      BY DEF NoReq, Requests
    <3> QED
      BY <3>1, EmptySeq DEF FreeConn, Conn
  <2>2. To(r, "IDLE") \in Result /\ To(r, "IDLE").segm.fd = r.segm.fd
        /\ To(r, "IDLE").segm.state = "IDLE" /\ To(r, "IDLE").segm.status = r.segm.status
    BY <1>6, ToType DEF SockStates
  <2>3. /\ w \in Result /\ w.segm.fd = s.fd /\ w.conn = FreeConn
        /\ w.segm.status = "DONE" /\ w.segm.state = "IDLE"
    BY <1>6, <1>10, <2>1, <2>2, OnConnType DEF Closed
  <2> HIDE DEF w
  <2>4. Steady(FreeConn) /\ FreeConn.st = "free"
    BY DEF Steady, FreeConn, NoReq
  <2>5. Fit(k + 1, w.segm, w.conn)
    BY <2>3 DEF Fit, Done
  <2> QED
    BY <1>5, <1>10, <2>3, <2>4, <2>5, KeepOnward
<1> QED
  BY <1>4, <1>8, <1>9, <1>10

(* All the mirrors have the same file.                                     *)
LEMMA SizingOnward ==
  ASSUME Peaceful, pc = "pass", e' = e, NEW k \in 0 .. Len(segm) - 1, IsNext(k),
         Sizing(k)
  PROVE  Onward
<1> DEFINE s == segm[k + 1]
           c == conn[s.fd]
           l == k + 1
           req == GetReq(Start(k), Stop(k))
           r == cgym_recv_size_reply(s, c)
           q == To(r, "RECV_GET_REPLY")
           d == Sent(r.conn, req)
           w == OnConn(q, d)
           v == SizeReplyEntry(s, c)
<1>1. /\ s \in Segment /\ s.status # "DONE" /\ c \in Conn /\ c.st # "free"
      /\ PosOK(s, Bytes(l)) /\ Bytes(l) \in Nat
      /\ Expects(s, c, Start(k), Stop(k))
      /\ l \in 1 .. Len(segm)
  BY FoundGood DEF Peaceful
<1>2. Steady(c) /\ Fit(l, s, c)
  BY FoundCalm
<1>3. s.state \in {"RECV_SIZE_REPLY", "RECV_SIZE_DATA"}
  BY DEF Sizing
<1>4. \/ r.rc = 1 /\ Keep(k, r) /\ Goto("pass")
      \/ r.rc > 1 /\ Retry(k, Segm(k, r), slist, Conns(r), "pass")
      \/ r.rc = 0 /\ ((Keep(k, w) /\ Goto("pass")) \/ SendMayFail(r.conn))
      \/ r.rc = 0 /\ ~SameFile(v)
  BY DEF Sizing, SendRequest
<1>5. s = segm[k + 1] /\ Start(k) = Start(l - 1) /\ Stop(k) = Stop(l - 1)
  <2>1. l - 1 = k
    OBVIOUS
  <2> QED
    BY <2>1
<1>6. HasRange(e, Start(l - 1), Stop(l - 1)) /\ GetReq(Start(l - 1), Stop(l - 1)) \in Requests
  <2>1. Planned /\ Len(segm) = NrSegments
    BY DEF Peaceful, IInv, Stage, Looping
  <2>2. l \in 1 .. NrSegments
    BY <1>1, <2>1
  <2> HIDE DEF l
  <2> QED
    BY <2>1, <2>2, RangeOK
<1> HIDE DEF s, c, l, v
<1>7. /\ r \in Result /\ r.segm.status # "DONE"
      /\ r.segm.fd = s.fd /\ Steady(r.conn) /\ ~r.conn.fin
      /\ r.rc = 1 => Fit(l, r.segm, r.conn)
      /\ r.rc > 1 => ~whole /\ r.segm.state = "CONNECTED" /\ Fit(l, r.segm, r.conn)
      /\ r.rc = 0 => /\ w \in Result /\ w.segm = q.segm
                     /\ w.conn = d
                     /\ q.segm.fd = s.fd /\ q.segm.status # "DONE"
                     /\ Steady(d) /\ Fit(l, q.segm, d)
                     /\ Held(c, v) /\ c.srv \in Servers
  <2> DEFINE dl == Sent(r.conn, GetReq(Start(l - 1), Stop(l - 1)))
  <2>1. d = dl
    BY <1>5
  <2>2. /\ r \in Result /\ r.segm.status # "DONE"
        /\ r.segm.fd = s.fd /\ Steady(r.conn) /\ ~r.conn.fin
        /\ r.rc = 1 => Fit(l, r.segm, r.conn)
        /\ r.rc > 1 => ~whole /\ r.segm.state = "CONNECTED" /\ Fit(l, r.segm, r.conn)
        /\ r.rc = 0 => /\ OnConn(q, dl) \in Result /\ OnConn(q, dl).segm = q.segm
                       /\ OnConn(q, dl).conn = dl
                       /\ q.segm.fd = s.fd /\ q.segm.status # "DONE"
                       /\ Steady(dl) /\ Fit(l, q.segm, dl)
                       /\ Held(c, SizeReplyEntry(s, c)) /\ c.srv \in Servers
    BY <1>1, <1>2, <1>3, <1>6, SizeFits
  <2> HIDE DEF r, q, d, dl
  <2> QED
    BY <2>1, <2>2 DEF v
<1>8. SameSock(r, s, c) /\ PosOK(r.segm, Bytes(l))
  BY <1>1, <1>3, SizeReplyType
<1> HIDE DEF r, q, d, w
<1>9. CASE r.rc = 1 /\ Keep(k, r) /\ Goto("pass")
  BY <1>5, <1>7, <1>9, KeepOnward DEF l
<1>10. CASE r.rc > 1 /\ Retry(k, Segm(k, r), slist, Conns(r), "pass")
  <2>1. Unfinished(k, r)
    BY <1>1, <1>5, <1>7, <1>8 DEF Unfinished, SameSock, Done, l
  <2>2. Fit(k + 1, r.segm, r.conn)
    BY <1>7, <1>10 DEF l
  <2> QED
    BY <1>7, <1>10, <2>1, <2>2, RetryOnward
<1>11. CASE r.rc = 0 /\ ((Keep(k, w) /\ Goto("pass")) \/ SendMayFail(r.conn))
  <2>1. Keep(k, w) /\ Goto("pass")
    BY <1>7, <1>11 DEF SendMayFail
  <2>2. /\ w \in Result /\ w.segm.fd = segm[k + 1].fd /\ Steady(w.conn)
        /\ Fit(k + 1, w.segm, w.conn) /\ w.segm.status # "DONE"
    BY <1>5, <1>7, <1>11 DEF l
  <2> QED
    BY <2>1, <2>2, KeepOnward
<1>12. CASE r.rc = 0 /\ ~SameFile(v)
  <2>1. v = cur[c.srv] /\ c.srv \in Servers
    BY <1>7, <1>12 DEF Held, Peaceful, Undisturbed
  <2>2. e \in Versions
    BY DEF Peaceful, IInv, Stage, Looping, Planned
  <2>3. cur[c.srv] = e
    BY <2>1, <2>2 DEF Peaceful, Quiet
  <2> QED
    BY <1>12, <2>1, <2>3 DEF SameFile
<1> QED
  BY <1>4, <1>9, <1>10, <1>11, <1>12

LEMMA PassOnward ==
  ASSUME Peaceful, Pass
  PROVE  Onward
<1>1. PICK k \in 0 .. Len(segm) - 1 :
        /\ IsNext(k)
        /\ Connecting(k) \/ Sizing(k) \/ Getting(k) \/ Unhandled(k)
  BY DEF Pass
<1>2. pc = "pass" /\ e' = e
  BY DEF Pass
<1>3. ~Unhandled(k)
  BY <1>1, <1>2, FoundCalm DEF Unhandled
<1> QED
  BY <1>1, <1>2, <1>3, ConnectingOnward, SizingOnward, GettingOnward

-----------------------------------------------------------------------------
LEMMA NetworkOnward ==
  ASSUME Peaceful, Network
  PROVE  Onward
<1>1. Quiet'
  BY NetworkQuiet DEF Peaceful
<1>2. UNCHANGED <<pc, ret>>
  BY DEF Network, client
<1> QED
  BY <1>1, <1>2 DEF Onward, Fine

LEMMA StutterOnward ==
  ASSUME Peaceful, UNCHANGED vars
  PROVE  Onward
<1>1. UNCHANGED <<pc, ret, e, segm, slist, conn>>
  BY DEF vars, client
<1> QED
  BY <1>1, UnmovedOnward DEF Fine

(* Neither a failure nor a change of a file.                               *)
LEMMA NoDisturbance ==
  ASSUME Peaceful
  PROVE  ~Disturb /\ ~Edit
<1>1. ~Disturb
  BY Faultless DEF Disturb, Refuse, Drop
<1>2. ~Edit
  BY DEF Peaceful, Edit, IInv, TypeOK, Undisturbed
<1> QED
  BY <1>1, <1>2

LEMMA StepOnward ==
  ASSUME Peaceful, [Next]_vars
  PROVE  Onward
<1>1. CASE Client
  BY <1>1, ConnectOnward, HandshakeOnward, ReadSizeStatusOnward, ReadSizeLineOnward,
     DivideByZeroOnward, InitFirstOnward, InitSegmentOnward, InitDoneOnward,
     LoopOnward, BuildSetsOnward, SelectOnward, PassOnward, PassDoneOnward,
     AssembleOnward DEF Client
<1>2. CASE Network
  BY <1>2, NetworkOnward
<1>3. CASE Disturb \/ Edit
  BY <1>3, NoDisturbance
<1>4. CASE Terminated \/ UNCHANGED vars
  BY <1>4, StutterOnward DEF Terminated
<1> QED
  BY <1>1, <1>2, <1>3, <1>4 DEF Next

LEMMA InitHealthy ==
  ASSUME Init
  PROVE  Healthy /\ HealthyEnd
<1>1. /\ pc = "connect" /\ ret = 0 /\ e = NoVersion /\ segm = <<>>
      /\ slist = [p \in 1 .. NServers + 1 |-> IF p \in Servers THEN p ELSE NoServer]
      /\ \A f \in Fds : conn[f] = FreeConn
  BY DEF Init
<1>2. OpenFds(conn) = {}
  BY <1>1 DEF OpenFds, FreeConn
<1>3. \A f \in Fds : Steady(conn[f])
  BY <1>1 DEF Steady, FreeConn, NoReq
<1>4. Cardinality(OpenFds(conn)) = 0
  <2>1. Cardinality({}) = 0
    BY FS_EmptySet, Zenon
  <2> QED
    BY <1>2, <2>1
<1>5. segm \in Seq(Segment) /\ Len(segm) = 0
  BY <1>1
<1>6. Cardinality(Stuck(segm)) \in Nat
  BY <1>5, StuckFinite
<1>7. Calm(segm, conn)
  <2>1. \A k \in 1 .. Len(segm) : FALSE
    BY <1>5
  <2> QED
    BY <1>2, <1>3, <1>4, <1>5, <1>6, <2>1 DEF Calm
<1>8. \A s \in Servers : slist[s] = s
  <2>1. \A s \in Servers : s \in 1 .. NServers + 1
    BY GetAssumption DEF Servers
  <2> QED
    BY <1>1, <2>1
<1>9. e \notin Versions
  BY <1>1, SockAssumption
<1>10. Quiet
  BY <1>1, <1>2, <1>7, <1>8, <1>9 DEF Quiet
<1>11. Fine
  BY <1>1 DEF Fine
<1> QED
  BY <1>10, <1>11 DEF Healthy, HealthyEnd

LEMMA StillHealthy ==
  ASSUME IInv, StreamInv, IInv', StreamInv', [Next]_vars, Healthy, HealthyEnd
  PROVE  Healthy' /\ HealthyEnd'
<1> SUFFICES ASSUME Undisturbed'
             PROVE  Quiet' /\ (Ample' => Fine')
  BY DEF Healthy, HealthyEnd
<1>1. Undisturbed /\ faults' = faults /\ UNCHANGED <<cur, whole, edits>>
  BY BeforeUndisturbed
<1>2. Quiet /\ (Ample => Fine)
  BY <1>1 DEF Healthy, HealthyEnd
<1>3. Peaceful
  BY <1>1, <1>2 DEF Peaceful
<1>4. Quiet' /\ (Ample /\ Fine => Fine')
  BY <1>3, StepOnward DEF Onward
<1>5. Ample' => Ample
  BY <1>1 DEF Ample
<1> QED
  BY <1>2, <1>4, <1>5

(* As long as nothing fails, no file changes and the mirrors agree, the    *)
(* connections stay as Quiet says, and, with descriptors for two           *)
(* connections of each segment, cgym_get() does not fall into the library's*)
(* loops (server.c:66), is not killed, and returns no code but 0, 2 or 4.  *)
THEOREM UndisturbedStaysHealthy == Spec => [](Healthy /\ HealthyEnd)
<1>1. Init => Healthy /\ HealthyEnd
  BY InitHealthy
<1>2. /\ IInv /\ StreamInv /\ IInv' /\ StreamInv' /\ [Next]_vars
      /\ Healthy /\ HealthyEnd
      => Healthy' /\ HealthyEnd'
  BY StillHealthy
<1> QED
  BY <1>1, <1>2, Inductive, RepliesInStep, PTL DEF Spec

LEMMA OnlyTheSegments ==
  ASSUME IInv, Quiet, pc \notin Preparing
  PROVE  NoLeak
<1> SUFFICES ASSUME whole
             PROVE  OpenFds(conn) = Live(segm)
  BY DEF NoLeak, Open, OpenFds, Live, Undone
<1>1. segm \in Seq(Segment)
  BY DEF IInv, TypeOK
<1>2. OpenFds(conn) \subseteq Live(segm)
  BY DEF Quiet, Calm
<1>3. Live(segm) \subseteq OpenFds(conn)
  <2> SUFFICES ASSUME NEW k \in Undone(segm)
               PROVE  segm[k].fd \in OpenFds(conn)
    BY DEF Live
  <2>1. k \in 1 .. Len(segm) /\ ~Done(segm[k])
    BY DEF Undone
  <2>2. segm[k].fd \in Fds
    <3>1. segm[k] \in Segment
      BY <1>1, <2>1
    <3> QED
      BY <3>1 DEF Segment
  <2>3. conn[segm[k].fd].st # "free"
    BY <2>1 DEF Quiet, Calm, Fit
  <2> QED
    BY <2>2, <2>3 DEF OpenFds
<1> QED
  BY <1>2, <1>3

(* A segment that is done closes its connection and no other is opened     *)
(* (get.c:396), as long as nothing fails, no file changes and the          *)
(* mirrors agree.                                                          *)
THEOREM NothingLeaks == Spec => [](Undisturbed => NoLeak)
<1>1. IInv /\ Healthy => (Undisturbed => NoLeak)
  BY OnlyTheSegments DEF Healthy, NoLeak
<1> QED
  BY <1>1, Inductive, UndisturbedStaysHealthy, PTL

(* Without failures, between mirrors that agree, cgym_get() gives up no    *)
(* server, is neither caught in the library nor killed, and fails with the *)
(* codes 2 and 4 only, when there is a byte to fetch and there are         *)
(* descriptors for two connections of each segment.                        *)
THEOREM NoFailureOfItsOwn == Spec => [](Ample => NoSpuriousFailure)
<1>1. Healthy /\ HealthyEnd => (Ample => NoSpuriousFailure)
  BY DEF Healthy, HealthyEnd, NoSpuriousFailure, Undisturbed, Quiet, Fine
<1> QED
  BY <1>1, UndisturbedStaysHealthy, PTL
=============================================================================
