---------------------------- MODULE CgymGetProofs ----------------------------
(***************************************************************************)
(* For any number of segments, servers, descriptors, failures and changes  *)
(* of the files, CgymGet keeps the inductive invariant IInv, and therefore *)
(* its types and ReadyFdIsLive, and the invariant StreamInv of what its    *)
(* segments read, and therefore implements CgymDownload.                   *)
(***************************************************************************)
EXTENDS CgymGetProps, CgymSegmentsProofs, SequenceTheorems

(* What the functions of the socket layer return.                          *)
Result == [segm : Segment, conn : Conn, rc : 0 .. 6]

(* What every function that reads leaves alone.                            *)
SameSock(r, s, c) ==
  /\ r.segm.fd = s.fd
  /\ r.conn.st = c.st

LEMMA RecvType ==
  ASSUME NEW s \in Segment, NEW c \in Conn, NEW len \in Nat,
         s.pos <= Len(s.buf), s.pos < len
  PROVE  LET r == cgym_recv(s, c, len) IN
         /\ r \in Result
         /\ SameSock(r, s, c)
         /\ r.segm.state = s.state /\ r.segm.status = s.status
         /\ r.rc \in 0 .. 2
         /\ r.segm.pos <= Len(r.segm.buf) /\ r.segm.pos < len
         /\ r.rc = 0 => r.segm.pos = 0 /\ Len(r.segm.buf) = len
<1> DEFINE want == len - s.pos
           n    == IF Len(c.avail) < want THEN Len(c.avail) ELSE want
           old  == SubSeq(s.buf, 1, s.pos)
           new  == SubSeq(c.avail, 1, n)
           left == SubSeq(c.avail, n + 1, Len(c.avail))
           rest == [c EXCEPT !.avail = left]
<1>1. /\ s.buf \in Seq(Unit) /\ s.pos \in Nat /\ c.avail \in Seq(Unit)
      /\ Len(s.buf) \in Nat /\ Len(c.avail) \in Nat
  BY DEF Segment, Conn
<1>2. n \in Nat /\ n <= want /\ n <= Len(c.avail) /\ want \in Nat \ {0}
  BY <1>1
<1> HIDE DEF n
<1>3. old \in Seq(Unit) /\ Len(old) = s.pos
  BY <1>1
<1>4. new \in Seq(Unit) /\ Len(new) = n
  BY <1>1, <1>2
<1>5. left \in Seq(Unit)
  BY <1>1, <1>2
<1> HIDE DEF old, new, left
<1>6. old \o new \in Seq(Unit) /\ Len(old \o new) = s.pos + n
  BY <1>3, <1>4, SMTT(30)
<1>7. rest \in Conn /\ rest.st = c.st
  BY <1>5 DEF Conn
<1> DEFINE got == old \o new
<1> HIDE DEF rest, got
<1>8. CASE n = 0
  <2>1. cgym_recv(s, c, len) = [segm |-> s, conn |-> c, rc |-> IF Eof(c) THEN 2 ELSE 1]
    BY <1>8 DEF cgym_recv, n
  <2> QED
    BY <2>1 DEF Result, SameSock
<1>9. CASE n # 0 /\ n = want
  <2>1. cgym_recv(s, c, len) =
          [segm |-> [s EXCEPT !.buf = got, !.pos = 0], conn |-> rest, rc |-> 0]
    BY <1>9 DEF cgym_recv, n, got, old, new, rest, left
  <2>2. got \in Seq(Unit) /\ Len(got) = len /\ 0 < len
    BY <1>1, <1>2, <1>6, <1>9 DEF got
  <2> DEFINE t == [s EXCEPT !.buf = got, !.pos = 0]
  <2>3. /\ t \in Segment
        /\ t.fd = s.fd /\ t.state = s.state /\ t.status = s.status
        /\ t.buf = got /\ t.pos = 0
    BY <2>2 DEF Segment
  <2>4. cgym_recv(s, c, len) = [segm |-> t, conn |-> rest, rc |-> 0]
    BY <2>1
  <2> HIDE DEF t
  <2> QED
    BY <1>7, <2>2, <2>3, <2>4 DEF Result, SameSock
<1>10. CASE n # 0 /\ n # want
  <2>1. cgym_recv(s, c, len) =
          [segm |-> [s EXCEPT !.buf = got, !.pos = s.pos + n], conn |-> rest, rc |-> 1]
    BY <1>10 DEF cgym_recv, n, got, old, new, rest, left
  <2>2. got \in Seq(Unit) /\ Len(got) = s.pos + n /\ s.pos + n \in Nat /\ s.pos + n < len
    BY <1>1, <1>2, <1>6, <1>10 DEF got
  <2> DEFINE pos == s.pos + n
             t   == [s EXCEPT !.buf = got, !.pos = pos]
  <2>3. pos \in Nat /\ got \in Seq(Unit) /\ pos < len /\ pos = Len(got)
    BY <2>2
  <2>4. cgym_recv(s, c, len) = [segm |-> t, conn |-> rest, rc |-> 1]
    BY <2>1
  <2> HIDE DEF pos
  <2>5. /\ t \in Segment
        /\ t.fd = s.fd /\ t.state = s.state /\ t.status = s.status
        /\ t.buf = got /\ t.pos = pos
    BY <2>3 DEF Segment
  <2> HIDE DEF t
  <2> QED
    BY <1>7, <2>3, <2>4, <2>5 DEF Result, SameSock
<1> QED
  BY <1>8, <1>9, <1>10

-----------------------------------------------------------------------------
(* Updates of a result.                                                    *)
LEMMA ToType ==
  ASSUME NEW r \in Result, NEW state \in SockStates
  PROVE  /\ To(r, state) \in Result
         /\ To(r, state).rc = r.rc /\ To(r, state).conn = r.conn
         /\ To(r, state).segm.state = state
         /\ To(r, state).segm.fd = r.segm.fd
         /\ To(r, state).segm.status = r.segm.status
         /\ To(r, state).segm.buf = r.segm.buf
         /\ To(r, state).segm.pos = r.segm.pos
  BY DEF To, Result, Segment

LEMMA MarkType ==
  ASSUME NEW r \in Result, NEW status \in Statuses
  PROVE  /\ Mark(r, status) \in Result
         /\ Mark(r, status).rc = r.rc /\ Mark(r, status).conn = r.conn
         /\ Mark(r, status).segm.state = r.segm.state
         /\ Mark(r, status).segm.fd = r.segm.fd
         /\ Mark(r, status).segm.status = status
         /\ Mark(r, status).segm.buf = r.segm.buf
         /\ Mark(r, status).segm.pos = r.segm.pos
  BY DEF Mark, Result, Segment

LEMMA ReturnType ==
  ASSUME NEW r \in Result, NEW rc \in 0 .. 6
  PROVE  /\ Return(r, rc) \in Result
         /\ Return(r, rc).rc = rc /\ Return(r, rc).conn = r.conn
         /\ Return(r, rc).segm = r.segm
  BY DEF Return, Result

LEMMA ClearType ==
  ASSUME NEW r \in Result
  PROVE  /\ Clear(r) \in Result
         /\ Clear(r).rc = r.rc /\ Clear(r).conn = r.conn
         /\ Clear(r).segm.state = r.segm.state
         /\ Clear(r).segm.fd = r.segm.fd
         /\ Clear(r).segm.status = r.segm.status
         /\ Clear(r).segm.buf = <<>> /\ Clear(r).segm.pos = 0
  BY EmptySeq DEF Clear, Result, Segment

LEMMA OnConnType ==
  ASSUME NEW r \in Result, NEW c \in Conn
  PROVE  /\ OnConn(r, c) \in Result
         /\ OnConn(r, c).rc = r.rc /\ OnConn(r, c).conn = c
         /\ OnConn(r, c).segm = r.segm
  BY DEF OnConn, Result

-----------------------------------------------------------------------------
LEMMA MessageLengths == Len(AckMsg) = 2 /\ Len(OkMsg) = 2
  BY DEF AckMsg, OkMsg

LEMMA ClearedPosOK ==
  ASSUME NEW r \in Result, NEW len \in Nat
  PROVE  PosOK(Clear(r).segm, len)
  BY ClearType, EmptySeq, SockAssumption DEF PosOK

LEMMA HandshakeType ==
  ASSUME NEW s \in Segment, NEW c \in Conn, s.pos <= Len(s.buf), s.pos < 2
  PROVE  LET r == cgym_recv_handshake(s, c) IN
         /\ r \in Result
         /\ SameSock(r, s, c)
         /\ r.segm.state = s.state /\ r.segm.status = s.status
         /\ r.rc \in 0 .. 3
         /\ r.segm.pos <= Len(r.segm.buf) /\ r.segm.pos < 2
         /\ r.rc = 0 => r.segm.pos = 0
<1> DEFINE q == cgym_recv(s, c, 2)
<1>1. /\ q \in Result
      /\ SameSock(q, s, c)
      /\ q.segm.state = s.state /\ q.segm.status = s.status
      /\ q.rc \in 0 .. 2
      /\ q.segm.pos <= Len(q.segm.buf) /\ q.segm.pos < 2
  BY RecvType
<1>2. cgym_recv_handshake(s, c) =
        IF q.rc = 0 THEN IF q.segm.buf = AckMsg THEN Clear(q) ELSE Return(q, 2)
        ELSE IF q.rc > 1 THEN Return(q, 3) ELSE q
  BY MessageLengths DEF cgym_recv_handshake
<1> HIDE DEF q
<1>3. Clear(q).segm.pos <= Len(Clear(q).segm.buf)
  BY <1>1, ClearType, EmptySeq
<1> QED
  BY <1>1, <1>2, <1>3, ClearType, ReturnType DEF SameSock

LEMMA ConnectType ==
  ASSUME NEW s \in Segment, NEW c \in Conn, NEW len \in Nat, PosOK(s, len),
         s.state \in {"CONNECTING", "RECV_HANDSHAKE"}
  PROVE  LET r == cgym_sock_connect(s, c) IN
         /\ r \in Result
         /\ SameSock(r, s, c)
         /\ r.segm.status = s.status
         /\ PosOK(r.segm, len)
         /\ r.rc = 0 => r.segm.state = "CONNECTED"
         /\ r.rc = 1 => r.segm.state = "RECV_HANDSHAKE"
<1> DEFINE t == [s EXCEPT !.state = "RECV_HANDSHAKE"]
           q == cgym_recv_handshake(t, c)
<1>1. s.pos <= Len(s.buf) /\ s.pos < 2
  BY DEF PosOK
<1>2. /\ t \in Segment
      /\ t.fd = s.fd /\ t.state = "RECV_HANDSHAKE" /\ t.status = s.status
      /\ t.buf = s.buf /\ t.pos = s.pos
  BY DEF Segment, SockStates
<1> HIDE DEF t
<1>3. PosOK(t, len)
  BY <1>1, <1>2 DEF PosOK
<1>4. /\ q \in Result
      /\ SameSock(q, t, c)
      /\ q.segm.state = "RECV_HANDSHAKE" /\ q.segm.status = s.status
      /\ q.rc \in 0 .. 3
      /\ q.segm.pos <= Len(q.segm.buf) /\ q.segm.pos < 2
      /\ q.rc = 0 => q.segm.pos = 0
  BY <1>1, <1>2, HandshakeType
<1>5. CASE s.state = "CONNECTING" /\ c.st = "failed"
  <2>1. cgym_sock_connect(s, c) = [segm |-> t, conn |-> c, rc |-> 5]
    BY <1>5 DEF cgym_sock_connect, t
  <2> QED
    BY <1>2, <1>3, <2>1 DEF Result, SameSock
<1>6. CASE ~(s.state = "CONNECTING" /\ c.st = "failed")
  <2>1. cgym_sock_connect(s, c) =
          IF q.rc = 0 THEN To(q, "CONNECTED")
          ELSE IF q.rc > 1 THEN Return(To(q, "ERR"), 6) ELSE q
    BY <1>6 DEF cgym_sock_connect, t
  <2> HIDE DEF q
  <2>2. "CONNECTED" \in SockStates /\ "ERR" \in SockStates
    BY DEF SockStates
  <2>3. CASE q.rc = 0
    BY <1>2, <1>4, <2>1, <2>2, <2>3, ToType DEF SameSock, PosOK
  <2>4. CASE q.rc > 1
    <3> DEFINE u == To(q, "ERR")
    <3>1. /\ u \in Result /\ u.conn = q.conn /\ u.segm.state = "ERR"
          /\ u.segm.fd = q.segm.fd /\ u.segm.status = q.segm.status
          /\ u.segm.buf = q.segm.buf /\ u.segm.pos = q.segm.pos
      BY <1>4, <2>2, ToType
    <3>2. cgym_sock_connect(s, c) = Return(u, 6)
      BY <1>4, <2>1, <2>4
    <3> HIDE DEF u
    <3> QED
      BY <1>2, <1>4, <3>1, <3>2, ReturnType DEF SameSock, PosOK
  <2>5. CASE q.rc = 1
    BY <1>2, <1>4, <2>1, <2>5 DEF SameSock, PosOK
  <2> QED
    BY <1>4, <2>3, <2>4, <2>5
<1> QED
  BY <1>5, <1>6

-----------------------------------------------------------------------------
(* The reply to SIZE.                                                      *)
LEMMA SizeStatusType ==
  ASSUME NEW s \in Segment, NEW c \in Conn, NEW len \in Nat, PosOK(s, len),
         s.state = "RECV_SIZE_REPLY"
  PROVE  LET r == SizeStatus(s, c) IN
         /\ r \in Result
         /\ SameSock(r, s, c)
         /\ r.segm.status = s.status
         /\ r.segm.state \in {"RECV_SIZE_REPLY", "RECV_SIZE_DATA", "CONNECTED"}
         /\ r.segm.pos <= Len(r.segm.buf)
         /\ r.segm.state # "CONNECTED" => PosOK(r.segm, len)
         /\ r.segm.state = "RECV_SIZE_REPLY" <=> r.rc = 1
         /\ r.segm.state = "CONNECTED" => r.rc > 1
         /\ r.rc = 0 => r.segm.state = "RECV_SIZE_DATA"
<1> DEFINE q == cgym_recv(s, c, 2)
<1>1. /\ q \in Result
      /\ SameSock(q, s, c)
      /\ q.segm.state = "RECV_SIZE_REPLY" /\ q.segm.status = s.status
      /\ q.rc \in 0 .. 2
      /\ q.segm.pos <= Len(q.segm.buf) /\ q.segm.pos < 2
      /\ q.rc = 0 => q.segm.pos = 0
  BY RecvType DEF PosOK
<1>2. SizeStatus(s, c) =
        IF q.rc = 0 THEN IF q.segm.buf = OkMsg THEN To(q, "RECV_SIZE_DATA")
                         ELSE Return(To(q, "CONNECTED"), 2)
        ELSE IF q.rc > 1 THEN To(q, "CONNECTED") ELSE q
  BY MessageLengths DEF SizeStatus
<1> HIDE DEF q
<1>3. "CONNECTED" \in SockStates /\ "RECV_SIZE_DATA" \in SockStates
  BY DEF SockStates
<1> DEFINE u == To(q, "CONNECTED")
<1>4. /\ u \in Result /\ u.conn = q.conn /\ u.segm.state = "CONNECTED"
      /\ u.rc = q.rc
      /\ u.segm.fd = q.segm.fd /\ u.segm.status = q.segm.status
      /\ u.segm.buf = q.segm.buf /\ u.segm.pos = q.segm.pos
  BY <1>1, <1>3, ToType
<1>5. CASE q.rc = 0 /\ q.segm.buf = OkMsg
  BY <1>1, <1>2, <1>3, <1>5, ToType, SockAssumption DEF SameSock, PosOK
<1>6. CASE q.rc = 0 /\ q.segm.buf # OkMsg
  <2>1. SizeStatus(s, c) = Return(u, 2)
    BY <1>2, <1>6
  <2> HIDE DEF u
  <2> QED
    BY <1>1, <1>4, <2>1, ReturnType DEF SameSock
<1>7. CASE q.rc > 1
  <2>1. SizeStatus(s, c) = u
    BY <1>1, <1>2, <1>7
  <2> HIDE DEF u
  <2> QED
    BY <1>1, <1>4, <1>7, <2>1 DEF SameSock
<1>8. CASE q.rc = 1
  BY <1>1, <1>2, <1>8 DEF SameSock, PosOK
<1> QED
  BY <1>1, <1>5, <1>6, <1>7, <1>8

LEMMA SizeLineType ==
  ASSUME NEW s \in Segment, NEW c \in Conn, NEW len \in Nat, PosOK(s, len),
         s.state = "RECV_SIZE_DATA"
  PROVE  LET r == SizeLine(s, c) IN
         /\ r \in Result
         /\ SameSock(r, s, c)
         /\ r.segm.status = s.status
         /\ r.segm.pos <= Len(r.segm.buf)
         /\ PosOK(r.segm, len)
         /\ r.rc = 0 => /\ r.segm.state = "CONNECTED"
                        /\ LineEntry(s, c) \in Versions
         /\ r.rc # 0 => r.segm.state = "RECV_SIZE_DATA"
<1> DEFINE q == cgym_recv(s, c, MaxLine)
<1>1. /\ q \in Result
      /\ SameSock(q, s, c)
      /\ q.segm.state = "RECV_SIZE_DATA" /\ q.segm.status = s.status
      /\ q.rc \in 0 .. 2
      /\ q.segm.pos <= Len(q.segm.buf) /\ q.segm.pos < MaxLine
  BY RecvType, SockAssumption DEF PosOK
<1>2. SizeLine(s, c) =
        IF q.rc = 1 /\ HasLine(q.segm)
        THEN IF q.segm.buf[1].kind = "entry" THEN Return(Clear(To(q, "CONNECTED")), 0)
             ELSE Return(q, 5)
        ELSE IF q.rc = 0 THEN Return(q, 4) ELSE q
  BY DEF SizeLine
<1>3. LineEntry(s, c) = q.segm.buf[1].of
  BY DEF LineEntry
<1> HIDE DEF q
<1>4. q.segm \in Segment /\ PosOK(q.segm, len)
  BY <1>1, SockAssumption DEF PosOK, Result
<1>5. CASE q.rc = 1 /\ HasLine(q.segm) /\ q.segm.buf[1].kind = "entry"
  <2> DEFINE u == To(q, "CONNECTED")
             w == Clear(u)
  <2>1. u \in Result /\ u.conn = q.conn /\ u.segm.state = "CONNECTED"
        /\ u.segm.fd = q.segm.fd /\ u.segm.status = q.segm.status
    BY <1>1, ToType DEF SockStates
  <2>2. SizeLine(s, c) = Return(w, 0)
    BY <1>2, <1>5
  <2> HIDE DEF u
  <2>3. /\ w \in Result /\ w.conn = q.conn /\ w.segm.state = "CONNECTED"
        /\ w.segm.fd = q.segm.fd /\ w.segm.status = q.segm.status
        /\ w.segm.buf = <<>> /\ w.segm.pos = 0 /\ PosOK(w.segm, len)
    BY <2>1, ClearType, ClearedPosOK
  <2> HIDE DEF w
  <2>4. w.segm.pos <= Len(w.segm.buf)
    BY <2>3, EmptySeq
  <2>5. q.segm.buf[1] \in Unit
    BY <1>1, <1>4, <1>5 DEF HasLine, Segment
  <2>6. LineEntry(s, c) \in Versions
    BY <1>3, <1>5, <2>5 DEF Unit
  <2> QED
    BY <1>1, <2>2, <2>3, <2>4, <2>6, ReturnType DEF SameSock
<1>6. CASE q.rc = 1 /\ HasLine(q.segm) /\ q.segm.buf[1].kind # "entry"
  BY <1>1, <1>2, <1>4, <1>6, ReturnType DEF SameSock
<1>7. CASE ~(q.rc = 1 /\ HasLine(q.segm)) /\ q.rc = 0
  BY <1>1, <1>2, <1>4, <1>7, ReturnType DEF SameSock
<1>8. CASE ~(q.rc = 1 /\ HasLine(q.segm)) /\ q.rc # 0
  BY <1>1, <1>2, <1>4, <1>8 DEF SameSock
<1> QED
  BY <1>5, <1>6, <1>7, <1>8

LEMMA SizeReplyType ==
  ASSUME NEW s \in Segment, NEW c \in Conn, NEW len \in Nat, PosOK(s, len),
         s.state \in {"RECV_SIZE_REPLY", "RECV_SIZE_DATA"}
  PROVE  LET r == cgym_recv_size_reply(s, c) IN
         /\ r \in Result
         /\ SameSock(r, s, c)
         /\ r.segm.status = s.status
         /\ PosOK(r.segm, len)
         /\ r.rc = 0 => r.segm.state = "CONNECTED"
<1> DEFINE a == AfterSizeStatus(s, c)
           b == IF a.segm.state = "RECV_SIZE_DATA" THEN SizeLine(a.segm, a.conn) ELSE a
<1>1. /\ a \in Result
      /\ SameSock(a, s, c)
      /\ a.segm.status = s.status
      /\ a.segm.state \in {"RECV_SIZE_REPLY", "RECV_SIZE_DATA", "CONNECTED"}
      /\ a.segm.state # "CONNECTED" => PosOK(a.segm, len)
      /\ a.segm.state = "RECV_SIZE_REPLY" => a.rc = 1
      /\ a.segm.state = "CONNECTED" => a.rc > 1
  <2>1. CASE s.state = "RECV_SIZE_REPLY"
    BY <2>1, SizeStatusType DEF AfterSizeStatus
  <2>2. CASE s.state = "RECV_SIZE_DATA"
    <3>1. a = [segm |-> s, conn |-> c, rc |-> 0]
      BY <2>2 DEF AfterSizeStatus
    <3> HIDE DEF a
    <3> QED
      BY <2>2, <3>1 DEF Result, SameSock
  <2> QED
    BY <2>1, <2>2
<1>2. cgym_recv_size_reply(s, c) = ClearOnError(b)
  BY DEF cgym_recv_size_reply
<1> HIDE DEF a
<1>3. /\ b \in Result
      /\ SameSock(b, s, c)
      /\ b.segm.status = s.status
      /\ b.rc <= 1 => PosOK(b.segm, len)
      /\ b.rc = 0 => b.segm.state = "CONNECTED"
  <2>1. CASE a.segm.state = "RECV_SIZE_DATA"
    <3>1. b = SizeLine(a.segm, a.conn)
      BY <2>1
    <3>2. a.segm \in Segment /\ a.conn \in Conn /\ PosOK(a.segm, len)
      BY <1>1, <2>1 DEF Result
    <3> HIDE DEF b
    <3> QED
      BY <1>1, <2>1, <3>1, <3>2, SizeLineType DEF SameSock
  <2>2. CASE a.segm.state # "RECV_SIZE_DATA"
    <3>1. b = a
      BY <2>2
    <3> HIDE DEF b
    <3> QED
      BY <1>1, <2>2, <3>1 DEF Result
  <2> QED
    BY <2>1, <2>2
<1> HIDE DEF b
<1>4. CASE b.rc > 1
  BY <1>2, <1>3, <1>4, ClearType, ClearedPosOK DEF ClearOnError, SameSock
<1>5. CASE ~(b.rc > 1)
  <2>1. b.rc <= 1
    BY <1>3, <1>5 DEF Result
  <2> QED
    BY <1>2, <1>3, <1>5, <2>1 DEF ClearOnError
<1> QED
  BY <1>4, <1>5

-----------------------------------------------------------------------------
(* The reply to GET: a segment becomes DONE exactly when 0 is returned,    *)
(* and then the buffer holds its bytes and the end of line.                *)
LEMMA GetStatusType ==
  ASSUME NEW s \in Segment, NEW c \in Conn, NEW len \in Nat, PosOK(s, len),
         s.state = "RECV_GET_REPLY", s.status # "DONE"
  PROVE  LET r == GetStatus(s, c) IN
         /\ r \in Result
         /\ SameSock(r, s, c)
         /\ r.segm.status # "DONE"
         /\ r.segm.state \in {"RECV_GET_REPLY", "RECV_GET_DATA", "CONNECTED"}
         /\ r.segm.state # "CONNECTED" => PosOK(r.segm, len)
         /\ r.segm.state = "RECV_GET_REPLY" => r.rc = 1
         /\ r.segm.state = "CONNECTED" => r.rc > 1
<1> DEFINE q == cgym_recv(s, c, 2)
<1>1. /\ q \in Result
      /\ SameSock(q, s, c)
      /\ q.segm.state = "RECV_GET_REPLY" /\ q.segm.status = s.status
      /\ q.rc \in 0 .. 2
      /\ q.segm.pos <= Len(q.segm.buf) /\ q.segm.pos < 2
      /\ q.rc = 0 => q.segm.pos = 0
  BY RecvType DEF PosOK
<1>2. GetStatus(s, c) =
        IF q.rc = 0
        THEN IF q.segm.buf = OkMsg THEN Mark(To(q, "RECV_GET_DATA"), "STARTED")
             ELSE Return(To(q, "CONNECTED"), 2)
        ELSE IF q.rc > 1 THEN Mark(To(q, "CONNECTED"), "IDLE") ELSE q
  BY MessageLengths DEF GetStatus
<1> HIDE DEF q
<1> DEFINE u == To(q, "CONNECTED")
           w == To(q, "RECV_GET_DATA")
<1>3. /\ u \in Result /\ u.conn = q.conn /\ u.segm.state = "CONNECTED"
      /\ u.rc = q.rc
      /\ u.segm.fd = q.segm.fd /\ u.segm.status = q.segm.status
  BY <1>1, ToType DEF SockStates
<1>4. /\ w \in Result /\ w.conn = q.conn /\ w.segm.state = "RECV_GET_DATA"
      /\ w.rc = q.rc /\ w.segm.fd = q.segm.fd
      /\ w.segm.buf = q.segm.buf /\ w.segm.pos = q.segm.pos
  BY <1>1, ToType DEF SockStates
<1> HIDE DEF u, w
<1>5. CASE q.rc = 0 /\ q.segm.buf = OkMsg
  <2>1. GetStatus(s, c) = Mark(w, "STARTED")
    BY <1>2, <1>5 DEF w
  <2>2. "STARTED" \in Statuses
    BY DEF Statuses
  <2>3. /\ Mark(w, "STARTED") \in Result
        /\ SameSock(Mark(w, "STARTED"), s, c)
        /\ Mark(w, "STARTED").segm.status = "STARTED"
        /\ Mark(w, "STARTED").segm.state = "RECV_GET_DATA"
        /\ Mark(w, "STARTED").segm.pos = 0
        /\ Mark(w, "STARTED").segm.pos <= Len(Mark(w, "STARTED").segm.buf)
    BY <1>1, <1>4, <1>5, <2>2, MarkType DEF SameSock
  <2> QED
    BY <2>1, <2>3 DEF PosOK
<1>6. CASE q.rc = 0 /\ q.segm.buf # OkMsg
  <2>1. GetStatus(s, c) = Return(u, 2)
    BY <1>2, <1>6 DEF u
  <2> QED
    BY <1>1, <1>3, <2>1, ReturnType DEF SameSock
<1>7. CASE q.rc > 1
  <2>1. GetStatus(s, c) = Mark(u, "IDLE")
    BY <1>1, <1>2, <1>7 DEF u
  <2>2. "IDLE" \in Statuses
    BY DEF Statuses
  <2> QED
    BY <1>1, <1>3, <1>7, <2>1, <2>2, MarkType DEF SameSock
<1>8. CASE q.rc = 1
  BY <1>1, <1>2, <1>8 DEF SameSock, PosOK
<1> QED
  BY <1>1, <1>5, <1>6, <1>7, <1>8

LEMMA GetDataType ==
  ASSUME NEW s \in Segment, NEW c \in Conn, NEW len \in Nat, PosOK(s, len),
         s.state = "RECV_GET_DATA", s.status # "DONE"
  PROVE  LET r == GetData(s, c, len) IN
         /\ r \in Result
         /\ SameSock(r, s, c)
         /\ r.rc <= 1 => PosOK(r.segm, len)
         /\ r.segm.status = "DONE" <=> r.rc = 0
         /\ r.rc = 0 => r.segm.state = "CONNECTED" /\ Len(r.segm.buf) = len + 1
<1> DEFINE q == cgym_recv(s, c, len + 1)
<1>1. /\ q \in Result
      /\ SameSock(q, s, c)
      /\ q.segm.state = "RECV_GET_DATA" /\ q.segm.status = s.status
      /\ q.rc \in 0 .. 2
      /\ q.segm.pos <= Len(q.segm.buf) /\ q.segm.pos < len + 1
      /\ q.rc = 0 => q.segm.pos = 0 /\ Len(q.segm.buf) = len + 1
  BY RecvType DEF PosOK
<1>2. GetData(s, c, len) =
        IF q.rc = 0
        THEN IF q.segm.buf[len + 1] = CRLF THEN Mark(To(q, "CONNECTED"), "DONE")
             ELSE Return(q, 5)
        ELSE IF q.rc > 1 THEN Return(Mark(q, "IDLE"), 4) ELSE q
  BY DEF GetData
<1> HIDE DEF q
<1> DEFINE u == To(q, "CONNECTED")
           w == Mark(q, "IDLE")
<1>3. /\ u \in Result /\ u.conn = q.conn /\ u.segm.state = "CONNECTED"
      /\ u.rc = q.rc /\ u.segm.fd = q.segm.fd
      /\ u.segm.buf = q.segm.buf /\ u.segm.pos = q.segm.pos
  BY <1>1, ToType DEF SockStates
<1>4. /\ w \in Result /\ w.conn = q.conn /\ w.segm.fd = q.segm.fd
      /\ w.segm.status = "IDLE"
  BY <1>1, MarkType DEF Statuses
<1> HIDE DEF u, w
<1>5. CASE q.rc = 0 /\ q.segm.buf[len + 1] = CRLF
  <2>1. GetData(s, c, len) = Mark(u, "DONE")
    BY <1>2, <1>5 DEF u
  <2>2. "DONE" \in Statuses
    BY DEF Statuses
  <2> DEFINE m == Mark(u, "DONE")
  <2>3. /\ m \in Result /\ SameSock(m, s, c) /\ m.rc = 0
        /\ m.segm.status = "DONE" /\ m.segm.state = "CONNECTED"
        /\ m.segm.pos = 0 /\ Len(m.segm.buf) = len + 1
    BY <1>1, <1>3, <1>5, <2>2, MarkType DEF SameSock
  <2> HIDE DEF m
  <2>4. PosOK(m.segm, len)
    BY <2>3 DEF PosOK
  <2> QED
    BY <2>1, <2>3, <2>4 DEF m
<1>6. CASE q.rc = 0 /\ q.segm.buf[len + 1] # CRLF
  BY <1>1, <1>2, <1>6, ReturnType DEF SameSock
<1>7. CASE q.rc > 1
  <2>1. GetData(s, c, len) = Return(w, 4)
    BY <1>1, <1>2, <1>7 DEF w
  <2> QED
    BY <1>1, <1>4, <2>1, ReturnType DEF SameSock
<1>8. CASE q.rc = 1
  BY <1>1, <1>2, <1>8 DEF SameSock, PosOK
<1> QED
  BY <1>1, <1>5, <1>6, <1>7, <1>8

LEMMA GetReplyType ==
  ASSUME NEW s \in Segment, NEW c \in Conn, NEW len \in Nat, PosOK(s, len),
         s.state \in {"RECV_GET_REPLY", "RECV_GET_DATA"}, s.status # "DONE"
  PROVE  LET r == cgym_recv_get_reply(s, c, len) IN
         /\ r \in Result
         /\ SameSock(r, s, c)
         /\ PosOK(r.segm, len)
         /\ r.segm.status = "DONE" <=> r.rc = 0
         /\ r.rc = 0 => r.segm.state = "CONNECTED" /\ Len(r.segm.buf) = len + 1
<1> DEFINE a == AfterGetStatus(s, c)
           b == IF a.segm.state = "RECV_GET_DATA" THEN GetData(a.segm, a.conn, len) ELSE a
<1>1. /\ a \in Result
      /\ SameSock(a, s, c)
      /\ a.segm.status # "DONE"
      /\ a.segm.state \in {"RECV_GET_REPLY", "RECV_GET_DATA", "CONNECTED"}
      /\ a.segm.state # "CONNECTED" => PosOK(a.segm, len)
      /\ a.segm.state = "RECV_GET_REPLY" => a.rc = 1
      /\ a.segm.state = "CONNECTED" => a.rc > 1
  <2>1. CASE s.state = "RECV_GET_REPLY"
    BY <2>1, GetStatusType DEF AfterGetStatus
  <2>2. CASE s.state = "RECV_GET_DATA"
    <3>1. a = [segm |-> s, conn |-> c, rc |-> 0]
      BY <2>2 DEF AfterGetStatus
    <3> HIDE DEF a
    <3> QED
      BY <2>2, <3>1 DEF Result, SameSock
  <2> QED
    BY <2>1, <2>2
<1>2. cgym_recv_get_reply(s, c, len) = ClearOnError(b)
  BY DEF cgym_recv_get_reply
<1> HIDE DEF a
<1>3. /\ b \in Result
      /\ SameSock(b, s, c)
      /\ b.rc <= 1 => PosOK(b.segm, len)
      /\ b.segm.status = "DONE" <=> b.rc = 0
      /\ b.rc = 0 => b.segm.state = "CONNECTED" /\ Len(b.segm.buf) = len + 1
  <2>1. CASE a.segm.state = "RECV_GET_DATA"
    <3>1. b = GetData(a.segm, a.conn, len)
      BY <2>1
    <3>2. a.segm \in Segment /\ a.conn \in Conn /\ PosOK(a.segm, len)
      BY <1>1, <2>1 DEF Result
    <3> HIDE DEF b
    <3> QED
      BY <1>1, <2>1, <3>1, <3>2, GetDataType DEF SameSock
  <2>2. CASE a.segm.state # "RECV_GET_DATA"
    <3>1. b = a
      BY <2>2
    <3> HIDE DEF b
    <3> QED
      BY <1>1, <2>2, <3>1 DEF Result
  <2> QED
    BY <2>1, <2>2
<1> HIDE DEF b
<1>4. CASE b.rc > 1
  BY <1>2, <1>3, <1>4, ClearType, ClearedPosOK DEF ClearOnError, SameSock
<1>5. CASE ~(b.rc > 1)
  <2>1. b.rc <= 1
    BY <1>3, <1>5 DEF Result
  <2> QED
    BY <1>2, <1>3, <1>5, <2>1 DEF ClearOnError
<1> QED
  BY <1>4, <1>5

-----------------------------------------------------------------------------
(* A count by which the file can be divided fits it.                       *)
LEMMA PlanFits ==
  ASSUME e \in Versions, Divides(NrSegments)
  PROVE  /\ Fits(NrSegments, SizeOf[e])
         /\ NrSegments \in Nat \ {0} /\ SizeOf[e] \in Nat \ {0}
<1> DEFINE size == SizeOf[e]
<1>1. size \in 0 .. INT_MAX /\ NrSegm \in Int_t
  BY GetAssumption
<1>2. NrSegments = IF ToULong(NrSegm) > size THEN ToInt(size) ELSE NrSegm
  BY DEF NrSegments, ClampSegments
<1>3. ToInt(size) = size /\ ToULong(size) = size
  BY <1>1, ToIntSmall, ToULongSmall, WidthAssumption DEF ULong_t
<1> HIDE DEF size
<1>4. CASE ToULong(NrSegm) > size
  <2>1. size # 0
    BY <1>2, <1>3, <1>4 DEF Divides
  <2> QED
    BY <1>1, <1>2, <1>3, <1>4, <2>1, WidthAssumption DEF Fits, size
<1>5. CASE ~(ToULong(NrSegm) > size)
  <2>1. NrSegm >= 0
    <3>1. SUFFICES ASSUME NrSegm < 0 PROVE FALSE
      BY <1>1 DEF Int_t
    <3>2. NrSegm \in Int /\ 0 <= (ULONG_MAX + 1) + NrSegm /\ size < (ULONG_MAX + 1) + NrSegm
      BY <1>1, <3>1, WidthAssumption DEF Int_t
    <3>3. ToULong(NrSegm) = (ULONG_MAX + 1) + NrSegm
      BY <3>1, <3>2, ModNegative, WidthAssumption DEF ToULong
    <3> QED
      BY <1>1, <1>5, <3>2, <3>3, WidthAssumption
  <2>2. ToULong(NrSegm) = NrSegm
    BY <1>1, <2>1, ToULongSmall, WidthAssumption DEF ULong_t, Int_t
  <2>3. NrSegm # 0
    BY <1>2, <1>5, <2>2 DEF Divides
  <2> QED
    BY <1>1, <1>2, <1>5, <2>1, <2>2, <2>3, WidthAssumption DEF Fits, size, Int_t
<1> QED
  BY <1>4, <1>5

(* Start and Stop are what was proved of SegmStart and SegmStop.           *)
LEMMA BytesType ==
  ASSUME Planned, NEW k \in 1 .. NrSegments
  PROVE  /\ Start(k - 1) \in Nat /\ Stop(k - 1) \in Nat
         /\ Start(k - 1) < Stop(k - 1)
         /\ Bytes(k) \in Nat \ {0}
<1> DEFINE n == NrSegments
           size == SizeOf[e]
           q == SegmSize(n, size)
<1>1. Fits(n, size) /\ n \in Nat \ {0} /\ size \in Nat \ {0}
  BY PlanFits DEF Planned
<1>2. /\ q \in Nat \ {0}
      /\ \A j \in 0 .. n - 1 : SegmStart(j, n, size) = j * q
      /\ \A j \in 0 .. n - 1 :
           SegmStop(j, n, size) = IF j < n - 1 THEN (j + 1) * q ELSE size
  BY <1>1, SegmentEnds
<1>3. \A j \in 0 .. n - 1 : SegmStart(j, n, size) < SegmStop(j, n, size)
  BY <1>1, FittingCountPartitions DEF IsPartition, SegmIndices
<1> HIDE DEF q
<1>4. k - 1 \in 0 .. n - 1 /\ (k - 1) * q \in Nat /\ ((k - 1) + 1) * q \in Nat
  BY <1>1, <1>2
<1> QED
  BY <1>1, <1>2, <1>3, <1>4 DEF Start, Stop, Bytes

LEMMA Division ==
  ASSUME NEW a \in Nat, NEW q \in Nat \ {0}
  PROVE  /\ a \div q \in Nat
         /\ (a \div q) * q <= a
         /\ a < (a \div q) * q + q
  OBVIOUS

LEMMA NextMultiple ==
  ASSUME NEW d \in Nat, NEW q \in Nat
  PROVE  (d + 1) * q = d * q + q /\ d * q \in Nat
  OBVIOUS

(* Every byte of the file belongs to a segment.                            *)
LEMMA OwnerExists ==
  ASSUME Planned, Len(segm) = NrSegments, NEW b \in 0 .. SizeOf[e] - 1
  PROVE  /\ Owner(b) \in 0 .. NrSegments - 1
         /\ Start(Owner(b)) <= b /\ b < Stop(Owner(b))
<1> DEFINE n == NrSegments
           size == SizeOf[e]
           q == SegmSize(n, size)
<1>1. Fits(n, size) /\ n \in Nat \ {0} /\ size \in Nat \ {0}
  BY PlanFits DEF Planned
<1>2. /\ q \in Nat \ {0}
      /\ \A j \in 0 .. n - 1 : SegmStart(j, n, size) = j * q
      /\ \A j \in 0 .. n - 1 :
           SegmStop(j, n, size) = IF j < n - 1 THEN (j + 1) * q ELSE size
  BY <1>1, SegmentEnds
<1> HIDE DEF q
<1> DEFINE d == b \div q
<1>3. b \in Nat
  BY <1>1
<1>4. d \in Nat /\ d * q <= b /\ b < d * q + q
  BY <1>2, <1>3, Division
<1> HIDE DEF d
<1>5. (d + 1) * q = d * q + q /\ d * q \in Nat
  BY <1>2, <1>4, NextMultiple
<1>6. \E j \in 0 .. n - 1 : Start(j) <= b /\ b < Stop(j)
  <2>1. CASE d < n - 1
    <3>1. d \in 0 .. n - 1
      BY <1>1, <1>4, <2>1
    <3>2. Start(d) = d * q /\ Stop(d) = (d + 1) * q
      BY <1>2, <2>1, <3>1 DEF Start, Stop
    <3> QED
      BY <1>4, <1>5, <3>1, <3>2
  <2>2. CASE ~(d < n - 1)
    <3>1. n - 1 \in 0 .. n - 1 /\ n - 1 <= d /\ n - 1 \in Nat
      BY <1>1, <1>4, <2>2
    <3>2. Start(n - 1) = (n - 1) * q /\ Stop(n - 1) = size
      BY <1>2, <3>1 DEF Start, Stop
    <3>3. (n - 1) * q <= d * q /\ (n - 1) * q \in Nat /\ d * q \in Nat
      BY <1>2, <1>4, <1>5, <3>1, NextMultiple, TimesMonotone
    <3>4. (n - 1) * q <= b /\ b < size
      BY <1>1, <1>4, <3>3
    <3> QED
      BY <3>1, <3>2, <3>4
  <2> QED
    BY <2>1, <2>2
<1> QED
  BY <1>6 DEF Owner

-----------------------------------------------------------------------------
(* What IInv says of the segments and their connections, of any sg and cn. *)
Sound(sg, cn) ==
  /\ sg \in Seq(Segment) /\ cn \in [Fds -> Conn]
  /\ \A j, k \in 1 .. Len(sg) : sg[j].fd = sg[k].fd => j = k
  /\ \A k \in 1 .. Len(sg) :
       /\ PosOK(sg[k], Bytes(k))
       /\ Done(sg[k]) => sg[k].state = "IDLE" /\ Len(sg[k].buf) = Bytes(k) + 1
       /\ ~Done(sg[k]) => cn[sg[k].fd].st # "free"

LEMMA NowSound ==
  ASSUME IInv, pc \in Running
  PROVE  Sound(segm, conn)
  BY DEF IInv, TypeOK, FdsDistinct, SegmOK, Sound

LEMMA NextSound ==
  ASSUME e' = e, Sound(segm', conn')
  PROVE  FdsDistinct' /\ (\A k \in 1 .. Len(segm) : SegmOK(k))'
<1>1. \A k : Bytes(k)' = Bytes(k)
  BY DEF Bytes, Start, Stop, NrSegments
<1> QED
  BY <1>1 DEF Sound, FdsDistinct, SegmOK, PosOK, Done

(* A segment and its connection may change together.                       *)
LEMMA Replace ==
  ASSUME NEW sg, NEW cn, Sound(sg, cn),
         NEW k \in 1 .. Len(sg), NEW t \in Segment, NEW c \in Conn,
         t.fd = sg[k].fd, PosOK(t, Bytes(k)),
         t.status = "DONE" => t.state = "IDLE" /\ Len(t.buf) = Bytes(k) + 1,
         t.status # "DONE" => c.st # "free"
  PROVE  /\ Sound([sg EXCEPT ![k] = t], [cn EXCEPT ![t.fd] = c])
         /\ Len([sg EXCEPT ![k] = t]) = Len(sg)
         /\ \A j \in 1 .. Len(sg) :
              [sg EXCEPT ![k] = t][j] = IF j = k THEN t ELSE sg[j]
<1> DEFINE ts == [sg EXCEPT ![k] = t]
           cs == [cn EXCEPT ![t.fd] = c]
<1>1. /\ sg \in Seq(Segment) /\ cn \in [Fds -> Conn]
      /\ \A i1, j1 \in 1 .. Len(sg) : sg[i1].fd = sg[j1].fd => i1 = j1
      /\ \A j \in 1 .. Len(sg) :
           /\ PosOK(sg[j], Bytes(j))
           /\ Done(sg[j]) => sg[j].state = "IDLE" /\ Len(sg[j].buf) = Bytes(j) + 1
           /\ ~Done(sg[j]) => cn[sg[j].fd].st # "free"
  BY DEF Sound
<1>2. /\ ts \in Seq(Segment) /\ Len(ts) = Len(sg)
      /\ \A j \in 1 .. Len(sg) : ts[j] = IF j = k THEN t ELSE sg[j]
  BY <1>1, ExceptSeq
<1>3. t.fd \in Fds /\ cs \in [Fds -> Conn]
  BY <1>1 DEF Segment
<1>4. \A f \in Fds : cs[f] = IF f = t.fd THEN c ELSE cn[f]
  BY <1>1
<1> HIDE DEF ts, cs
<1>5. \A j \in 1 .. Len(sg) : ts[j].fd = sg[j].fd /\ sg[j].fd \in Fds
  <2>1. \A j \in 1 .. Len(sg) : sg[j] \in Segment
    BY <1>1
  <2> QED
    BY <1>2, <2>1 DEF Segment
<1>6. \A i1, j1 \in 1 .. Len(ts) : ts[i1].fd = ts[j1].fd => i1 = j1
  BY <1>1, <1>2, <1>5
<1>7. ASSUME NEW j \in 1 .. Len(ts)
      PROVE  /\ PosOK(ts[j], Bytes(j))
             /\ Done(ts[j]) => ts[j].state = "IDLE" /\ Len(ts[j].buf) = Bytes(j) + 1
             /\ ~Done(ts[j]) => cs[ts[j].fd].st # "free"
  <2>1. CASE j = k
    BY <1>2, <1>3, <1>4, <2>1 DEF Done
  <2>2. CASE j # k
    <3>1. ts[j] = sg[j] /\ sg[j].fd # t.fd /\ sg[j].fd \in Fds
      BY <1>1, <1>2, <1>5, <2>2
    <3> QED
      BY <1>1, <1>2, <1>4, <3>1
  <2> QED
    BY <2>1, <2>2
<1>8. Sound(ts, cs)
  BY <1>2, <1>3, <1>6, <1>7 DEF Sound
<1> QED
  BY <1>2, <1>8 DEF ts, cs

-----------------------------------------------------------------------------
(* New connections.                                                        *)
LEMMA NewConnType ==
  ASSUME NEW s \in Servers \cup {NoServer}, NEW mode \in AllModes
  PROVE  NewConn(s, mode) \in Conn /\ NewConn(s, mode).st # "free"
<1>1. NoReq \in Requests
  BY DEF NoReq, Requests
<1>2. FreeConn \in Conn
  BY <1>1, EmptySeq DEF FreeConn, Conn
<1> QED
  BY <1>2 DEF NewConn, FreeConn, Conn

Lists == [1 .. NServers + 1 -> Servers \cup {NoServer}]

LEMMA DialledType ==
  ASSUME NEW sl \in Lists, NEW p \in 1 .. NServers + 1,
         NEW cn \in [Fds -> Conn], NEW fd \in Fds, NEW mode \in ConnectModes,
         Dialled(sl, p, cn, fd, mode)
  PROVE  /\ conn' \in [Fds -> Conn]
         /\ cn[fd].st = "free" /\ conn'[fd].st # "free"
         /\ \A f \in Fds \ {fd} : conn'[f] = cn[f]
<1>1. sl[p] \in Servers /\ mode \in AllModes
  BY GetAssumption DEF Dialled, CanDial, Lists
<1>2. NewConn(sl[p], mode) \in Conn /\ NewConn(sl[p], mode).st # "free"
  BY <1>1, NewConnType
<1>3. cn[fd].st = "free" /\ conn' = [cn EXCEPT ![fd] = NewConn(sl[p], mode)]
  BY DEF Dialled, IsLowestFree, FreeFds
<1> QED
  BY <1>2, <1>3

(* A connection added at a free descriptor disturbs no segment.            *)
LEMMA DialledSound ==
  ASSUME NEW sl \in Lists, NEW p \in 1 .. NServers + 1,
         NEW sg, NEW cn, Sound(sg, cn),
         NEW fd \in Fds, NEW mode \in ConnectModes, Dialled(sl, p, cn, fd, mode)
  PROVE  Sound(sg, conn')
<1>1. cn \in [Fds -> Conn] /\ sg \in Seq(Segment)
  BY DEF Sound
<1>2. /\ conn' \in [Fds -> Conn]
      /\ cn[fd].st = "free" /\ conn'[fd].st # "free"
      /\ \A f \in Fds \ {fd} : conn'[f] = cn[f]
  BY <1>1, DialledType
<1>3. ASSUME NEW k \in 1 .. Len(sg), ~Done(sg[k])
      PROVE  conn'[sg[k].fd].st # "free"
  <2>1. sg[k].fd \in Fds /\ cn[sg[k].fd].st # "free"
    <3>1. sg[k] \in Segment
      BY <1>1
    <3> QED
      BY <1>3, <3>1 DEF Sound, Segment
  <2> QED
    BY <1>2, <2>1
<1> QED
  BY <1>2, <1>3 DEF Sound

LEMMA WrapType ==
  ASSUME NEW sl \in Lists, sl[NServers + 1] = NoServer,
         NEW p \in 1 .. NServers + 1
  PROVE  Wrap(sl, p) \in 1 .. NServers
  BY GetAssumption DEF Lists, Wrap, Servers, NoServer

(* The ways a setup can end.                                               *)
Outcome(next) ==
  /\ faults' \in 0 .. MaxFaults
  /\ \/ pc' = next /\ ret' = ret
     \/ pc' = "spin" /\ ret' = ret
     \/ pc' = "exit" /\ ret' = 3

LEMMA SetupFailsType ==
  ASSUME faults \in 0 .. MaxFaults, NEW sl, NEW p, NEW cn, NEW next,
         SetupFails(sl, p, cn)
  PROVE  conn' = cn /\ Outcome(next)
  BY GetAssumption DEF SetupFails, Outcome, NoFault, Fault, Goto, Exit

LEMMA RetryType ==
  ASSUME faults \in 0 .. MaxFaults, serv \in 1 .. NServers + 1,
         NEW sl \in Lists, sl[NServers + 1] = NoServer,
         NEW sg, NEW cn, Sound(sg, cn), NEW k, NEW next,
         Retry(k, sg, sl, cn, next)
  PROVE  /\ segm' = sg /\ slist' = sl
         /\ serv' \in 1 .. NServers + 1
         /\ Sound(sg, conn')
         /\ Outcome(next)
<1> DEFINE p == Wrap(sl, serv)
<1>1. p \in 1 .. NServers /\ p + 1 \in 1 .. NServers + 1
  <2>1. p \in 1 .. NServers
    BY WrapType
  <2> HIDE DEF p
  <2> QED
    BY <2>1, GetAssumption
<1>2. /\ segm' = sg /\ slist' = sl /\ serv' = p + 1
      /\ \/ SetupFails(sl, p, cn)
         \/ /\ \E fd \in Fds, mode \in ConnectModes : Dialled(sl, p, cn, fd, mode)
            /\ NoFault /\ Goto(next)
  BY DEF Retry
<1> HIDE DEF p
<1>3. CASE SetupFails(sl, p, cn)
  <2>1. conn' = cn /\ Outcome(next)
    BY <1>3, SetupFailsType
  <2> QED
    BY <1>1, <1>2, <2>1
<1>4. CASE /\ \E fd \in Fds, mode \in ConnectModes : Dialled(sl, p, cn, fd, mode)
           /\ NoFault /\ Goto(next)
  <2>1. PICK fd \in Fds, mode \in ConnectModes : Dialled(sl, p, cn, fd, mode)
    BY <1>4
  <2>2. p \in 1 .. NServers + 1
    BY <1>1, GetAssumption
  <2>3. Sound(sg, conn')
    BY <2>1, <2>2, DialledSound
  <2> QED
    BY <1>1, <1>2, <1>4, <2>3 DEF Outcome, NoFault, Goto
<1> QED
  BY <1>2, <1>3, <1>4

-----------------------------------------------------------------------------
(* What the second pass finds in the segment it handles.                   *)
LEMMA FoundType ==
  ASSUME IInv, pc = "pass", NEW k \in 0 .. Len(segm) - 1, IsNext(k)
  PROVE  /\ k + 1 \in 1 .. Len(segm) /\ k + 1 \in 1 .. NrSegments
         /\ segm[k + 1] \in Segment /\ segm[k + 1].fd \in Fds
         /\ ~Done(segm[k + 1]) /\ segm[k + 1].state \in Waiting
         /\ conn[segm[k + 1].fd] \in Conn /\ conn[segm[k + 1].fd].st # "free"
         /\ PosOK(segm[k + 1], Bytes(k + 1))
         /\ Start(k) \in Nat /\ Stop(k) \in Nat
         /\ Bytes(k + 1) = Stop(k) - Start(k) /\ Bytes(k + 1) \in Nat \ {0}
<1>1. segm \in Seq(Segment) /\ conn \in [Fds -> Conn] /\ fdset \subseteq Fds
  BY DEF IInv, TypeOK
<1>2. Len(segm) \in Nat /\ k + 1 \in 1 .. Len(segm) /\ (k + 1) - 1 = k
  BY <1>1
<1>3. Planned /\ Len(segm) = NrSegments
  BY DEF IInv, Stage, Looping
<1>4. segm[k + 1] \in Segment
  BY <1>1, <1>2
<1>5. SegmOK(k + 1) /\ FdsDistinct
  BY <1>2 DEF IInv, Running
<1>6. PICK j \in 1 .. Len(segm) :
        segm[j].fd = segm[k + 1].fd /\ ~Done(segm[j]) /\ segm[j].state \in Waiting
  BY DEF IInv, FdsWaited, IsNext
<1>7. j = k + 1
  BY <1>2, <1>5, <1>6 DEF FdsDistinct
<1>8. segm[k + 1].fd \in Fds
  BY <1>4 DEF Segment
<1>9. /\ Start(k) \in Nat /\ Stop(k) \in Nat /\ Bytes(k + 1) \in Nat \ {0}
      /\ Bytes(k + 1) = Stop(k) - Start(k)
  BY <1>2, <1>3, BytesType DEF Bytes
<1> QED
  BY <1>1, <1>2, <1>3, <1>4, <1>5, <1>6, <1>7, <1>8, <1>9 DEF SegmOK

(* What it may leave.                                                      *)
Handled(k) ==
  /\ Sound(segm', conn')
  /\ Len(segm') = Len(segm)
  /\ \A j \in 1 .. Len(segm) : j # k + 1 => segm'[j] = segm[j]
  /\ slist' \in Lists /\ slist'[NServers + 1] = NoServer
  /\ serv' \in 1 .. NServers + 1
  /\ faults' \in 0 .. MaxFaults
  /\ ret' \in 0 .. 5
  /\ pc' \in {"pass"} \cup Stopped

(* A result for segment k that leaves it unfinished.                       *)
Unfinished(k, r) ==
  /\ r \in Result
  /\ r.segm.fd = segm[k + 1].fd
  /\ r.conn.st # "free"
  /\ PosOK(r.segm, Bytes(k + 1))
  /\ ~Done(r.segm)

LEMMA UnfinishedSound ==
  ASSUME Sound(segm, conn), NEW k \in Nat, k + 1 \in 1 .. Len(segm),
         NEW r, Unfinished(k, r)
  PROVE  /\ Sound(Segm(k, r), Conns(r))
         /\ Len(Segm(k, r)) = Len(segm)
         /\ \A j \in 1 .. Len(segm) : j # k + 1 => Segm(k, r)[j] = segm[j]
<1>1. r.segm \in Segment /\ r.conn \in Conn
  BY DEF Unfinished, Result
<1> DEFINE l == k + 1
           t == r.segm
           c == r.conn
<1>2. /\ t \in Segment /\ c \in Conn /\ t.fd = segm[l].fd
      /\ PosOK(t, Bytes(l)) /\ t.status # "DONE" /\ c.st # "free" /\ l \in 1 .. Len(segm)
  BY <1>1 DEF Unfinished, Done
<1> HIDE DEF l, t, c
<1>3. /\ Sound([segm EXCEPT ![l] = t], [conn EXCEPT ![t.fd] = c])
      /\ Len([segm EXCEPT ![l] = t]) = Len(segm)
      /\ \A j \in 1 .. Len(segm) :
           [segm EXCEPT ![l] = t][j] = IF j = l THEN t ELSE segm[j]
  BY <1>2, Replace
<1> QED
  BY <1>3 DEF Segm, Conns, l, t, c

LEMMA KeepHandled ==
  ASSUME TypeOK, slist[NServers + 1] = NoServer,
         Sound(segm, conn), NEW k \in Nat, k + 1 \in 1 .. Len(segm),
         NEW r, Unfinished(k, r),
         Keep(k, r), pc' \in {"pass", "spin", "killed"}, ret' = ret
  PROVE  Handled(k)
  BY UnfinishedSound DEF Handled, Keep, TypeOK, Lists, NoFault, Stopped

LEMMA RetryHandled ==
  ASSUME TypeOK, NEW sl \in Lists, sl[NServers + 1] = NoServer,
         Sound(segm, conn), NEW k \in Nat, k + 1 \in 1 .. Len(segm),
         NEW r, Unfinished(k, r),
         Retry(k, Segm(k, r), sl, Conns(r), "pass")
  PROVE  Handled(k)
<1> DEFINE sg == Segm(k, r)
           cn == Conns(r)
<1>1. /\ Sound(sg, cn) /\ Len(sg) = Len(segm)
      /\ \A j \in 1 .. Len(segm) : j # k + 1 => sg[j] = segm[j]
  BY UnfinishedSound
<1>2. Retry(k, sg, sl, cn, "pass")
  OBVIOUS
<1> HIDE DEF sg, cn
<1>3. faults \in 0 .. MaxFaults /\ serv \in 1 .. NServers + 1 /\ ret \in 0 .. 5
  BY DEF TypeOK
<1>4. /\ segm' = sg /\ slist' = sl
      /\ serv' \in 1 .. NServers + 1
      /\ Sound(sg, conn')
      /\ Outcome("pass")
  BY <1>1, <1>2, <1>3, RetryType
<1> QED
  BY <1>1, <1>3, <1>4 DEF Handled, Outcome, Stopped

LEMMA SentType ==
  ASSUME NEW c \in Conn, NEW req \in Requests
  PROVE  Sent(c, req) \in Conn /\ Sent(c, req).st = c.st
  BY DEF Sent, Conn

LEMMA SendHandled ==
  ASSUME TypeOK, slist[NServers + 1] = NoServer,
         Sound(segm, conn), NEW k \in Nat, k + 1 \in 1 .. Len(segm),
         Bytes(k + 1) \in Nat \ {0},
         NEW r, Unfinished(k, r), r.segm.state = "CONNECTED",
         NEW req \in Requests, NEW state \in {"RECV_SIZE_REPLY", "RECV_GET_REPLY"},
         SendRequest(k, r, req, state)
  PROVE  Handled(k)
<1> DEFINE q == To(r, state)
           w == OnConn(q, Sent(r.conn, req))
<1>1. /\ r \in Result /\ r.conn \in Conn /\ r.segm \in Segment
      /\ r.conn.st # "free" /\ r.segm.pos = 0 /\ ~Done(r.segm)
      /\ r.segm.fd = segm[k + 1].fd /\ r.segm.pos <= Len(r.segm.buf)
  BY DEF Unfinished, Result, PosOK
<1>2. state \in SockStates
  BY DEF SockStates
<1>3. /\ q \in Result /\ q.segm.fd = segm[k + 1].fd /\ q.segm.state = state
      /\ q.segm.pos = 0 /\ q.segm.pos <= Len(q.segm.buf) /\ ~Done(q.segm)
  BY <1>1, <1>2, ToType DEF Done
<1>4. Sent(r.conn, req) \in Conn /\ Sent(r.conn, req).st # "free"
  BY <1>1, SentType
<1> HIDE DEF q
<1>5. w \in Result /\ w.segm = q.segm /\ w.conn.st # "free"
  BY <1>3, <1>4, OnConnType
<1>6. /\ \/ Keep(k, w) /\ Goto("pass")
         \/ SendMayFail(r.conn) /\ Keep(k, r) /\ Killed
         \/ SendMayFail(r.conn) /\ Retry(k, Segm(k, r), slist, Conns(r), "pass")
  BY DEF SendRequest, q
<1> HIDE DEF w
<1>7. PosOK(w.segm, Bytes(k + 1))
  BY <1>3, <1>5 DEF PosOK
<1>8. Unfinished(k, w)
  BY <1>3, <1>5, <1>7 DEF Unfinished
<1>9. CASE Keep(k, w) /\ Goto("pass")
  BY <1>8, <1>9, KeepHandled DEF Goto
<1>10. CASE Keep(k, r) /\ Killed
  BY <1>10, KeepHandled DEF Killed
<1>11. CASE Retry(k, Segm(k, r), slist, Conns(r), "pass")
  BY <1>11, RetryHandled DEF TypeOK, Lists
<1> QED
  BY <1>6, <1>9, <1>10, <1>11

LEMMA ConnectingHandled ==
  ASSUME IInv, pc = "pass", NEW k \in 0 .. Len(segm) - 1, IsNext(k), Connecting(k)
  PROVE  Handled(k)
<1> DEFINE r == cgym_sock_connect(segm[k + 1], conn[segm[k + 1].fd])
           len == Bytes(k + 1)
<1>1. TypeOK /\ slist[NServers + 1] = NoServer /\ Sound(segm, conn)
      /\ k \in Nat /\ slist \in Lists
  BY NowSound DEF IInv, Running, TypeOK, Lists
<1>2. /\ k + 1 \in 1 .. Len(segm)
      /\ segm[k + 1] \in Segment /\ ~Done(segm[k + 1])
      /\ conn[segm[k + 1].fd] \in Conn /\ conn[segm[k + 1].fd].st # "free"
      /\ PosOK(segm[k + 1], len) /\ len \in Nat \ {0}
  BY FoundType
<1>3. segm[k + 1].state \in {"CONNECTING", "RECV_HANDSHAKE"}
  BY DEF Connecting
<1>4. /\ r \in Result /\ SameSock(r, segm[k + 1], conn[segm[k + 1].fd])
      /\ r.segm.status = segm[k + 1].status /\ PosOK(r.segm, len)
      /\ r.rc = 0 => r.segm.state = "CONNECTED"
  BY <1>2, <1>3, ConnectType
<1>5. \/ r.rc = 1 /\ Keep(k, r) /\ Goto("pass")
      \/ r.rc > 1 /\ Retry(k, Segm(k, r), slist, Conns(r), "pass")
      \/ r.rc = 0 /\ SendRequest(k, r, SizeReq, "RECV_SIZE_REPLY")
  BY DEF Connecting
<1> HIDE DEF r
<1>6. Unfinished(k, r)
  BY <1>2, <1>4 DEF Unfinished, SameSock, Done
<1>7. SizeReq \in Requests
  BY DEF SizeReq, Requests
<1>8. CASE Keep(k, r) /\ Goto("pass")
  BY <1>1, <1>2, <1>6, <1>8, KeepHandled DEF Goto
<1>9. CASE Retry(k, Segm(k, r), slist, Conns(r), "pass")
  BY <1>1, <1>2, <1>6, <1>9, RetryHandled
<1>10. CASE r.rc = 0 /\ SendRequest(k, r, SizeReq, "RECV_SIZE_REPLY")
  BY <1>1, <1>2, <1>4, <1>6, <1>7, <1>10, SendHandled
<1> QED
  BY <1>5, <1>8, <1>9, <1>10

(* The entry that is removed for a mismatch only shortens the list.        *)
LEMMA MismatchHandled ==
  ASSUME TypeOK, slist[NServers + 1] = NoServer,
         Sound(segm, conn), NEW k \in Nat, k + 1 \in 1 .. Len(segm),
         NEW r, Unfinished(k, r), Mismatch(k, r)
  PROVE  Handled(k)
<1> DEFINE sl == [slist EXCEPT ![serv] = NoServer]
<1>1. sl \in Lists /\ sl[NServers + 1] = NoServer
  BY GetAssumption DEF TypeOK, Lists
<1>2. \/ Keep(k, r) /\ Goto("spin")
      \/ Retry(k, Segm(k, r), sl, Conns(r), "pass")
  BY DEF Mismatch
<1> HIDE DEF sl
<1>3. CASE Keep(k, r) /\ Goto("spin")
  BY <1>3, KeepHandled DEF Goto
<1>4. CASE Retry(k, Segm(k, r), sl, Conns(r), "pass")
  BY <1>1, <1>4, RetryHandled
<1> QED
  BY <1>2, <1>3, <1>4

LEMMA SizingHandled ==
  ASSUME IInv, pc = "pass", NEW k \in 0 .. Len(segm) - 1, IsNext(k), Sizing(k)
  PROVE  Handled(k)
<1> DEFINE r == cgym_recv_size_reply(segm[k + 1], conn[segm[k + 1].fd])
           len == Bytes(k + 1)
           req == GetReq(Start(k), Stop(k))
<1>1. TypeOK /\ slist[NServers + 1] = NoServer /\ Sound(segm, conn)
      /\ k \in Nat /\ slist \in Lists
  BY NowSound DEF IInv, Running, TypeOK, Lists
<1>2. /\ k + 1 \in 1 .. Len(segm)
      /\ segm[k + 1] \in Segment /\ ~Done(segm[k + 1])
      /\ conn[segm[k + 1].fd] \in Conn /\ conn[segm[k + 1].fd].st # "free"
      /\ PosOK(segm[k + 1], len) /\ len \in Nat \ {0}
      /\ Start(k) \in Nat /\ Stop(k) \in Nat
  BY FoundType
<1>3. segm[k + 1].state \in {"RECV_SIZE_REPLY", "RECV_SIZE_DATA"}
  BY DEF Sizing
<1>4. /\ r \in Result /\ SameSock(r, segm[k + 1], conn[segm[k + 1].fd])
      /\ r.segm.status = segm[k + 1].status /\ PosOK(r.segm, len)
      /\ r.rc = 0 => r.segm.state = "CONNECTED"
  BY <1>2, <1>3, SizeReplyType
<1>5. \/ r.rc = 1 /\ Keep(k, r) /\ Goto("pass")
      \/ r.rc > 1 /\ Retry(k, Segm(k, r), slist, Conns(r), "pass")
      \/ r.rc = 0 /\ SendRequest(k, r, req, "RECV_GET_REPLY")
      \/ r.rc = 0 /\ Mismatch(k, r)
  BY DEF Sizing
<1>6. req \in Requests
  BY <1>2 DEF GetReq, Requests
<1> HIDE DEF r, req
<1>7. Unfinished(k, r)
  BY <1>2, <1>4 DEF Unfinished, SameSock, Done
<1>8. CASE Keep(k, r) /\ Goto("pass")
  BY <1>1, <1>2, <1>7, <1>8, KeepHandled DEF Goto
<1>9. CASE Retry(k, Segm(k, r), slist, Conns(r), "pass")
  BY <1>1, <1>2, <1>7, <1>9, RetryHandled
<1>10. CASE r.rc = 0 /\ SendRequest(k, r, req, "RECV_GET_REPLY")
  BY <1>1, <1>2, <1>4, <1>6, <1>7, <1>10, SendHandled
<1>11. CASE Mismatch(k, r)
  BY <1>1, <1>2, <1>7, <1>11, MismatchHandled
<1> QED
  BY <1>5, <1>8, <1>9, <1>10, <1>11

LEMMA ClosedHandled ==
  ASSUME TypeOK, slist[NServers + 1] = NoServer,
         Sound(segm, conn), NEW k \in Nat, k + 1 \in 1 .. Len(segm),
         NEW r \in Result, r.segm.fd = segm[k + 1].fd,
         r.segm.status = "DONE", r.segm.pos <= Len(r.segm.buf),
         Len(r.segm.buf) = Bytes(k + 1) + 1,
         Keep(k, Closed(r)), Goto("pass")
  PROVE  Handled(k)
<1> DEFINE q == To(r, "IDLE")
           w == OnConn(q, FreeConn)
           l == k + 1
           t == w.segm
           c == w.conn
<1>1. "IDLE" \in SockStates
  BY DEF SockStates
<1>2. /\ q \in Result /\ q.segm.fd = r.segm.fd /\ q.segm.state = "IDLE"
      /\ q.segm.status = "DONE" /\ q.segm.buf = r.segm.buf /\ q.segm.pos = r.segm.pos
  BY <1>1, ToType
<1> HIDE DEF q
<1>3. NoReq \in Requests
  BY DEF NoReq, Requests
<1>4. FreeConn \in Conn
  BY <1>3, EmptySeq DEF FreeConn, Conn
<1>5. w \in Result /\ w.segm = q.segm
  BY <1>2, <1>4, OnConnType
<1>6. Keep(k, w)
  BY DEF Closed, q
<1> HIDE DEF w
<1>7. /\ t \in Segment /\ c \in Conn /\ t.fd = segm[l].fd
      /\ Done(t) /\ t.state = "IDLE" /\ Len(t.buf) = Bytes(l) + 1
      /\ t.pos <= Len(t.buf) /\ l \in 1 .. Len(segm)
  BY <1>2, <1>5 DEF Result, Done
<1> HIDE DEF l, t, c
<1>8. /\ t \in Segment /\ c \in Conn /\ l \in 1 .. Len(segm)
      /\ t.fd = segm[l].fd /\ PosOK(t, Bytes(l))
      /\ t.status = "DONE" => t.state = "IDLE" /\ Len(t.buf) = Bytes(l) + 1
      /\ t.status # "DONE" => c.st # "free"
  BY <1>7 DEF PosOK, Done
<1>9. /\ Sound([segm EXCEPT ![l] = t], [conn EXCEPT ![t.fd] = c])
      /\ Len([segm EXCEPT ![l] = t]) = Len(segm)
      /\ \A j \in 1 .. Len(segm) :
           [segm EXCEPT ![l] = t][j] = IF j = l THEN t ELSE segm[j]
  BY <1>8, Replace, SMTT(30)
<1>10. segm' = [segm EXCEPT ![l] = t] /\ conn' = [conn EXCEPT ![t.fd] = c]
       /\ UNCHANGED <<slist, serv>> /\ faults' = faults
  BY <1>6 DEF Keep, Segm, Conns, NoFault, l, t, c
<1> QED
  BY <1>9, <1>10 DEF Handled, Goto, TypeOK, Lists, l

LEMMA GettingHandled ==
  ASSUME IInv, pc = "pass", NEW k \in 0 .. Len(segm) - 1, IsNext(k), Getting(k)
  PROVE  Handled(k)
<1> DEFINE len == Bytes(k + 1)
           r == cgym_recv_get_reply(segm[k + 1], conn[segm[k + 1].fd], len)
<1>1. TypeOK /\ slist[NServers + 1] = NoServer /\ Sound(segm, conn)
      /\ k \in Nat /\ slist \in Lists
  BY NowSound DEF IInv, Running, TypeOK, Lists
<1>2. /\ k + 1 \in 1 .. Len(segm)
      /\ segm[k + 1] \in Segment /\ ~Done(segm[k + 1])
      /\ conn[segm[k + 1].fd] \in Conn /\ conn[segm[k + 1].fd].st # "free"
      /\ PosOK(segm[k + 1], len) /\ len \in Nat \ {0}
      /\ len = Stop(k) - Start(k)
  BY FoundType
<1>3. segm[k + 1].state \in {"RECV_GET_REPLY", "RECV_GET_DATA"}
  BY DEF Getting
<1>4. \/ r.rc = 1 /\ Keep(k, r) /\ Goto("pass")
      \/ r.rc > 1 /\ Retry(k, Segm(k, r), slist, Conns(r), "pass")
      \/ r.rc = 0 /\ Keep(k, Closed(r)) /\ Goto("pass")
  BY <1>2 DEF Getting
<1> HIDE DEF len
<1>5. /\ r \in Result /\ SameSock(r, segm[k + 1], conn[segm[k + 1].fd])
      /\ PosOK(r.segm, len)
      /\ r.segm.status = "DONE" <=> r.rc = 0
      /\ r.rc = 0 => Len(r.segm.buf) = len + 1
  BY <1>2, <1>3, GetReplyType DEF Done
<1> HIDE DEF r
<1>6. r.rc # 0 => Unfinished(k, r)
  BY <1>2, <1>5 DEF Unfinished, SameSock, Done, len
<1>7. CASE r.rc = 1 /\ Keep(k, r) /\ Goto("pass")
  BY <1>1, <1>2, <1>6, <1>7, KeepHandled DEF Goto
<1>8. CASE r.rc > 1 /\ Retry(k, Segm(k, r), slist, Conns(r), "pass")
  BY <1>1, <1>2, <1>6, <1>8, RetryHandled
<1>9. CASE r.rc = 0 /\ Keep(k, Closed(r)) /\ Goto("pass")
  BY <1>1, <1>2, <1>5, <1>9, ClosedHandled DEF SameSock, PosOK, len
<1> QED
  BY <1>4, <1>7, <1>8, <1>9

-----------------------------------------------------------------------------
(* How the parts of IInv are put together again after a step.              *)
LEMMA PlanKeeps ==
  ASSUME e' = e
  PROVE  NrSegments' = NrSegments /\ (Planned' <=> Planned)
  BY DEF NrSegments, Planned, Divides

LEMMA StoppedKeeps ==
  ASSUME TypeOK', slist'[NServers + 1] = NoServer, pc' \in Stopped
  PROVE  IInv'
  BY DEF IInv, Stage, Looping, FdsWaited, Running, Stopped

(* In the first part there is one segment and no segment is finished.      *)
LEMMA PreparingKeeps ==
  ASSUME TypeOK', slist'[NServers + 1] = NoServer,
         NEW t \in Segment, segm' = <<t>>, conn' \in [Fds -> Conn],
         conn'[t.fd].st # "free", PosOK(t, 0), t.status # "DONE",
         \/ pc' = "handshake" /\ t.state = "RECV_HANDSHAKE"
         \/ pc' = "sizeStatus" /\ t.state = "RECV_SIZE_REPLY"
         \/ pc' = "sizeLine" /\ t.state = "RECV_SIZE_DATA"
         \/ pc' = "plan" /\ t.state = "CONNECTED" /\ e' \in Versions
  PROVE  IInv'
<1>1. Len(segm') = 1 /\ segm'[1] = t
  OBVIOUS
<1>2. FdsDistinct'
  BY <1>1 DEF FdsDistinct
<1>3. \A k \in 1 .. Len(segm') : k = 1
  BY <1>1
<1>4. t.state # "RECV_GET_DATA"
  OBVIOUS
<1>5. (SegmOK(1))'
  BY <1>1, <1>4 DEF SegmOK, PosOK, Done
<1>6. (\A k \in 1 .. Len(segm) : SegmOK(k))'
  BY <1>3, <1>5
<1>7. Stage'
  BY <1>1 DEF Stage, Looping, Only, Done
<1> QED
  BY <1>2, <1>6, <1>7 DEF IInv, FdsWaited

(* Afterwards the file is known.                                           *)
LEMMA RunningKeeps ==
  ASSUME TypeOK', slist'[NServers + 1] = NoServer, e' = e, Sound(segm', conn'),
         Stage', FdsWaited', pc' # "connect"
  PROVE  IInv'
  BY NextSound DEF IInv

LEMMA LoopingKeeps ==
  ASSUME TypeOK', slist'[NServers + 1] = NoServer, e' = e, Sound(segm', conn'),
         Planned, Len(segm') = NrSegments,
         pc' \in Looping, pc' = "assemble" => AllDone', FdsWaited'
  PROVE  IInv'
<1>1. NrSegments' = NrSegments /\ Planned'
  BY PlanKeeps
<1>2. Stage'
  BY <1>1 DEF Stage, Looping
<1> QED
  BY <1>2, RunningKeeps DEF Looping

LEMMA PosOKAny ==
  ASSUME NEW s, NEW m, NEW n, PosOK(s, m), s.state # "RECV_GET_DATA"
  PROVE  PosOK(s, n)
  BY DEF PosOK

-----------------------------------------------------------------------------
LEMMA InitInv ==
  ASSUME Init
  PROVE  IInv
<1>1. slist \in Lists /\ slist[NServers + 1] = NoServer
  BY GetAssumption DEF Init, Lists, Servers, NoServer
<1>2. FreeConn \in Conn
  <2>1. NoReq \in Requests
    BY DEF NoReq, Requests
  <2> QED
    BY <2>1, EmptySeq DEF FreeConn, Conn
<1>3. segm = <<>> /\ segm \in Seq(Segment) /\ Len(segm) = 0 /\ out \in Seq(Unit)
  BY EmptySeq DEF Init
<1>4. TypeOK
  BY <1>1, <1>2, <1>3, GetAssumption DEF Init, TypeOK, Lists, Running
<1>5. FdsDistinct /\ \A k \in 1 .. Len(segm) : SegmOK(k)
  BY <1>3 DEF FdsDistinct
<1>6. Stage /\ FdsWaited
  BY DEF Init, Stage, Looping, FdsWaited
<1> QED
  BY <1>1, <1>3, <1>4, <1>5, <1>6 DEF IInv

LEMMA ConnectKeeps ==
  ASSUME IInv, Connect
  PROVE  IInv'
<1> DEFINE t == NewSegm(1, "RECV_HANDSHAKE")
           c == NewConn(slist[1], "up")
<1>1. /\ slist'[NServers + 1] = NoServer
      /\ slist[1] \in Servers \cup {NoServer} /\ 1 \in Fds
  BY GetAssumption DEF IInv, TypeOK, Connect, Fds
<1>2. c \in Conn /\ c.st # "free"
  BY <1>1, NewConnType DEF AllModes
<1>3. /\ t \in Segment /\ t.fd = 1 /\ t.state = "RECV_HANDSHAKE"
      /\ t.status # "DONE" /\ PosOK(t, 0)
  BY <1>1, EmptySeq DEF NewSegm, Segment, SockStates, Statuses, PosOK
<1>4. CASE /\ segm' = <<t>> /\ conn' = [conn EXCEPT ![1] = c]
           /\ NoFault /\ Goto("handshake")
  <2> HIDE DEF t, c
  <2>1. conn' \in [Fds -> Conn] /\ conn'[t.fd].st # "free"
    BY <1>1, <1>2, <1>3, <1>4 DEF IInv, TypeOK
  <2>2. segm' \in Seq(Segment)
    BY <1>3, <1>4
  <2>3. TypeOK'
    BY <1>4, <2>1, <2>2 DEF IInv, TypeOK, Connect, mirror, NoFault, Goto, Running
  <2> QED
    BY <1>1, <1>3, <1>4, <2>1, <2>3, PreparingKeeps DEF Goto
<1>5. CASE Fault /\ (Exit(1) \/ Exit(2)) /\ UNCHANGED <<segm, conn>>
  <2>1. TypeOK' /\ pc' \in Stopped
    BY <1>5, GetAssumption DEF IInv, TypeOK, Connect, mirror, Fault, Exit, Stopped
  <2> QED
    BY <1>1, <2>1, StoppedKeeps
<1> QED
  BY <1>4, <1>5 DEF Connect

LEMMA FirstFound ==
  ASSUME IInv, pc \in {"handshake", "sizeStatus", "sizeLine", "plan"}
  PROVE  /\ Len(segm) = 1 /\ segm[1] \in Segment /\ segm[1].fd \in Fds
         /\ PosOK(segm[1], 0) /\ segm[1].status # "DONE"
         /\ segm[1].state = CASE pc = "handshake"  -> "RECV_HANDSHAKE"
                              [] pc = "sizeStatus" -> "RECV_SIZE_REPLY"
                              [] pc = "sizeLine"   -> "RECV_SIZE_DATA"
                              [] pc = "plan"       -> "CONNECTED"
         /\ conn \in [Fds -> Conn] /\ first \in Conn /\ first.st # "free"
<1>1. Len(segm) = 1 /\ segm[1].status # "DONE"
      /\ segm[1].state = CASE pc = "handshake"  -> "RECV_HANDSHAKE"
                           [] pc = "sizeStatus" -> "RECV_SIZE_REPLY"
                           [] pc = "sizeLine"   -> "RECV_SIZE_DATA"
                           [] pc = "plan"       -> "CONNECTED"
  BY DEF IInv, Stage, Only, Done
<1>2. segm \in Seq(Segment) /\ conn \in [Fds -> Conn]
  BY DEF IInv, TypeOK
<1>3. segm[1] \in Segment
  BY <1>1, <1>2
<1>4. segm[1].fd \in Fds
  BY <1>3 DEF Segment
<1>5. SegmOK(1)
  BY <1>1 DEF IInv, Running
<1>6. PosOK(segm[1], 0)
  BY <1>1, <1>5, PosOKAny DEF SegmOK
<1> QED
  BY <1>1, <1>2, <1>3, <1>4, <1>5, <1>6 DEF SegmOK, Done, first

LEMMA FirstAfter ==
  ASSUME conn \in [Fds -> Conn], NEW r \in Result, First(r)
  PROVE  /\ r.segm \in Segment /\ segm' = <<r.segm>> /\ segm' \in Seq(Segment)
         /\ conn' \in [Fds -> Conn] /\ conn'[r.segm.fd] = r.conn
<1>1. r.segm \in Segment /\ r.conn \in Conn
  BY DEF Result
<1>2. r.segm.fd \in Fds
  BY <1>1 DEF Segment
<1> QED
  BY <1>1, <1>2 DEF First

LEMMA HandshakeKeeps ==
  ASSUME IInv, Handshake
  PROVE  IInv'
<1> DEFINE r == cgym_sock_connect(segm[1], first)
           q == To(r, "RECV_SIZE_REPLY")
           w == OnConn(q, Sent(r.conn, SizeReq))
<1>1. /\ segm[1] \in Segment /\ first \in Conn /\ first.st # "free"
      /\ PosOK(segm[1], 0) /\ segm[1].status # "DONE"
      /\ segm[1].state = "RECV_HANDSHAKE" /\ conn \in [Fds -> Conn]
  BY FirstFound DEF Handshake
<1>2. slist'[NServers + 1] = NoServer
  BY DEF IInv, Handshake
<1>3. /\ r \in Result /\ SameSock(r, segm[1], first)
      /\ r.segm.status # "DONE" /\ PosOK(r.segm, 0)
      /\ r.rc = 0 => r.segm.state = "CONNECTED"
  BY <1>1, ConnectType
<1>4. \/ First(r) /\ (Exit(2) \/ Exit(3) \/ Killed)
      \/ r.rc = 0 /\ First(w) /\ Goto("sizeStatus")
  BY DEF Handshake
<1> HIDE DEF r
<1>5. CASE First(r) /\ (Exit(2) \/ Exit(3) \/ Killed)
  <2>1. segm' \in Seq(Segment) /\ conn' \in [Fds -> Conn]
    BY <1>1, <1>3, <1>5, FirstAfter
  <2>2. TypeOK' /\ pc' \in Stopped
    BY <1>5, <2>1 DEF IInv, TypeOK, Handshake, mirror, Exit, Killed, Stopped
  <2> QED
    BY <1>2, <2>2, StoppedKeeps
<1>6. CASE r.rc = 0 /\ First(w) /\ Goto("sizeStatus")
  <2>1. "RECV_SIZE_REPLY" \in SockStates /\ SizeReq \in Requests /\ r.conn \in Conn
    BY <1>3 DEF SockStates, SizeReq, Requests, Result
  <2>2. /\ q \in Result /\ q.segm.state = "RECV_SIZE_REPLY"
        /\ q.segm.status # "DONE" /\ q.segm.pos = 0 /\ q.segm.pos <= Len(q.segm.buf)
    BY <1>3, <1>6, <2>1, ToType DEF PosOK
  <2> HIDE DEF q
  <2>7. Sent(r.conn, SizeReq) \in Conn /\ Sent(r.conn, SizeReq).st # "free"
    BY <1>1, <1>3, <2>1, SentType DEF SameSock
  <2>3. w \in Result /\ w.segm = q.segm /\ w.conn.st # "free"
    BY <2>2, <2>7, OnConnType
  <2> HIDE DEF w
  <2>4. /\ w.segm \in Segment /\ segm' = <<w.segm>> /\ segm' \in Seq(Segment)
        /\ conn' \in [Fds -> Conn] /\ conn'[w.segm.fd] = w.conn
    BY <1>1, <1>6, <2>3, FirstAfter
  <2>5. PosOK(w.segm, 0)
    BY <2>2, <2>3 DEF PosOK
  <2>6. TypeOK'
    BY <1>6, <2>4 DEF IInv, TypeOK, Handshake, mirror, Goto, Running
  <2> QED
    BY <1>2, <1>6, <2>2, <2>3, <2>4, <2>5, <2>6, PreparingKeeps DEF Goto
<1> QED
  BY <1>4, <1>5, <1>6

LEMMA ReadSizeStatusKeeps ==
  ASSUME IInv, ReadSizeStatus
  PROVE  IInv'
<1> DEFINE r == SizeStatus(segm[1], first)
<1>1. /\ segm[1] \in Segment /\ first \in Conn /\ first.st # "free"
      /\ PosOK(segm[1], 0) /\ segm[1].status # "DONE"
      /\ segm[1].state = "RECV_SIZE_REPLY" /\ conn \in [Fds -> Conn]
  BY FirstFound DEF ReadSizeStatus
<1>2. slist'[NServers + 1] = NoServer
  BY DEF IInv, ReadSizeStatus
<1>3. /\ r \in Result /\ SameSock(r, segm[1], first) /\ r.segm.status # "DONE"
      /\ r.rc = 0 => r.segm.state = "RECV_SIZE_DATA" /\ PosOK(r.segm, 0)
  BY <1>1, SizeStatusType
<1>4. First(r) /\ IF r.rc = 0 THEN Goto("sizeLine") ELSE Exit(4)
  BY DEF ReadSizeStatus
<1> HIDE DEF r
<1>5. /\ r.segm \in Segment /\ segm' = <<r.segm>> /\ segm' \in Seq(Segment)
      /\ conn' \in [Fds -> Conn] /\ conn'[r.segm.fd] = r.conn
  BY <1>1, <1>3, <1>4, FirstAfter
<1>6. TypeOK'
  BY <1>4, <1>5 DEF IInv, TypeOK, ReadSizeStatus, mirror, Goto, Exit, Running, Stopped
<1>7. CASE r.rc = 0
  BY <1>1, <1>2, <1>3, <1>4, <1>5, <1>6, <1>7, PreparingKeeps DEF Goto, SameSock
<1>8. CASE r.rc # 0
  BY <1>2, <1>4, <1>6, <1>8, StoppedKeeps DEF Exit, Stopped
<1> QED
  BY <1>7, <1>8

LEMMA ReadSizeLineKeeps ==
  ASSUME IInv, ReadSizeLine
  PROVE  IInv'
<1> DEFINE r == SizeLine(segm[1], first)
           v == LineEntry(segm[1], first)
<1>1. /\ segm[1] \in Segment /\ first \in Conn /\ first.st # "free"
      /\ PosOK(segm[1], 0) /\ segm[1].status # "DONE"
      /\ segm[1].state = "RECV_SIZE_DATA" /\ conn \in [Fds -> Conn]
  BY FirstFound DEF ReadSizeLine
<1>2. slist'[NServers + 1] = NoServer
  BY DEF IInv, ReadSizeLine
<1>3. /\ r \in Result /\ SameSock(r, segm[1], first)
      /\ r.segm.status # "DONE" /\ PosOK(r.segm, 0)
      /\ r.rc = 0 => r.segm.state = "CONNECTED" /\ v \in Versions
  BY <1>1, SizeLineType
<1>4. /\ First(r)
      /\ \/ r.rc = 0 /\ e' = v /\ Goto("plan")
         \/ r.rc # 0 /\ e' = e /\ Exit(4)
  BY DEF ReadSizeLine
<1> HIDE DEF r, v
<1>5. /\ r.segm \in Segment /\ segm' = <<r.segm>> /\ segm' \in Seq(Segment)
      /\ conn' \in [Fds -> Conn] /\ conn'[r.segm.fd] = r.conn
  BY <1>1, <1>3, <1>4, FirstAfter
<1>6. TypeOK'
  BY <1>3, <1>4, <1>5 DEF IInv, TypeOK, ReadSizeLine, mirror, Goto, Exit, Running, Stopped
<1>7. CASE r.rc = 0
  BY <1>1, <1>2, <1>3, <1>4, <1>5, <1>6, <1>7, PreparingKeeps DEF Goto, SameSock
<1>8. CASE r.rc # 0
  BY <1>2, <1>4, <1>6, <1>8, StoppedKeeps DEF Exit, Stopped
<1> QED
  BY <1>7, <1>8

-----------------------------------------------------------------------------
LEMMA DivideByZeroKeeps ==
  ASSUME IInv, DivideByZero
  PROVE  IInv'
<1>1. TypeOK' /\ slist'[NServers + 1] = NoServer /\ pc' \in Stopped
  BY DEF IInv, TypeOK, DivideByZero, mirror, Killed, Stopped
<1> QED
  BY <1>1, StoppedKeeps

(* The first segment has its request, or a replacement that it ignores.    *)
LEMMA PlannedKeeps ==
  ASSUME TypeOK', slist'[NServers + 1] = NoServer, e' = e, Sound(segm', conn'),
         Planned, pc' = "init", i' = Len(segm'), i' <= NrSegments,
         \A k \in 1 .. Len(segm') : segm'[k].status # "DONE"
  PROVE  IInv'
<1>1. NrSegments' = NrSegments /\ Planned'
  BY PlanKeeps
<1>2. Stage'
  BY <1>1 DEF Stage, Looping, Done
<1> QED
  BY <1>2, RunningKeeps DEF FdsWaited

LEMMA InitFirstKeeps ==
  ASSUME IInv, InitFirst
  PROVE  IInv'
<1> DEFINE s == segm[1]
           p == Wrap(slist, 2)
           t == [s EXCEPT !.state = "RECV_GET_REPLY"]
           c == IF first.fin THEN first
                ELSE [first EXCEPT !.req = GetReq(Start(0), Stop(0))]
<1>1. /\ Len(segm) = 1 /\ s \in Segment /\ s.fd \in Fds
      /\ PosOK(s, 0) /\ s.status # "DONE" /\ s.state = "CONNECTED"
      /\ conn \in [Fds -> Conn] /\ first \in Conn /\ first.st # "free"
  BY FirstFound DEF InitFirst
<1>2. Planned /\ NrSegments \in Nat \ {0} /\ 1 \in 1 .. NrSegments
  <2>1. Planned
    BY DEF IInv, Stage, InitFirst, Planned
  <2> QED
    BY <2>1, PlanFits DEF Planned
<1>3. Start(0) \in Nat /\ Stop(0) \in Nat
  BY <1>2, BytesType
<1>4. /\ slist \in Lists /\ slist[NServers + 1] = NoServer /\ slist' = slist
      /\ faults \in 0 .. MaxFaults /\ e' = e /\ i' = 1
      /\ 2 \in 1 .. NServers + 1 /\ 1 \in 1 .. 1
      /\ segm \in Seq(Segment) /\ out' = out /\ fdset' = fdset
      /\ cur' = cur /\ whole' = whole /\ edits' = edits /\ TypeOK
  BY GetAssumption DEF IInv, TypeOK, InitFirst, mirror, Lists
<1>5. p \in 1 .. NServers + 1
  <2>1. p \in 1 .. NServers
    BY <1>4, WrapType
  <2> HIDE DEF p
  <2> QED
    BY <2>1, GetAssumption
<1>6. Sound(segm, conn)
  BY NowSound DEF InitFirst, Running
<1>7. \/ /\ segm' = <<t>> /\ conn' = [conn EXCEPT ![s.fd] = c]
         /\ serv' = 2 /\ NoFault /\ Goto("init")
      \/ segm' = segm /\ serv' = 2 /\ conn' = conn /\ NoFault /\ Killed
      \/ segm' = segm /\ serv' = p /\ SetupFails(slist, p, conn)
      \/ /\ segm' = segm /\ serv' = p /\ NoFault /\ Goto("init")
         /\ \E fd \in Fds, mode \in ConnectModes : Dialled(slist, p, conn, fd, mode)
      \/ Fault /\ Exit(2) /\ serv' = 2 /\ segm' = segm /\ conn' = conn
  <2>1. first = conn[s.fd]
    BY DEF first
  <2>2. [conn EXCEPT ![s.fd] = IF first.fin THEN @
                               ELSE [first EXCEPT !.req = GetReq(Start(0), Stop(0))]]
          = [conn EXCEPT ![s.fd] = c]
    BY <1>1, <2>1
  <2> QED
    BY <2>2 DEF InitFirst
<1> HIDE DEF p
<1>8. CASE /\ segm' = <<t>> /\ conn' = [conn EXCEPT ![s.fd] = c]
           /\ serv' = 2 /\ NoFault /\ Goto("init")
  <2>1. GetReq(Start(0), Stop(0)) \in Requests
    BY <1>3 DEF GetReq, Requests
  <2>2. c \in Conn /\ c.st # "free"
    BY <1>1, <2>1 DEF Conn
  <2>3. /\ t \in Segment /\ t.fd = s.fd /\ t.status # "DONE"
        /\ PosOK(t, Bytes(1))
    BY <1>1 DEF Segment, SockStates, PosOK
  <2>4. segm' = [segm EXCEPT ![1] = t]
    BY <1>1, <1>4, <1>8
  <2>5. conn' = [conn EXCEPT ![t.fd] = c]
    BY <1>8, <2>3
  <2> HIDE DEF t, c
  <2>8. /\ Sound([segm EXCEPT ![1] = t], [conn EXCEPT ![t.fd] = c])
        /\ Len([segm EXCEPT ![1] = t]) = Len(segm)
    <3>1. t.fd = segm[1].fd /\ 1 \in 1 .. Len(segm)
      BY <1>1, <1>4, <2>3
    <3> HIDE DEF s
    <3> QED
      BY <1>6, <2>2, <2>3, <3>1, Replace
  <2>9. Len(segm) = 1
    BY <1>1
  <2>10. segm'[1] = t
    BY <1>8
  <2>6. /\ Sound(segm', conn') /\ Len(segm') = 1 /\ segm'[1] = t
    BY <2>4, <2>5, <2>8, <2>9, <2>10
  <2>7. TypeOK'
    BY <1>4, <1>8, <2>6 DEF Sound, TypeOK, NoFault, Goto, Running
  <2> QED
    BY <1>2, <1>4, <1>8, <2>3, <2>6, <2>7, PlannedKeeps DEF Goto
<1>9. CASE segm' = segm /\ serv' = 2 /\ conn' = conn /\ NoFault /\ Killed
  <2>1. TypeOK' /\ pc' \in Stopped
    BY <1>4, <1>9 DEF TypeOK, NoFault, Killed, Stopped
  <2> QED
    BY <1>4, <2>1, StoppedKeeps
<1>10. CASE segm' = segm /\ serv' = p /\ SetupFails(slist, p, conn)
  <2>1. conn' = conn /\ pc' \in Stopped /\ ret' \in 0 .. 5 /\ faults' \in 0 .. MaxFaults
    BY <1>4, <1>10, GetAssumption
       DEF TypeOK, SetupFails, NoFault, Fault, Goto, Exit, Stopped
  <2>2. TypeOK'
    BY <1>4, <1>5, <1>10, <2>1 DEF TypeOK
  <2> QED
    BY <1>4, <2>1, <2>2, StoppedKeeps
<1>11. CASE /\ segm' = segm /\ serv' = p /\ NoFault /\ Goto("init")
            /\ \E fd \in Fds, mode \in ConnectModes : Dialled(slist, p, conn, fd, mode)
  <2>1. Sound(segm', conn')
    BY <1>4, <1>5, <1>6, <1>11, DialledSound
  <2>2. TypeOK'
    BY <1>4, <1>5, <1>11, <2>1 DEF Sound, TypeOK, NoFault, Goto, Running
  <2>3. \A k \in 1 .. Len(segm') : segm'[k].status # "DONE"
    <3>1. segm' = segm /\ Len(segm) = 1 /\ segm[1].status # "DONE"
      BY <1>1, <1>11
    <3> HIDE DEF s, t, c
    <3>2. Len(segm') = 1 /\ segm'[1].status # "DONE"
      BY <3>1
    <3>3. \A k \in 1 .. 1 : k = 1
      OBVIOUS
    <3> QED
      BY <3>2, <3>3
  <2>4. i' = Len(segm') /\ i' <= NrSegments
    BY <1>1, <1>2, <1>4, <1>11
  <2>5. pc' = "init"
    BY <1>11 DEF Goto
  <2> HIDE DEF s
  <2> QED
    BY <1>2, <1>4, <2>1, <2>2, <2>3, <2>4, <2>5, PlannedKeeps
<1>12. CASE Fault /\ Exit(2) /\ serv' = 2 /\ segm' = segm /\ conn' = conn
  <2>1. TypeOK' /\ pc' \in Stopped
    BY <1>4, <1>12, GetAssumption DEF TypeOK, Fault, Exit, Stopped
  <2> QED
    BY <1>4, <2>1, StoppedKeeps
<1> QED
  BY <1>7, <1>8, <1>9, <1>10, <1>11, <1>12

(* A segment is added with a connection at a descriptor that was free, and *)
(* that no other segment has.                                              *)
LEMMA AppendSound ==
  ASSUME NEW sl \in Lists, NEW p \in 1 .. NServers + 1, Sound(segm, conn),
         \A k \in 1 .. Len(segm) : ~Done(segm[k]),
         NEW fd \in Fds, NEW mode \in ConnectModes, Dialled(sl, p, conn, fd, mode),
         segm' = Append(segm, NewSegm(fd, DialledState(mode)))
  PROVE  /\ Sound(segm', conn') /\ Len(segm') = Len(segm) + 1
         /\ \A k \in 1 .. Len(segm') : segm'[k].status # "DONE"
<1> DEFINE t == NewSegm(fd, DialledState(mode))
           l == Len(segm) + 1
<1>1. segm \in Seq(Segment) /\ conn \in [Fds -> Conn] /\ Len(segm) \in Nat
  BY DEF Sound
<1>2. /\ conn' \in [Fds -> Conn]
      /\ conn[fd].st = "free" /\ conn'[fd].st # "free"
      /\ \A f \in Fds \ {fd} : conn'[f] = conn[f]
  BY <1>1, DialledType
<1>3. DialledState(mode) \in {"CONNECTING", "RECV_HANDSHAKE", "CONNECTED"}
  BY GetAssumption DEF DialledState, AllModes
<1>4. /\ t \in Segment /\ t.fd = fd /\ t.status # "DONE"
      /\ \A n : PosOK(t, n)
  BY <1>3, EmptySeq, SockAssumption DEF NewSegm, Segment, SockStates, Statuses, PosOK
<1> HIDE DEF t
<1>5. /\ segm' \in Seq(Segment) /\ Len(segm') = l
      /\ segm'[l] = t /\ \A k \in 1 .. Len(segm) : segm'[k] = segm[k]
  BY <1>1, <1>4 DEF t
<1>6. \A k \in 1 .. l : k = l \/ k \in 1 .. Len(segm)
  BY <1>1
<1>7. ASSUME NEW k \in 1 .. Len(segm)
      PROVE  /\ segm[k].fd \in Fds /\ segm[k].fd # fd
             /\ segm[k].status # "DONE" /\ conn'[segm[k].fd].st # "free"
             /\ PosOK(segm[k], Bytes(k))
  <2>1. segm[k] \in Segment
    BY <1>1
  <2>2. segm[k].fd \in Fds
    BY <2>1 DEF Segment
  <2>3. /\ conn[segm[k].fd].st # "free" /\ PosOK(segm[k], Bytes(k))
        /\ segm[k].status # "DONE"
    BY DEF Sound, Done
  <2> QED
    BY <1>2, <2>2, <2>3
<1>8. ASSUME NEW k \in 1 .. Len(segm')
      PROVE  /\ PosOK(segm'[k], Bytes(k)) /\ segm'[k].status # "DONE"
             /\ conn'[segm'[k].fd].st # "free"
  <2>1. CASE k = l
    BY <1>2, <1>4, <1>5, <2>1
  <2>2. CASE k \in 1 .. Len(segm)
    BY <1>5, <1>7, <2>2
  <2> QED
    BY <1>5, <1>6, <2>1, <2>2
<1>9. ASSUME NEW j \in 1 .. Len(segm'), NEW k \in 1 .. Len(segm'),
             segm'[j].fd = segm'[k].fd
      PROVE  j = k
  <2>1. \A j1, k1 \in 1 .. Len(segm) : segm[j1].fd = segm[k1].fd => j1 = k1
    BY DEF Sound
  <2> QED
    BY <1>4, <1>5, <1>6, <1>7, <1>9, <2>1
<1> QED
  BY <1>2, <1>5, <1>8, <1>9 DEF Sound, Done

LEMMA InitSegmentKeeps ==
  ASSUME IInv, InitSegment
  PROVE  IInv'
<1> DEFINE p == Wrap(slist, serv)
<1>1. /\ slist \in Lists /\ slist[NServers + 1] = NoServer /\ slist' = slist
      /\ serv \in 1 .. NServers + 1
      /\ faults \in 0 .. MaxFaults /\ e' = e /\ i' = i + 1 /\ i \in Nat
      /\ out' = out /\ fdset' = fdset
      /\ cur' = cur /\ whole' = whole /\ edits' = edits /\ TypeOK
  BY DEF IInv, TypeOK, InitSegment, mirror, Lists
<1>2. /\ Planned /\ i = Len(segm) /\ i < NrSegments
      /\ \A k \in 1 .. Len(segm) : ~Done(segm[k])
  BY DEF IInv, Stage, InitSegment
<1>3. Sound(segm, conn)
  BY NowSound DEF InitSegment, Running
<1>4. p \in 1 .. NServers + 1 /\ p + 1 \in 1 .. NServers + 1
  <2>1. p \in 1 .. NServers
    BY <1>1, WrapType
  <2> HIDE DEF p
  <2> QED
    BY <2>1, GetAssumption
<1>5. /\ serv' = p + 1
      /\ \/ SetupFails(slist, p, conn) /\ segm' = segm
         \/ \E fd \in Fds, mode \in ConnectModes :
              /\ Dialled(slist, p, conn, fd, mode)
              /\ segm' = Append(segm, NewSegm(fd, DialledState(mode)))
              /\ NoFault /\ Goto("init")
  BY DEF InitSegment
<1> HIDE DEF p
<1>6. CASE SetupFails(slist, p, conn) /\ segm' = segm
  <2>1. conn' = conn /\ pc' \in Stopped /\ ret' \in 0 .. 5 /\ faults' \in 0 .. MaxFaults
    BY <1>1, <1>6, GetAssumption
       DEF TypeOK, SetupFails, NoFault, Fault, Goto, Exit, Stopped
  <2>2. TypeOK'
    BY <1>1, <1>4, <1>5, <1>6, <2>1 DEF TypeOK
  <2> QED
    BY <1>1, <2>1, <2>2, StoppedKeeps
<1>7. ASSUME NEW fd \in Fds, NEW mode \in ConnectModes,
             Dialled(slist, p, conn, fd, mode),
             segm' = Append(segm, NewSegm(fd, DialledState(mode))),
             NoFault, Goto("init")
      PROVE  IInv'
  <2>1. /\ Sound(segm', conn') /\ Len(segm') = Len(segm) + 1
        /\ \A k \in 1 .. Len(segm') : segm'[k].status # "DONE"
    BY <1>1, <1>2, <1>3, <1>4, <1>7, AppendSound
  <2>2. NrSegments \in Nat
    BY <1>2, PlanFits DEF Planned
  <2>3. i' = Len(segm') /\ i' <= NrSegments
    BY <1>1, <1>2, <2>1, <2>2
  <2>4. i' \in Nat
    BY <1>1
  <2>5. TypeOK'
    BY <1>1, <1>4, <1>5, <1>7, <2>1, <2>4 DEF Sound, TypeOK, NoFault, Goto, Running
  <2> QED
    BY <1>1, <1>2, <1>7, <2>1, <2>3, <2>5, PlannedKeeps DEF Goto
<1> QED
  BY <1>5, <1>6, <1>7

-----------------------------------------------------------------------------
LEMMA InitDoneKeeps ==
  ASSUME IInv, InitDone
  PROVE  IInv'
<1>1. /\ Planned /\ i = Len(segm) /\ i <= NrSegments /\ i >= NrSegments
      /\ NrSegments \in Nat \ {0}
  <2>1. Planned /\ i = Len(segm) /\ i <= NrSegments /\ i >= NrSegments
    BY DEF IInv, Stage, InitDone
  <2> QED
    BY <2>1, PlanFits DEF Planned
<1>2. Sound(segm, conn) /\ segm' = segm /\ conn' = conn /\ e' = e
  BY NowSound DEF InitDone, Running
<1>3. TypeOK' /\ slist'[NServers + 1] = NoServer
  BY DEF IInv, TypeOK, InitDone, mirror, Goto, Running
<1>4. i \in Nat /\ Len(segm) = NrSegments
  BY <1>1 DEF IInv, TypeOK
<1>5. FdsWaited' /\ pc' \in Looping /\ pc' # "assemble"
  BY DEF FdsWaited, InitDone, Goto, Looping
<1> QED
  BY <1>1, <1>2, <1>3, <1>4, <1>5, LoopingKeeps

LEMMA LoopingFound ==
  ASSUME IInv, pc \in Looping
  PROVE  /\ Planned /\ Len(segm) = NrSegments /\ Sound(segm, conn)
         /\ NrSegments \in Nat \ {0}
         /\ slist \in Lists /\ slist[NServers + 1] = NoServer /\ TypeOK
<1>1. Planned /\ Len(segm) = NrSegments
  BY DEF IInv, Stage
<1>2. Sound(segm, conn)
  BY NowSound DEF Looping, Running
<1> QED
  BY <1>1, <1>2, PlanFits DEF IInv, TypeOK, Lists, Planned

LEMMA LoopKeeps ==
  ASSUME IInv, Loop
  PROVE  IInv'
<1>1. Planned /\ Len(segm) = NrSegments /\ Sound(segm, conn)
  BY LoopingFound DEF Loop, Looping
<1>2. Sound(segm', conn') /\ Len(segm') = NrSegments /\ e' = e /\ segm' = segm
  BY <1>1 DEF Loop
<1>3. TypeOK' /\ slist'[NServers + 1] = NoServer
  BY DEF IInv, TypeOK, Loop, mirror, Goto, Running
<1>4. FdsWaited' /\ pc' \in Looping
  BY DEF FdsWaited, Loop, Goto, Looping
<1>5. pc' = "assemble" => AllDone'
  BY <1>2 DEF Loop, Goto, AllDone
<1> QED
  BY <1>1, <1>2, <1>3, <1>4, <1>5, LoopingKeeps

LEMMA BuildSetsKeeps ==
  ASSUME IInv, BuildSets
  PROVE  IInv'
<1>1. /\ Planned /\ Len(segm) = NrSegments /\ Sound(segm, conn)
      /\ NrSegments \in Nat \ {0}
      /\ slist \in Lists /\ slist[NServers + 1] = NoServer /\ TypeOK
  BY LoopingFound DEF BuildSets, Looping
<1>2. /\ i \in Nat /\ i' = i + 1 /\ i + 1 \in 1 .. Len(segm) /\ e' = e
      /\ out' = out /\ cur' = cur /\ whole' = whole /\ edits' = edits
      /\ pc = "build"
  BY <1>1 DEF TypeOK, BuildSets, mirror
<1> DEFINE s == segm[i + 1]
<1>3. s \in Segment
  BY <1>1, <1>2 DEF Sound
<1>4. s.fd \in Fds
  BY <1>3 DEF Segment
<1>5. \/ /\ UNCHANGED <<segm, slist, serv, conn, faults>> /\ Goto("build")
         /\ \/ fdset' = fdset
            \/ ~Done(s) /\ s.state \in Waiting /\ fdset' = fdset \cup {s.fd}
      \/ Retry(i, segm, slist, conn, "build") /\ fdset' = fdset
      \/ UNCHANGED <<segm, slist, serv, conn, faults>> /\ Exit(2) /\ fdset' = fdset
  BY DEF BuildSets, Done
<1>6. FdsWaited
  BY DEF IInv
<1>7. CASE /\ UNCHANGED <<segm, slist, serv, conn, faults>> /\ Goto("build")
           /\ \/ fdset' = fdset
              \/ ~Done(s) /\ s.state \in Waiting /\ fdset' = fdset \cup {s.fd}
  <2>1. TypeOK'
    BY <1>1, <1>2, <1>4, <1>7 DEF TypeOK, Goto, Running
  <2>2. FdsWaited'
    BY <1>2, <1>6, <1>7 DEF FdsWaited, Done
  <2> QED
    BY <1>1, <1>2, <1>7, <2>1, <2>2, LoopingKeeps DEF Goto, Looping
<1>8. CASE Retry(i, segm, slist, conn, "build") /\ fdset' = fdset
  <2>1. /\ segm' = segm /\ slist' = slist /\ serv' \in 1 .. NServers + 1
        /\ Sound(segm, conn') /\ Outcome("build")
    <3>1. faults \in 0 .. MaxFaults /\ serv \in 1 .. NServers + 1
      BY <1>1 DEF TypeOK
    <3> QED
      BY <1>1, <1>8, <3>1, RetryType
  <2>2. TypeOK'
    BY <1>1, <1>2, <1>8, <2>1 DEF TypeOK, Sound, Outcome, Running, Stopped
  <2>3. CASE pc' \in Stopped
    BY <1>1, <2>1, <2>2, <2>3, StoppedKeeps
  <2>4. CASE pc' = "build"
    <3>1. FdsWaited'
      BY <1>2, <1>6, <1>8, <2>1, <2>4 DEF FdsWaited, Done
    <3> QED
      BY <1>1, <1>2, <2>1, <2>2, <2>4, <3>1, LoopingKeeps DEF Looping
  <2> QED
    BY <2>1, <2>3, <2>4 DEF Outcome, Stopped
<1>9. CASE UNCHANGED <<segm, slist, serv, conn, faults>> /\ Exit(2) /\ fdset' = fdset
  <2>1. TypeOK' /\ pc' \in Stopped
    BY <1>1, <1>2, <1>9 DEF TypeOK, Exit, Stopped
  <2> QED
    BY <1>1, <1>9, <2>1, StoppedKeeps
<1> QED
  BY <1>5, <1>7, <1>8, <1>9

LEMMA SelectKeeps ==
  ASSUME IInv, Select
  PROVE  IInv'
<1>1. /\ Planned /\ Len(segm) = NrSegments /\ Sound(segm, conn)
      /\ slist[NServers + 1] = NoServer /\ TypeOK
  BY LoopingFound DEF Select, Looping
<1>2. UNCHANGED <<e, i, segm, slist, serv, out, conn, cur, whole, edits>>
  BY DEF Select, mirror
<1>3. FdsWaited /\ pc = "build"
  BY DEF IInv, Select
<1>4. CASE fdset' = ReadyFds /\ NoFault /\ Goto("pass")
  <2>1. ReadyFds \subseteq fdset
    BY DEF ReadyFds
  <2>2. FdsWaited'
    BY <1>2, <1>3, <1>4, <2>1 DEF FdsWaited, Done
  <2>3. TypeOK'
    BY <1>1, <1>2, <1>4, <2>1 DEF TypeOK, NoFault, Goto, Running
  <2> QED
    BY <1>1, <1>2, <1>4, <2>2, <2>3, LoopingKeeps DEF Goto, Looping
<1>5. CASE fdset' = fdset /\ Fault /\ Exit(2)
  <2>1. TypeOK' /\ pc' \in Stopped
    BY <1>1, <1>2, <1>5, GetAssumption DEF TypeOK, Fault, Exit, Stopped
  <2> QED
    BY <1>1, <1>2, <2>1, StoppedKeeps
<1> QED
  BY <1>4, <1>5 DEF Select

(* The other descriptors of the set still belong to the segments that      *)
(* waited on them.                                                         *)
LEMMA PassKeeps ==
  ASSUME IInv, Pass
  PROVE  IInv'
<1>1. /\ Planned /\ Len(segm) = NrSegments /\ Sound(segm, conn)
      /\ slist[NServers + 1] = NoServer /\ TypeOK
  BY LoopingFound DEF Pass, Looping
<1>2. PICK k \in 0 .. Len(segm) - 1 :
        /\ IsNext(k)
        /\ fdset' = fdset \ {segm[k + 1].fd}
        /\ Connecting(k) \/ Sizing(k) \/ Getting(k) \/ Unhandled(k)
  BY DEF Pass
<1>3. UNCHANGED <<e, i, out, cur, whole, edits>> /\ pc = "pass"
  BY DEF Pass, mirror
<1>4. segm[k + 1].state \in Waiting
  BY <1>2, <1>3, FoundType
<1>5. Handled(k)
  BY <1>2, <1>3, <1>4, ConnectingHandled, SizingHandled, GettingHandled DEF Unhandled
<1>6. TypeOK'
  BY <1>1, <1>2, <1>3, <1>5 DEF Handled, TypeOK, Sound, Lists, Running, Stopped
<1>7. CASE pc' \in Stopped
  BY <1>5, <1>6, <1>7, StoppedKeeps DEF Handled
<1>8. CASE pc' = "pass"
  <2>1. ASSUME NEW f \in fdset'
        PROVE  \E j \in 1 .. Len(segm') :
                 segm'[j].fd = f /\ ~Done(segm'[j]) /\ segm'[j].state \in Waiting
    <3>1. PICK j \in 1 .. Len(segm) :
            segm[j].fd = f /\ ~Done(segm[j]) /\ segm[j].state \in Waiting
      BY <1>2, <1>3, <2>1 DEF IInv, FdsWaited
    <3>2. j # k + 1
      BY <1>2, <2>1, <3>1
    <3>3. segm'[j] = segm[j] /\ Len(segm') = Len(segm)
      BY <1>5, <3>1, <3>2 DEF Handled
    <3> QED
      BY <3>1, <3>3
  <2>2. FdsWaited'
    BY <2>1 DEF FdsWaited, Done
  <2>3. Sound(segm', conn') /\ Len(segm') = Len(segm) /\ slist'[NServers + 1] = NoServer
    BY <1>5 DEF Handled
  <2> QED
    BY <1>1, <1>3, <1>6, <1>8, <2>2, <2>3, LoopingKeeps DEF Looping
<1> QED
  BY <1>5, <1>7, <1>8 DEF Handled

LEMMA PassDoneKeeps ==
  ASSUME IInv, PassDone
  PROVE  IInv'
<1>1. /\ Planned /\ Len(segm) = NrSegments /\ Sound(segm, conn)
  BY LoopingFound DEF PassDone, Looping
<1>2. Sound(segm', conn') /\ Len(segm') = NrSegments /\ e' = e
  BY <1>1 DEF PassDone
<1>3. TypeOK' /\ slist'[NServers + 1] = NoServer
  BY DEF IInv, TypeOK, PassDone, mirror, Goto, Running
<1>4. FdsWaited' /\ pc' \in Looping /\ pc' # "assemble"
  BY DEF FdsWaited, PassDone, Goto, Looping
<1> QED
  BY <1>1, <1>2, <1>3, <1>4, LoopingKeeps

(* Every byte of the file comes from a segment that holds it.              *)
LEMMA AssembledType ==
  ASSUME IInv, pc = "assemble"
  PROVE  Assembled \in Seq(Unit)
<1>1. Planned /\ Len(segm) = NrSegments /\ Sound(segm, conn)
  BY LoopingFound DEF Looping
<1>2. /\ NrSegments \in Nat \ {0} /\ SizeOf[e] \in Nat
      /\ \A k \in 1 .. Len(segm) : Done(segm[k])
  BY <1>1, PlanFits DEF IInv, Stage, AllDone, Done, Planned
<1>3. ASSUME NEW b \in 1 .. SizeOf[e]
      PROVE  segm[Owner(b - 1) + 1].buf[b - Start(Owner(b - 1))] \in Unit
  <2> DEFINE k == Owner(b - 1)
             l == k + 1
             s == segm[l]
             p == b - Start(k)
  <2>1. b - 1 \in 0 .. SizeOf[e] - 1
    BY <1>2
  <2>2. k \in 0 .. NrSegments - 1 /\ Start(k) <= b - 1 /\ b - 1 < Stop(k)
    BY <1>1, <2>1, OwnerExists
  <2> HIDE DEF k
  <2>3. l \in 1 .. NrSegments /\ l - 1 = k
    BY <1>2, <2>2
  <2>4. Start(k) \in Nat /\ Stop(k) \in Nat /\ Bytes(l) = Stop(k) - Start(k)
    BY <1>1, <2>3, BytesType DEF Bytes
  <2>5. s \in Segment /\ Len(s.buf) = Bytes(l) + 1
    BY <1>1, <1>2, <2>3 DEF Sound
  <2>6. s.buf \in Seq(Unit)
    BY <2>5 DEF Segment
  <2> HIDE DEF l, s
  <2>7. p \in 1 .. Len(s.buf)
    BY <2>2, <2>4, <2>5
  <2> HIDE DEF p
  <2>8. s.buf[p] \in Unit
    BY <2>6, <2>7
  <2> QED
    BY <2>8 DEF k, l, s, p
<1> QED
  BY <1>2, <1>3 DEF Assembled

LEMMA AssembleKeeps ==
  ASSUME IInv, Assemble
  PROVE  IInv'
<1>1. Assembled \in Seq(Unit)
  BY AssembledType DEF Assemble
<1>2. Len(Assembled) = SizeOf[e]
  <2>1. SizeOf[e] \in Nat
    BY PlanFits DEF Assemble, IInv, Stage, Looping, Planned
  <2> QED
    BY <2>1 DEF Assembled
<1>3. out' \in Seq(Unit)
  <2>1. ASSUME NEW n \in 0 .. SizeOf[e]
        PROVE  SubSeq(Assembled, 1, n) \in Seq(Unit)
    <3> DEFINE file == Assembled
    <3>1. file \in Seq(Unit) /\ Len(file) = SizeOf[e] /\ n \in Int
      BY <1>1, <1>2
    <3> HIDE DEF file
    <3>2. \A k \in 1 .. n : file[k] \in Unit
      BY <3>1
    <3>3. SubSeq(file, 1, n) \in Seq(Unit)
      BY <3>1, <3>2
    <3> QED
      BY <3>3 DEF file
  <2> QED
    BY <1>1, <2>1 DEF Assemble
<1>4. TypeOK' /\ slist'[NServers + 1] = NoServer /\ pc' \in Stopped
  BY <1>3, GetAssumption
     DEF IInv, TypeOK, Assemble, mirror, Exit, Fault, NoFault, Stopped
<1> QED
  BY <1>4, StoppedKeeps

LEMMA ClientKeeps ==
  ASSUME IInv, Client
  PROVE  IInv'
  BY ConnectKeeps, HandshakeKeeps, ReadSizeStatusKeeps, ReadSizeLineKeeps,
     DivideByZeroKeeps, InitFirstKeeps, InitSegmentKeeps, InitDoneKeeps,
     LoopKeeps, BuildSetsKeeps, SelectKeeps, PassKeeps, PassDoneKeeps,
     AssembleKeeps
     DEF Client

-----------------------------------------------------------------------------
(* Only the client closes a connection.                                    *)
LEMMA UpdateKeeps ==
  ASSUME IInv, pc \in Running, NEW f \in Fds, NEW c \in Conn,
         c.st = "free" => conn[f].st = "free", Update(f, c),
         faults' \in 0 .. MaxFaults, UNCHANGED <<client, mirror>>
  PROVE  IInv'
<1>1. /\ Sound(segm, conn) /\ conn \in [Fds -> Conn] /\ segm \in Seq(Segment)
  BY NowSound DEF Sound
<1>2. conn' = [conn EXCEPT ![f] = c] /\ conn' \in [Fds -> Conn]
  BY <1>1 DEF Update
<1>3. UNCHANGED <<pc, ret, e, i, segm, fdset, slist, serv, out, cur, whole, edits>>
  BY DEF client, mirror
<1>4. TypeOK'
  BY <1>2, <1>3 DEF IInv, TypeOK
<1>5. ASSUME NEW k \in 1 .. Len(segm), ~Done(segm[k])
      PROVE  conn'[segm[k].fd].st # "free"
  <2>1. segm[k] \in Segment
    BY <1>1
  <2>2. segm[k].fd \in Fds /\ conn[segm[k].fd].st # "free"
    BY <1>1, <1>5, <2>1 DEF Sound, Segment
  <2> QED
    BY <1>1, <1>2, <2>2
<1>6. Sound(segm', conn')
  BY <1>1, <1>2, <1>3, <1>5 DEF Sound
<1>7. FdsDistinct' /\ (\A k \in 1 .. Len(segm) : SegmOK(k))'
  BY <1>3, <1>6, NextSound
<1>8. NrSegments' = NrSegments /\ (Planned' <=> Planned)
  BY <1>3, PlanKeeps
<1>9. Stage'
  BY <1>3, <1>8 DEF IInv, Stage, Only, AllDone, Done
<1>10. FdsWaited'
  BY <1>3 DEF IInv, FdsWaited, Done
<1> QED
  BY <1>3, <1>4, <1>7, <1>9, <1>10 DEF IInv

LEMMA SliceType ==
  ASSUME NEW v \in Versions, NEW from \in Nat, NEW to \in Nat, from < to
  PROVE  Slice(v, from, to) \in Seq(Unit)
<1>1. to - from \in Nat
  OBVIOUS
<1>2. \A k \in 1 .. to - from :
        [kind |-> "byte", of |-> v, at |-> from + k - 1] \in Unit
  BY DEF Unit
<1> QED
  BY <1>1, <1>2 DEF Slice

LEMMA MessagesType ==
  /\ AckMsg \in Seq(Unit) /\ OkMsg \in Seq(Unit)
  /\ ErrMsg \in Seq(Unit) /\ EndMsg \in Seq(Unit)
  /\ \A v \in Versions : SizeReply(v) \in Seq(Unit)
<1>1. /\ Word("CGYM") \in Unit /\ Word("OK") \in Unit /\ Word("ERR") \in Unit
      /\ CRLF \in Unit /\ \A v \in Versions : Entry(v) \in Unit
  BY DEF Word, CRLF, Entry, Unit
<1>2. /\ AckMsg \in Seq(Unit) /\ OkMsg \in Seq(Unit)
      /\ ErrMsg \in Seq(Unit) /\ EndMsg \in Seq(Unit)
  BY <1>1 DEF AckMsg, OkMsg, ErrMsg, EndMsg
<1>3. ASSUME NEW v \in Versions
      PROVE  SizeReply(v) \in Seq(Unit)
  <2>1. <<Entry(v), CRLF>> \in Seq(Unit)
    BY <1>1
  <2> QED
    BY <1>2, <2>1 DEF SizeReply
<1> QED
  BY <1>2, <1>3

LEMMA AnswerKeeps ==
  ASSUME IInv, pc \in Running, NEW f \in Fds, NEW s \in Servers, Answer(s, f),
         UNCHANGED <<client, mirror>>
  PROVE  IInv'
<1> DEFINE c == conn[f]
           v == cur[s]
           rq == c.req
           reply(msg, end) ==
             [c EXCEPT !.req = NoReq, !.flight = @ \o msg, !.fin = end]
<1>1. c \in Conn /\ faults \in 0 .. MaxFaults /\ v \in Versions \cup {NoVersion}
  BY DEF IInv, TypeOK
<1>2. c.st = "up" /\ faults' = faults
  BY DEF Answer, Serving, NoFault
<1>3. NoReq \in Requests
  BY DEF NoReq, Requests
<1>4. ASSUME NEW msg \in Seq(Unit), NEW end \in BOOLEAN
      PROVE  reply(msg, end) \in Conn /\ reply(msg, end).st # "free"
  <2>1. c.flight \in Seq(Unit)
    BY <1>1 DEF Conn
  <2>2. c.flight \o msg \in Seq(Unit)
    BY <2>1
  <2> HIDE DEF c
  <2> QED
    BY <1>1, <1>2, <1>3, <2>2 DEF Conn
<1>5. Update(f, IF rq.op = "size"
                THEN IF v # NoVersion THEN reply(SizeReply(v), FALSE)
                                      ELSE reply(ErrMsg, TRUE)
                ELSE IF HasRange(v, rq.from, rq.to)
                     THEN reply(GetReply(v, rq.from, rq.to), FALSE)
                     ELSE reply(ErrMsg, TRUE))
  BY DEF Answer
<1>6. rq \in Requests
  BY <1>1 DEF Conn
<1>7. ASSUME HasRange(v, rq.from, rq.to)
      PROVE  GetReply(v, rq.from, rq.to) \in Seq(Unit)
  <2>1. v \in Versions /\ rq.from \in Nat /\ rq.to \in Nat /\ rq.from < rq.to
    BY <1>1, <1>6, <1>7 DEF HasRange, Requests
  <2>2. Slice(v, rq.from, rq.to) \in Seq(Unit)
    BY <2>1, SliceType
  <2> HIDE DEF rq, v
  <2> QED
    BY <2>2, MessagesType DEF GetReply
<1> HIDE DEF reply, v, rq
<1>8. \A msg \in Seq(Unit), end \in BOOLEAN : Update(f, reply(msg, end)) => IInv'
  <2> SUFFICES ASSUME NEW msg \in Seq(Unit), NEW end \in BOOLEAN,
                      Update(f, reply(msg, end))
               PROVE  IInv'
    OBVIOUS
  <2>1. reply(msg, end) \in Conn /\ reply(msg, end).st # "free"
    BY <1>4
  <2> QED
    BY <1>1, <1>2, <2>1, UpdateKeeps
<1>9. v # NoVersion => SizeReply(v) \in Seq(Unit)
  BY <1>1, MessagesType
<1> QED
  BY <1>5, <1>7, <1>8, <1>9, MessagesType

LEMMA AcceptKeeps ==
  ASSUME IInv, pc \in Running, NEW f \in Fds, NEW s \in Servers, Accept(s, f),
         UNCHANGED <<client, mirror>>
  PROVE  IInv'
<1> DEFINE c == conn[f]
           d == [c EXCEPT !.greeted = TRUE, !.flight = @ \o AckMsg]
<1>1. c \in Conn /\ faults \in 0 .. MaxFaults
  BY DEF IInv, TypeOK
<1>2. c.st = "up" /\ faults' = faults /\ Update(f, d)
  BY DEF Accept, NoFault
<1>3. c.flight \o AckMsg \in Seq(Unit)
  BY <1>1, MessagesType DEF Conn
<1>4. d \in Conn /\ d.st # "free"
  <2> HIDE DEF c
  <2> QED
    BY <1>1, <1>2, <1>3 DEF Conn
<1> HIDE DEF d
<1> QED
  BY <1>1, <1>2, <1>4, UpdateKeeps

LEMMA DeliverKeeps ==
  ASSUME IInv, pc \in Running, NEW f \in Fds, Deliver(f),
         UNCHANGED <<client, mirror>>
  PROVE  IInv'
<1> DEFINE c == conn[f]
           n == IF whole THEN Len(c.flight) ELSE 1
           d == [c EXCEPT !.avail = @ \o SubSeq(c.flight, 1, n),
                          !.flight = SubSeq(c.flight, n + 1, Len(c.flight))]
<1>1. c \in Conn /\ faults \in 0 .. MaxFaults
  BY DEF IInv, TypeOK
<1>2. c.flight # <<>> /\ faults' = faults /\ Update(f, d)
  BY DEF Deliver, NoFault
<1>3. c.flight \in Seq(Unit) /\ c.avail \in Seq(Unit)
  BY <1>1 DEF Conn
<1>4. n \in 1 .. Len(c.flight)
  <2> HIDE DEF c
  <2> QED
    BY <1>2, <1>3
<1> HIDE DEF n
<1>5. /\ SubSeq(c.flight, 1, n) \in Seq(Unit)
      /\ SubSeq(c.flight, n + 1, Len(c.flight)) \in Seq(Unit)
  <2> HIDE DEF c
  <2> QED
    BY <1>3, <1>4
<1>6. c.avail \o SubSeq(c.flight, 1, n) \in Seq(Unit)
  <2> HIDE DEF c
  <2> QED
    BY <1>3, <1>5
<1>7. d \in Conn /\ d.st = c.st
  <2> HIDE DEF c
  <2> QED
    BY <1>1, <1>5, <1>6 DEF Conn
<1> HIDE DEF d
<1> QED
  BY <1>1, <1>2, <1>7, UpdateKeeps

LEMMA EstablishKeeps ==
  ASSUME IInv, pc \in Running, NEW f \in Fds, Establish(f),
         UNCHANGED <<client, mirror>>
  PROVE  IInv'
<1> DEFINE d == [conn[f] EXCEPT !.st = "up"]
<1>1. conn[f] \in Conn /\ faults \in 0 .. MaxFaults
  BY DEF IInv, TypeOK
<1>2. d \in Conn /\ d.st # "free"
  BY <1>1 DEF Conn
<1>3. faults' = faults /\ Update(f, d)
  BY DEF Establish, NoFault
<1> HIDE DEF d
<1> QED
  BY <1>1, <1>2, <1>3, UpdateKeeps

LEMMA NetworkKeeps ==
  ASSUME IInv, Network
  PROVE  IInv'
  BY EstablishKeeps, AcceptKeeps, AnswerKeeps, DeliverKeeps DEF Network

LEMMA DisturbKeeps ==
  ASSUME IInv, Disturb
  PROVE  IInv'
<1>1. pc \in Running /\ UNCHANGED <<client, mirror>>
  BY DEF Disturb
<1>2. PICK f \in Fds : Refuse(f) \/ Drop(f)
  BY DEF Disturb
<1>3. conn[f] \in Conn /\ faults' \in 0 .. MaxFaults
  BY <1>2, GetAssumption DEF IInv, TypeOK, Refuse, Drop, Fault
<1>4. CASE Refuse(f)
  <2> DEFINE d == [conn[f] EXCEPT !.st = "failed"]
  <2>1. d \in Conn /\ d.st # "free" /\ Update(f, d)
    BY <1>3, <1>4 DEF Conn, Refuse
  <2> HIDE DEF d
  <2> QED
    BY <1>1, <1>3, <2>1, UpdateKeeps
<1>5. CASE Drop(f)
  <2> DEFINE d == [conn[f] EXCEPT !.fin = TRUE, !.flight = <<>>]
  <2>1. d \in Conn /\ d.st = conn[f].st /\ Update(f, d)
    BY <1>3, <1>5, EmptySeq DEF Conn, Drop
  <2> HIDE DEF d
  <2> QED
    BY <1>1, <1>3, <2>1, UpdateKeeps
<1> QED
  BY <1>2, <1>4, <1>5

LEMMA UnchangedKeeps ==
  ASSUME IInv, UNCHANGED <<client, conn>>, TypeOK'
  PROVE  IInv'
<1>1. UNCHANGED <<pc, ret, e, i, segm, fdset, slist, serv, out, conn>>
  BY DEF client
<1>2. pc \in Running => Sound(segm', conn')
  BY <1>1, NowSound
<1>3. pc \in Running => FdsDistinct' /\ (\A k \in 1 .. Len(segm) : SegmOK(k))'
  BY <1>1, <1>2, NextSound
<1>4. NrSegments' = NrSegments /\ (Planned' <=> Planned)
  BY <1>1, PlanKeeps
<1>5. Stage'
  BY <1>1, <1>4 DEF IInv, Stage, Only, AllDone, Done
<1>6. FdsWaited'
  BY <1>1 DEF IInv, FdsWaited, Done
<1> QED
  BY <1>1, <1>3, <1>5, <1>6 DEF IInv

LEMMA EditKeeps ==
  ASSUME IInv, Edit
  PROVE  IInv'
<1>1. UNCHANGED <<pc, ret, e, i, segm, fdset, slist, serv, out, conn, whole, faults>>
  BY DEF Edit, client
<1>2. /\ cur' \in [Servers -> Versions \cup {NoVersion}]
      /\ edits' \in 0 .. MaxEdits
  BY GetAssumption DEF IInv, TypeOK, Edit
<1>3. TypeOK'
  BY <1>1, <1>2 DEF IInv, TypeOK
<1> QED
  BY <1>1, <1>3, UnchangedKeeps DEF client

LEMMA StutterKeeps ==
  ASSUME IInv, UNCHANGED vars
  PROVE  IInv'
<1>1. UNCHANGED <<client, conn, mirror, faults>>
  BY DEF vars
<1>2. UNCHANGED <<pc, ret, e, i, segm, fdset, slist, serv, out, conn, cur, whole,
                  faults, edits>>
  BY <1>1 DEF client, mirror
<1>3. TypeOK'
  BY <1>2 DEF IInv, TypeOK
<1> QED
  BY <1>1, <1>3, UnchangedKeeps

-----------------------------------------------------------------------------
(* IInv holds in every state of a download, whatever the count of segments *)
(* (negative ones included), the sizes, the number of servers, their       *)
(* files, and the failures: after every blocking call of cgym_get() and    *)
(* every segment handled in its loop (get.c:33-530).                       *)
THEOREM Inductive == Spec => []IInv
<1>1. Init => IInv
  BY InitInv
<1>2. IInv /\ [Next]_vars => IInv'
  BY ClientKeeps, NetworkKeeps, DisturbKeeps, EditKeeps, StutterKeeps
     DEF Next, Terminated
<1> QED
  BY <1>1, <1>2, PTL DEF Spec

(* The state of cgym_get() has its types: no descriptor out of range in    *)
(* the sets of select(), serv inside the list of servers it walks with     *)
(* pointer arithmetic (get.c:129-131), and everything that is put together *)
(* from the segments' buffers was received (segment.c:178-194).            *)
THEOREM TypeCorrect == Spec => []TypeOK
<1>1. IInv => TypeOK
  BY DEF IInv
<1> QED
  BY <1>1, Inductive, PTL

LEMMA WaitedIsLive ==
  ASSUME IInv
  PROVE  ReadyFdIsLive
<1> SUFFICES ASSUME pc = "pass", NEW f \in fdset
             PROVE  /\ conn[f].st # "free"
                    /\ \A k \in 1 .. Len(segm) : segm[k].fd = f =>
                         ~Done(segm[k]) /\ segm[k].state \in Waiting
  BY DEF ReadyFdIsLive
<1>1. PICK j \in 1 .. Len(segm) :
        segm[j].fd = f /\ ~Done(segm[j]) /\ segm[j].state \in Waiting
  BY DEF IInv, FdsWaited
<1>2. FdsDistinct /\ SegmOK(j)
  BY DEF IInv, Running
<1> QED
  BY <1>1, <1>2 DEF FdsDistinct, SegmOK

(* The second pass (get.c:238-519) is only ever given descriptors of open  *)
(* connections of unfinished segments that wait for something, although a  *)
(* finished segment keeps the number of the descriptor it closed: its      *)
(* "Unhandled" branch is unreachable.                                      *)
THEOREM SelectedSegmentsWait == Spec => []ReadyFdIsLive
<1>1. IInv => ReadyFdIsLive
  BY WaitedIsLive
<1> QED
  BY <1>1, Inductive, PTL

LEMMA DoneUntouched ==
  ASSUME IInv, [Next]_vars, NEW k \in 1 .. Len(segm), Done(segm[k])
  PROVE  segm'[k] = segm[k]
<1>1. CASE Connect \/ Handshake \/ ReadSizeStatus \/ ReadSizeLine \/ InitFirst
  <2>1. pc \in Preparing
    BY <1>1 DEF Connect, Handshake, ReadSizeStatus, ReadSizeLine, InitFirst, Preparing
  <2>2. CASE pc = "connect"
    BY <2>2 DEF IInv
  <2>3. CASE pc # "connect"
    <3>1. Len(segm) = 1 /\ segm[1].status # "DONE"
      BY <2>1, <2>3, FirstFound DEF Preparing
    <3> QED
      BY <3>1 DEF Done
  <2> QED
    BY <2>2, <2>3
<1>2. CASE InitSegment
  BY <1>2 DEF InitSegment, IInv, Stage
<1>3. CASE Pass
  <2>1. PICK l \in 0 .. Len(segm) - 1 :
          IsNext(l) /\ (Connecting(l) \/ Sizing(l) \/ Getting(l) \/ Unhandled(l))
    BY <1>3 DEF Pass
  <2>2. pc = "pass"
    BY <1>3 DEF Pass
  <2>3. ~Done(segm[l + 1]) /\ segm[l + 1].state \in Waiting
    BY <2>1, <2>2, FoundType
  <2>4. Handled(l)
    BY <2>1, <2>2, <2>3, ConnectingHandled, SizingHandled, GettingHandled
       DEF Unhandled
  <2> QED
    BY <2>3, <2>4 DEF Handled
<1>4. CASE \/ DivideByZero \/ InitDone \/ Loop \/ BuildSets \/ Select
           \/ PassDone \/ Assemble
  BY <1>4 DEF DivideByZero, InitDone, Loop, BuildSets, Retry, Select, PassDone,
              Assemble
<1>5. CASE Network \/ Disturb \/ Edit \/ UNCHANGED vars
  BY <1>5 DEF Network, Disturb, Edit, vars, client
<1> QED
  BY <1>1, <1>2, <1>3, <1>4, <1>5 DEF Next, Client, Terminated

(* A finished segment stays as it is, in its place, until the file is put  *)
(* together: neither the replacements, which are set up in the middle of   *)
(* both passes (get.c:192-206, 287-499), nor the descriptor numbers that   *)
(* are used again ever reach it.                                           *)
THEOREM DoneSegmentsStay == Spec => DoneIsStable
<1>1. IInv /\ [Next]_vars =>
        [\A k \in 1 .. Len(segm) : Done(segm[k]) => segm'[k] = segm[k]]_vars
  BY DoneUntouched
<1> QED
  BY <1>1, Inductive, PTL DEF Spec, DoneIsStable

-----------------------------------------------------------------------------
(***************************************************************************)
(* The content of a download: what a segment reads, whatever the network   *)
(* and the servers do, is its piece of one version of the file; and the    *)
(* whole of CgymGet implements CgymDownload.                               *)
(***************************************************************************)

(***************************************************************************)
(* How a segment reads its reply: what each function of the socket layer   *)
(* takes from the stream of a connection, and that what is left is what    *)
(* the segment's new state waits for, however the stream was cut into      *)
(* pieces.                                                                 *)
(***************************************************************************)

LEMMA Joined ==
  \A a, b \in Seq(Unit) :
    /\ a \o b \in Seq(Unit) /\ Len(a \o b) = Len(a) + Len(b)
    /\ Len(a) \in Nat /\ Len(b) \in Nat
    /\ \A j \in 1 .. Len(a) + Len(b) :
         (a \o b)[j] = IF j <= Len(a) THEN a[j] ELSE b[j - Len(a)]
<1> SUFFICES ASSUME NEW a \in Seq(Unit), NEW b \in Seq(Unit)
             PROVE  /\ a \o b \in Seq(Unit) /\ Len(a \o b) = Len(a) + Len(b)
                    /\ Len(a) \in Nat /\ Len(b) \in Nat
                    /\ \A j \in 1 .. Len(a) + Len(b) :
                         (a \o b)[j] = IF j <= Len(a) THEN a[j] ELSE b[j - Len(a)]
  OBVIOUS
<1> QED
  BY ConcatProperties, LenProperties

LEMMA Regroup ==
  \A a, b, d \in Seq(Unit) : (a \o b) \o d = a \o (b \o d)
  BY ConcatAssociative

(* The beginning of a message.                                             *)
LEMMA BeginsEmpty ==
  ASSUME NEW m \in Seq(Unit)
  PROVE  Begins(<<>>, m)
  BY DEF Begins

LEMMA BeginsSelf ==
  ASSUME NEW m \in Seq(Unit)
  PROVE  Begins(m, m)
  BY DEF Begins

(* What was received first is the beginning too.                           *)
LEMMA BeginsPart ==
  ASSUME NEW a \in Seq(Unit), NEW b \in Seq(Unit), NEW m \in Seq(Unit),
         Begins(a \o b, m)
  PROVE  Begins(a, m)
<1>1. /\ Len(a \o b) = Len(a) + Len(b)
      /\ \A j \in 1 .. Len(a) : (a \o b)[j] = a[j]
  BY ConcatProperties
<1>2. Len(a) \in Nat /\ Len(b) \in Nat /\ Len(m) \in Nat
  OBVIOUS
<1>3. Len(a \o b) <= Len(m) /\ \A j \in 1 .. Len(a \o b) : (a \o b)[j] = m[j]
  BY DEF Begins
<1>4. Len(a) <= Len(m) /\ \A j \in 1 .. Len(a) : a[j] = m[j]
  BY <1>1, <1>2, <1>3
<1> QED
  BY <1>4 DEF Begins

(* When the first part has been read whole, the second is left.            *)
LEMMA BeginsRest ==
  ASSUME NEW a \in Seq(Unit), NEW b \in Seq(Unit),
         NEW p \in Seq(Unit), NEW q \in Seq(Unit),
         Begins(a \o b, p \o q), Len(a) = Len(p)
  PROVE  a = p /\ Begins(b, q)
<1>1. /\ Len(a \o b) = Len(a) + Len(b) /\ Len(p \o q) = Len(p) + Len(q)
      /\ \A j \in 1 .. Len(a) + Len(b) :
           (a \o b)[j] = IF j <= Len(a) THEN a[j] ELSE b[j - Len(a)]
      /\ \A j \in 1 .. Len(p) + Len(q) :
           (p \o q)[j] = IF j <= Len(p) THEN p[j] ELSE q[j - Len(p)]
  BY ConcatProperties
<1>2. Len(a) \in Nat /\ Len(b) \in Nat /\ Len(p) \in Nat /\ Len(q) \in Nat
  OBVIOUS
<1>3. /\ Len(a \o b) <= Len(p \o q)
      /\ \A j \in 1 .. Len(a \o b) : (a \o b)[j] = (p \o q)[j]
  BY DEF Begins
<1>4. Len(b) <= Len(q)
  BY <1>1, <1>2, <1>3
<1>5. ASSUME NEW j \in 1 .. Len(a)
      PROVE  a[j] = p[j]
  <2>1. j \in 1 .. Len(a \o b) /\ j \in 1 .. Len(a) + Len(b) /\ j \in 1 .. Len(p) + Len(q)
    BY <1>1, <1>2, <1>4
  <2> QED
    BY <1>1, <1>3, <2>1
<1>6. ASSUME NEW j \in 1 .. Len(b)
      PROVE  b[j] = q[j]
  <2> DEFINE l == Len(a) + j
  <2>1. l \in 1 .. Len(a \o b) /\ l \in 1 .. Len(a) + Len(b) /\ l \in 1 .. Len(p) + Len(q)
    BY <1>1, <1>2, <1>4
  <2>2. ~(l <= Len(a)) /\ ~(l <= Len(p)) /\ l - Len(a) = j /\ l - Len(p) = j
    BY <1>2
  <2> HIDE DEF l
  <2> QED
    BY <1>1, <1>3, <2>1, <2>2
<1>7. a = p
  BY <1>5, SeqEqual
<1> QED
  BY <1>4, <1>6, <1>7 DEF Begins

LEMMA NotOkPart ==
  ASSUME NEW a \in Seq(Unit), NEW b \in Seq(Unit), NotOk(a \o b)
  PROVE  NotOk(a)
<1> SUFFICES ASSUME a # <<>> PROVE a[1] # Word("OK")
  BY DEF NotOk
<1>1. Len(a) \in Nat \ {0} /\ Len(b) \in Nat
  BY EmptySeq
<1>2. (a \o b)[1] = a[1] /\ Len(a \o b) = Len(a) + Len(b)
  BY <1>1, ConcatProperties
<1>3. a \o b # <<>>
  BY <1>1, <1>2, EmptySeq
<1> QED
  BY <1>2, <1>3 DEF NotOk

LEMMA NotOkMore ==
  ASSUME NEW a \in Seq(Unit), NEW b \in Seq(Unit), a # <<>>, NotOk(a)
  PROVE  NotOk(a \o b)
<1>1. Len(a) \in Nat \ {0} /\ Len(b) \in Nat
  BY EmptySeq
<1>2. (a \o b)[1] = a[1]
  BY <1>1, ConcatProperties
<1> QED
  BY <1>2 DEF NotOk

(* What was read as a status is not a positive one.                        *)
LEMMA NotOkRead ==
  ASSUME NEW a \in Seq(Unit), NEW b \in Seq(Unit), NotOk(a \o b)
  PROVE  a # OkMsg
<1>1. OkMsg # <<>> /\ OkMsg[1] = Word("OK")
  BY DEF OkMsg
<1> QED
  BY <1>1, NotOkPart DEF NotOk

LEMMA Words ==
  /\ Word("OK") # Word("ERR") /\ CRLF # Word("OK")
  /\ \A v \in Versions : Entry(v) # CRLF /\ Entry(v) # Word("OK")
  /\ NotOk(ErrMsg) /\ NotOk(<<>>)
<1>1. /\ Word("OK").kind = "OK" /\ Word("ERR").kind = "ERR" /\ CRLF.kind = "CRLF"
      /\ \A v \in Versions : Entry(v).kind = "entry"
  BY DEF Word, CRLF, Entry
<1>2. ErrMsg[1] = Word("ERR")
  BY DEF ErrMsg
<1> QED
  BY <1>1, <1>2 DEF NotOk

-----------------------------------------------------------------------------
(* Reading takes from the stream what it puts in the buffer.               *)
SameConn(d, c) ==
  /\ d.st = c.st /\ d.srv = c.srv /\ d.greeted = c.greeted
  /\ d.req = c.req /\ d.fin = c.fin /\ d.flight = c.flight

LEMMA StreamType ==
  ASSUME NEW s \in Segment, NEW c \in Conn, s.pos <= Len(s.buf)
  PROVE  /\ Stream(s, c) \in Seq(Unit)
         /\ SubSeq(s.buf, 1, s.pos) \in Seq(Unit) /\ Len(SubSeq(s.buf, 1, s.pos)) = s.pos
         /\ c.avail \in Seq(Unit) /\ c.flight \in Seq(Unit)
         /\ Stream(s, c) = SubSeq(s.buf, 1, s.pos) \o (c.avail \o c.flight)
<1>1. /\ s.buf \in Seq(Unit) /\ s.pos \in Nat
      /\ c.avail \in Seq(Unit) /\ c.flight \in Seq(Unit)
  BY DEF Segment, Conn
<1> DEFINE old == SubSeq(s.buf, 1, s.pos)
<1>2. old \in Seq(Unit) /\ Len(old) = s.pos
  BY <1>1
<1> HIDE DEF old
<1>3. (old \o c.avail) \in Seq(Unit) /\ (old \o c.avail) \o c.flight \in Seq(Unit)
  <2>1. old \o c.avail \in Seq(Unit)
    BY <1>1, <1>2, ConcatProperties
  <2> QED
    BY <1>1, <2>1, ConcatProperties
<1>4. (old \o c.avail) \o c.flight = old \o (c.avail \o c.flight)
  BY <1>1, <1>2, Regroup
<1> QED
  BY <1>1, <1>2, <1>3, <1>4 DEF Stream, old

(* At the start of the buffer, only what is on its way remains.            *)
LEMMA StreamAtZero ==
  ASSUME NEW s, NEW c \in Conn, s.pos = 0
  PROVE  Stream(s, c) = c.avail \o c.flight
<1>1. SubSeq(s.buf, 1, s.pos) = <<>>
  BY SubSeqEmpty
<1>2. c.avail \in Seq(Unit)
  BY DEF Conn
<1> QED
  BY <1>1, <1>2, ConcatEmptySeq DEF Stream

LEMMA RecvStream ==
  ASSUME NEW s \in Segment, NEW c \in Conn, NEW len \in Nat,
         s.pos <= Len(s.buf), s.pos < len
  PROVE  LET r == cgym_recv(s, c, len) IN
         /\ SameConn(r.conn, c)
         /\ r.rc = 0 => /\ Stream(s, c) = r.segm.buf \o Stream(r.segm, r.conn)
                        /\ r.segm.buf \in Seq(Unit)
         /\ r.rc # 0 => Stream(r.segm, r.conn) = Stream(s, c)
         /\ r.rc = 2 => Eof(c) /\ c.avail = <<>> /\ r.conn = c
<1> DEFINE want == len - s.pos
           n    == IF Len(c.avail) < want THEN Len(c.avail) ELSE want
           old  == SubSeq(s.buf, 1, s.pos)
           new  == SubSeq(c.avail, 1, n)
           left == SubSeq(c.avail, n + 1, Len(c.avail))
           rest == [c EXCEPT !.avail = left]
           got  == old \o new
<1>1. /\ s.buf \in Seq(Unit) /\ s.pos \in Nat
      /\ c.avail \in Seq(Unit) /\ c.flight \in Seq(Unit)
      /\ Len(s.buf) \in Nat /\ Len(c.avail) \in Nat
  BY DEF Segment, Conn
<1>2. n \in Nat /\ n <= want /\ n <= Len(c.avail) /\ want \in Nat \ {0}
  BY <1>1
<1>3. n = 0 => c.avail = <<>>
  BY <1>1, <1>2, EmptySeq
<1>4. /\ cgym_recv(s, c, len) =
           IF n = 0 THEN [segm |-> s, conn |-> c, rc |-> IF Eof(c) THEN 2 ELSE 1]
           ELSE IF n = want
           THEN [segm |-> [s EXCEPT !.buf = got, !.pos = 0], conn |-> rest, rc |-> 0]
           ELSE [segm |-> [s EXCEPT !.buf = got, !.pos = s.pos + n],
                 conn |-> rest, rc |-> 1]
  BY DEF cgym_recv
<1> HIDE DEF n
<1>5. /\ old \in Seq(Unit) /\ Len(old) = s.pos
      /\ new \in Seq(Unit) /\ Len(new) = n /\ left \in Seq(Unit)
  BY <1>1, <1>2
<1>6. new \o left = c.avail
  <2>0. 1 \in 1 .. Len(c.avail) + 1 /\ n \in 1 - 1 .. Len(c.avail)
        /\ Len(c.avail) \in n .. Len(c.avail)
    BY <1>1, <1>2
  <2>1. SubSeq(c.avail, 1, n) \o SubSeq(c.avail, n + 1, Len(c.avail))
          = SubSeq(c.avail, 1, Len(c.avail))
    BY <1>1, <2>0, ConcatAdjacentSubSeq
  <2> QED
    BY <1>1, <2>1, SubSeqFull
<1> HIDE DEF old, new, left
<1>7. got \in Seq(Unit) /\ Len(got) = s.pos + n
  <2>1. old \o new \in Seq(Unit) /\ Len(old \o new) = Len(old) + Len(new)
    BY <1>5, ConcatProperties
  <2> QED
    BY <1>5, <2>1
<1>8. /\ Stream(s, c) = (got \o left) \o c.flight
      /\ Stream(s, c) = got \o (left \o c.flight)
  <2>1. Stream(s, c) = (old \o (new \o left)) \o c.flight
    BY <1>6 DEF Stream, old
  <2>2. old \o (new \o left) = got \o left
    BY <1>5, Regroup
  <2> HIDE DEF got, rest
  <2>3. (got \o left) \o c.flight = got \o (left \o c.flight)
    BY <1>1, <1>5, <1>7, Regroup
  <2> QED
    BY <2>1, <2>2, <2>3
<1>9. rest \in Conn /\ SameConn(rest, c) /\ rest.avail = left /\ rest.flight = c.flight
  BY <1>5 DEF Conn, SameConn
<1> HIDE DEF got, rest
<1>10. CASE n = 0
  BY <1>3, <1>4, <1>10 DEF SameConn
<1>11. CASE n # 0 /\ n = want
  <2> DEFINE t == [s EXCEPT !.buf = got, !.pos = 0]
  <2>1. cgym_recv(s, c, len) = [segm |-> t, conn |-> rest, rc |-> 0]
    BY <1>4, <1>11
  <2>2. t.buf = got /\ t.pos = 0
    BY DEF Segment
  <2> HIDE DEF t
  <2>3. Stream(t, rest) = left \o c.flight
    BY <1>9, <2>2, StreamAtZero
  <2> DEFINE r == cgym_recv(s, c, len)
  <2>4. r.segm = t /\ r.conn = rest /\ r.rc = 0
    BY <2>1
  <2> HIDE DEF r
  <2>5. Stream(s, c) = r.segm.buf \o Stream(r.segm, r.conn)
    BY <1>8, <2>2, <2>3, <2>4
  <2>6. /\ SameConn(r.conn, c) /\ r.rc = 0 /\ r.segm.buf \in Seq(Unit)
        /\ Stream(s, c) = r.segm.buf \o Stream(r.segm, r.conn)
    BY <1>7, <1>9, <2>2, <2>4, <2>5
  <2> QED
    BY <2>6 DEF r
<1>12. CASE n # 0 /\ n # want
  <2> DEFINE t == [s EXCEPT !.buf = got, !.pos = s.pos + n]
  <2>1. cgym_recv(s, c, len) = [segm |-> t, conn |-> rest, rc |-> 1]
    BY <1>4, <1>12
  <2>2. t.buf = got /\ t.pos = Len(got)
    BY <1>7 DEF Segment
  <2> HIDE DEF t
  <2>3. SubSeq(t.buf, 1, t.pos) = got
    BY <1>7, <2>2, SubSeqFull
  <2>4. Stream(t, rest) = (got \o left) \o c.flight
    BY <1>9, <2>3 DEF Stream
  <2> QED
    BY <1>8, <1>9, <2>1, <2>4
<1> QED
  BY <1>10, <1>11, <1>12

-----------------------------------------------------------------------------
(* What is expected depends only on the stream and on what reading does    *)
(* not change.                                                             *)
LEMMA SameStream ==
  ASSUME NEW s, NEW c, NEW t, NEW d,
         t.buf = s.buf, t.pos = s.pos, d.avail = c.avail, d.flight = c.flight
  PROVE  Stream(t, d) = Stream(s, c)
  BY DEF Stream

LEMMA SameExpected ==
  ASSUME NEW c, NEW d, SameConn(d, c), NEW t
  PROVE  /\ Greeted(d) <=> Greeted(c)
         /\ AwaitsGreeting(d, t) <=> AwaitsGreeting(c, t)
         /\ AwaitsSize(d, t) <=> AwaitsSize(c, t)
         /\ AwaitsEntry(d, t) <=> AwaitsEntry(c, t)
         /\ SameAsFirst(d) <=> SameAsFirst(c)
         /\ \A v : Held(d, v) <=> Held(c, v)
         /\ \A start, stop : AwaitsGet(d, t, start, stop) <=> AwaitsGet(c, t, start, stop)
         /\ \A start, stop :
              AwaitsBytes(d, t, start, stop) <=> AwaitsBytes(c, t, start, stop)
  BY DEF SameConn, Greeted, AwaitsGreeting, AwaitsSize, AwaitsEntry, SameAsFirst,
         Held, AwaitsGet, AwaitsBytes

(* At the end of file nothing is left.                                     *)
LEMMA Dry ==
  ASSUME NEW c \in Conn, Greeted(c), c.greeted, Eof(c), c.avail = <<>>
  PROVE  c.avail \o c.flight = <<>>
<1>1. c.flight = <<>>
  BY DEF Greeted, Eof
<1> QED
  BY <1>1, EmptySeq, ConcatEmptySeq

LEMMA HandshakeStream ==
  ASSUME NEW s \in Segment, NEW c \in Conn, s.pos <= Len(s.buf), s.pos < 2,
         AwaitsGreeting(c, Stream(s, c))
  PROVE  LET r == cgym_recv_handshake(s, c) IN
         /\ SameConn(r.conn, c)
         /\ r.rc = 0 => c.greeted /\ Stream(r.segm, r.conn) = <<>>
         /\ r.rc = 1 => Stream(r.segm, r.conn) = Stream(s, c)
         /\ r.rc > 1 => Eof(c)
<1> DEFINE q == cgym_recv(s, c, 2)
           t == Stream(q.segm, q.conn)
<1>1. /\ q \in Result /\ q.rc \in 0 .. 2 /\ q.segm.pos <= Len(q.segm.buf)
      /\ q.rc = 0 => Len(q.segm.buf) = 2 /\ q.segm.pos = 0
  BY RecvType
<1>2. /\ SameConn(q.conn, c)
      /\ q.rc = 0 => Stream(s, c) = q.segm.buf \o t /\ q.segm.buf \in Seq(Unit)
      /\ q.rc # 0 => t = Stream(s, c)
      /\ q.rc = 2 => Eof(c)
  BY RecvStream
<1>3. cgym_recv_handshake(s, c) =
        IF q.rc = 0 THEN IF q.segm.buf = AckMsg THEN Clear(q) ELSE Return(q, 2)
        ELSE IF q.rc > 1 THEN Return(q, 3) ELSE q
  BY MessageLengths DEF cgym_recv_handshake
<1>4. t \in Seq(Unit) /\ q.conn \in Conn
  BY <1>1, StreamType DEF Result
<1> HIDE DEF q
<1>5. CASE q.rc = 0
  <2> DEFINE w == Clear(q)
  <2>1. c.greeted /\ Begins(q.segm.buf \o t, AckMsg)
    <3>1. q.segm.buf \o t # <<>>
      <4>1. Len(q.segm.buf) = 2 /\ q.segm.buf \in Seq(Unit)
        BY <1>1, <1>2, <1>5
      <4> HIDE DEF t
      <4>2. q.segm.buf # <<>>
        BY <4>1
      <4> QED
        BY <1>4, <4>1, <4>2, ConcatEqualIffEmpty
    <3> QED
      BY <1>2, <1>5, <3>1 DEF AwaitsGreeting
  <2>2. AckMsg \o <<>> = AckMsg /\ AckMsg \in Seq(Unit) /\ <<>> \in Seq(Unit)
    BY MessagesType, ConcatEmptySeq, EmptySeq
  <2>3. q.segm.buf = AckMsg /\ Begins(t, <<>>)
    <3>1. Begins(q.segm.buf \o t, AckMsg \o <<>>) /\ Len(q.segm.buf) = Len(AckMsg)
      BY <1>1, <1>5, <2>1, <2>2, MessageLengths
    <3> HIDE DEF t
    <3> QED
      BY <1>2, <1>4, <1>5, <2>2, <3>1, BeginsRest
  <2>4. t = <<>>
    <3> HIDE DEF t
    <3> QED
      BY <1>4, <2>3, EmptySeq DEF Begins
  <2>5. w.conn = q.conn /\ w.segm.pos = 0 /\ w.rc = 0 /\ w.segm.buf = <<>>
    BY <1>1, <1>5, ClearType
  <2>6. Stream(w.segm, w.conn) = q.conn.avail \o q.conn.flight
    BY <1>4, <2>5, StreamAtZero
  <2>7. t = q.conn.avail \o q.conn.flight
    BY <1>1, <1>4, <1>5, StreamAtZero
  <2>8. cgym_recv_handshake(s, c) = w
    BY <1>3, <1>5, <2>3
  <2> HIDE DEF w, t
  <2>9. SameConn(w.conn, c) /\ Stream(w.segm, w.conn) = <<>>
    BY <1>2, <2>4, <2>5, <2>6, <2>7
  <2> QED
    BY <2>1, <2>5, <2>8, <2>9
<1>6. CASE q.rc = 1
  BY <1>2, <1>3, <1>6
<1>7. CASE q.rc = 2
  BY <1>1, <1>2, <1>3, <1>7, ReturnType
<1> QED
  BY <1>1, <1>5, <1>6, <1>7

LEMMA ConnectStream ==
  ASSUME NEW s \in Segment, NEW c \in Conn, s.pos <= Len(s.buf), s.pos < 2,
         s.state \in {"CONNECTING", "RECV_HANDSHAKE"},
         NEW start, NEW stop, Expects(s, c, start, stop)
  PROVE  LET r == cgym_sock_connect(s, c) IN
         /\ SameConn(r.conn, c)
         /\ r.rc = 0 => c.greeted /\ c.req = NoReq /\ Stream(r.segm, r.conn) = <<>>
         /\ r.rc # 0 => Expects(r.segm, r.conn, start, stop)
         /\ r.rc > 1 => Eof(c)
<1> DEFINE t == [s EXCEPT !.state = "RECV_HANDSHAKE"]
           q == cgym_recv_handshake(t, c)
<1>1. /\ t \in Segment /\ t.state = "RECV_HANDSHAKE"
      /\ t.buf = s.buf /\ t.pos = s.pos
  BY DEF Segment, SockStates
<1> HIDE DEF t
<1>2. Stream(t, c) = Stream(s, c)
  BY <1>1, SameStream
<1>3. Greeted(c) /\ AwaitsGreeting(c, Stream(t, c)) /\ c.req = NoReq
  BY <1>2 DEF Expects, AwaitsGreeting
<1>4. /\ SameConn(q.conn, c)
      /\ q.rc = 0 => c.greeted /\ Stream(q.segm, q.conn) = <<>>
      /\ q.rc = 1 => Stream(q.segm, q.conn) = Stream(t, c)
      /\ q.rc > 1 => Eof(c)
  BY <1>1, <1>3, HandshakeStream
<1>5. q \in Result /\ q.rc \in 0 .. 3 /\ q.segm.state = "RECV_HANDSHAKE"
  BY <1>1, HandshakeType
<1>6. CASE s.state = "CONNECTING" /\ c.st = "failed"
  <2>1. cgym_sock_connect(s, c) = [segm |-> t, conn |-> c, rc |-> 5]
    BY <1>6 DEF cgym_sock_connect, t
  <2>2. Expects(t, c, start, stop)
    BY <1>1, <1>3 DEF Expects
  <2> QED
    BY <1>6, <2>1, <2>2 DEF SameConn, Eof
<1>7. CASE ~(s.state = "CONNECTING" /\ c.st = "failed")
  <2>1. cgym_sock_connect(s, c) =
          IF q.rc = 0 THEN To(q, "CONNECTED")
          ELSE IF q.rc > 1 THEN Return(To(q, "ERR"), 6) ELSE q
    BY <1>7 DEF cgym_sock_connect, t
  <2> HIDE DEF q
  <2>2. CASE q.rc = 0
    <3> DEFINE u == To(q, "CONNECTED")
    <3>1. u.conn = q.conn /\ u.rc = 0 /\ u.segm.buf = q.segm.buf /\ u.segm.pos = q.segm.pos
      BY <1>5, <2>2, ToType DEF SockStates
    <3>2. cgym_sock_connect(s, c) = u
      BY <2>1, <2>2
    <3> HIDE DEF u
    <3>3. Stream(u.segm, u.conn) = Stream(q.segm, q.conn)
      BY <3>1, SameStream
    <3> QED
      BY <1>3, <1>4, <2>2, <3>1, <3>2, <3>3
  <2>3. CASE q.rc > 1
    <3> DEFINE u == To(q, "ERR")
               w == Return(u, 6)
    <3>1. u \in Result /\ u.conn = q.conn /\ u.segm.state = "ERR"
      BY <1>5, ToType DEF SockStates
    <3> HIDE DEF u
    <3>2. w.conn = q.conn /\ w.segm.state = "ERR" /\ w.rc = 6
      BY <3>1, ReturnType
    <3>3. cgym_sock_connect(s, c) = w
      BY <1>5, <2>1, <2>3 DEF u
    <3> HIDE DEF w
    <3>4. Expects(w.segm, w.conn, start, stop)
      BY <1>3, <1>4, <3>2, SameExpected DEF Expects
    <3> QED
      BY <1>4, <2>3, <3>2, <3>3, <3>4
  <2>4. CASE q.rc = 1
    <3>1. Expects(q.segm, q.conn, start, stop)
      BY <1>3, <1>4, <1>5, <2>4, SameExpected DEF Expects
    <3> QED
      BY <1>4, <2>1, <2>4, <3>1
  <2> QED
    BY <1>5, <2>2, <2>3, <2>4
<1> QED
  BY <1>6, <1>7

-----------------------------------------------------------------------------
(* The reply to SIZE.                                                      *)
LEMMA EntryLineType ==
  ASSUME NEW v \in Versions
  PROVE  /\ <<Entry(v), CRLF>> \in Seq(Unit)
         /\ <<Entry(v), CRLF>> \o EndMsg \in Seq(Unit)
         /\ SizeReply(v) = OkMsg \o (<<Entry(v), CRLF>> \o EndMsg)
<1>1. <<Entry(v), CRLF>> \in Seq(Unit)
  BY DEF Entry, CRLF, Word, Unit
<1>2. OkMsg \in Seq(Unit) /\ EndMsg \in Seq(Unit)
  BY MessagesType
<1> DEFINE line == <<Entry(v), CRLF>>
<1> HIDE DEF line
<1>3. line \o EndMsg \in Seq(Unit) /\ (OkMsg \o line) \o EndMsg = OkMsg \o (line \o EndMsg)
  BY <1>1, <1>2, ConcatProperties, Regroup DEF line
<1> QED
  BY <1>1, <1>3 DEF SizeReply, line

LEMMA EntryLine ==
  ASSUME NEW v \in Versions
  PROVE  LET m == <<Entry(v), CRLF>> \o EndMsg IN
         Len(m) = 3 /\ m[1] = Entry(v) /\ m[2] = CRLF /\ m[3] = CRLF
  BY DEF EndMsg

LEMMA SizeStatusStream ==
  ASSUME NEW s \in Segment, NEW c \in Conn, s.pos <= Len(s.buf), s.pos < 2,
         Greeted(c), c.greeted, AwaitsSize(c, Stream(s, c))
  PROVE  LET r == SizeStatus(s, c) IN
         /\ SameConn(r.conn, c)
         /\ r.rc = 0 => AwaitsEntry(r.conn, Stream(r.segm, r.conn))
         /\ r.rc = 1 => Stream(r.segm, r.conn) = Stream(s, c)
<1> DEFINE q == cgym_recv(s, c, 2)
           t == Stream(q.segm, q.conn)
<1>1. /\ q \in Result /\ q.rc \in 0 .. 2 /\ q.segm.pos <= Len(q.segm.buf)
      /\ q.rc = 0 => Len(q.segm.buf) = 2 /\ q.segm.pos = 0
  BY RecvType, ZenonT(30)
<1>2. /\ SameConn(q.conn, c)
      /\ q.rc = 0 => Stream(s, c) = q.segm.buf \o t /\ q.segm.buf \in Seq(Unit)
      /\ q.rc # 0 => t = Stream(s, c)
  BY RecvStream
<1>3. SizeStatus(s, c) =
        IF q.rc = 0 THEN IF q.segm.buf = OkMsg THEN To(q, "RECV_SIZE_DATA")
                         ELSE Return(To(q, "CONNECTED"), 2)
        ELSE IF q.rc > 1 THEN To(q, "CONNECTED") ELSE q
  BY MessageLengths DEF SizeStatus
<1>4. t \in Seq(Unit) /\ q.conn \in Conn
  BY <1>1, StreamType DEF Result
<1> HIDE DEF q, t
<1>5. CASE q.rc = 0 /\ q.segm.buf = OkMsg
  <2> DEFINE w == To(q, "RECV_SIZE_DATA")
             a == q.segm.buf
  <2>1. w.conn = q.conn /\ w.rc = 0 /\ w.segm.buf = q.segm.buf /\ w.segm.pos = q.segm.pos
    BY <1>1, <1>5, ToType DEF SockStates
  <2>2. a \in Seq(Unit) /\ Len(a) = 2 /\ Stream(s, c) = a \o t
    BY <1>1, <1>2, <1>5
  <2>3. SizeStatus(s, c) = w
    BY <1>3, <1>5
  <2> HIDE DEF w
  <2>4. Stream(w.segm, w.conn) = t
    BY <2>1, SameStream DEF t
  <2>5. ~NotOk(a \o t)
    BY <1>4, <1>5, <2>2, NotOkRead
  <2>6. a \o t # <<>>
    BY <2>5, Words
  <2>7. c.req = NoReq /\ \E v \in Versions : Held(c, v) /\ Begins(a \o t, SizeReply(v))
    BY <2>2, <2>5, <2>6 DEF AwaitsSize
  <2>8. PICK v \in Versions : Held(c, v) /\ Begins(a \o t, SizeReply(v))
    BY <2>7
  <2> DEFINE line == <<Entry(v), CRLF>> \o EndMsg
  <2>9. line \in Seq(Unit) /\ OkMsg \in Seq(Unit) /\ Begins(a \o t, OkMsg \o line)
        /\ Len(a) = Len(OkMsg)
    BY <1>5, <2>8, EntryLineType, MessagesType
  <2> HIDE DEF a, line
  <2>10. Begins(t, line)
    BY <1>4, <2>2, <2>9, BeginsRest
  <2>11. AwaitsEntry(c, t)
    BY <2>7, <2>8, <2>10 DEF AwaitsEntry, line
  <2>12. SameConn(w.conn, c) /\ AwaitsEntry(w.conn, t)
    BY <1>2, <2>1, <2>11, SameExpected
  <2> QED
    BY <2>1, <2>3, <2>4, <2>12
<1>6. CASE q.rc = 0 /\ q.segm.buf # OkMsg
  <2> DEFINE u == To(q, "CONNECTED")
             w == Return(u, 2)
  <2>1. u \in Result /\ u.conn = q.conn
    BY <1>1, ToType DEF SockStates
  <2> HIDE DEF u
  <2>2. w.conn = q.conn /\ w.rc = 2
    BY <2>1, ReturnType
  <2>3. SizeStatus(s, c) = w
    BY <1>3, <1>6 DEF u
  <2> HIDE DEF w
  <2> QED
    BY <1>2, <2>2, <2>3
<1>7. CASE q.rc = 1
  BY <1>2, <1>3, <1>7 DEF t
<1>8. CASE q.rc = 2
  <2> DEFINE u == To(q, "CONNECTED")
  <2>1. u.conn = q.conn /\ u.rc = 2
    BY <1>1, <1>8, ToType DEF SockStates
  <2>2. SizeStatus(s, c) = u
    BY <1>3, <1>8
  <2> HIDE DEF u
  <2> QED
    BY <1>2, <2>1, <2>2
<1> QED
  BY <1>1, <1>5, <1>6, <1>7, <1>8

(* The entry is that of the server's version; what follows its line is no  *)
(* positive status.                                                        *)
LEMMA SizeLineStream ==
  ASSUME NEW s \in Segment, NEW c \in Conn, s.pos <= Len(s.buf), s.pos < MaxLine,
         Greeted(c), c.greeted, AwaitsEntry(c, Stream(s, c))
  PROVE  LET r == SizeLine(s, c) IN
         /\ SameConn(r.conn, c)
         /\ r.rc = 0 => /\ Held(c, LineEntry(s, c))
                        /\ NotOk(Stream(r.segm, r.conn))
         /\ r.rc # 0 => /\ r.rc \in {1, 2}
                        /\ Stream(r.segm, r.conn) = Stream(s, c)
         /\ r.rc = 2 => r.conn.avail \o r.conn.flight = <<>> /\ Eof(c)
<1> DEFINE q == cgym_recv(s, c, MaxLine)
           t == Stream(q.segm, q.conn)
           a == SubSeq(q.segm.buf, 1, q.segm.pos)
           b == q.conn.avail \o q.conn.flight
<1>1. MaxLine \in Nat /\ MaxLine > 3
  BY SockAssumption
<1>2. /\ q \in Result /\ q.rc \in 0 .. 2 /\ q.segm.pos <= Len(q.segm.buf)
      /\ q.rc = 0 => Len(q.segm.buf) = MaxLine
  BY <1>1, RecvType
<1>3. /\ SameConn(q.conn, c)
      /\ q.rc = 0 => Stream(s, c) = q.segm.buf \o t /\ q.segm.buf \in Seq(Unit)
      /\ q.rc # 0 => t = Stream(s, c)
      /\ q.rc = 2 => Eof(c) /\ c.avail = <<>> /\ q.conn = c
  BY <1>1, RecvStream
<1>4. SizeLine(s, c) =
        IF q.rc = 1 /\ HasLine(q.segm)
        THEN IF q.segm.buf[1].kind = "entry" THEN Return(Clear(To(q, "CONNECTED")), 0)
             ELSE Return(q, 5)
        ELSE IF q.rc = 0 THEN Return(q, 4) ELSE q
  BY DEF SizeLine
<1>5. LineEntry(s, c) = q.segm.buf[1].of
  BY DEF LineEntry
<1>6. PICK v \in Versions : Held(c, v) /\ Begins(Stream(s, c), <<Entry(v), CRLF>> \o EndMsg)
  BY DEF AwaitsEntry
<1> DEFINE m == <<Entry(v), CRLF>> \o EndMsg
<1>7. Len(m) = 3 /\ m[1] = Entry(v) /\ m[2] = CRLF /\ m[3] = CRLF /\ m \in Seq(Unit)
  BY EntryLine, EntryLineType
<1> HIDE DEF m
<1>8. Len(Stream(s, c)) <= 3 /\ \A j \in 1 .. Len(Stream(s, c)) : Stream(s, c)[j] = m[j]
  BY <1>6, <1>7 DEF Begins, m
<1>9. /\ q.segm \in Segment /\ q.conn \in Conn /\ t \in Seq(Unit)
      /\ a \in Seq(Unit) /\ Len(a) = q.segm.pos
      /\ q.conn.avail \in Seq(Unit) /\ q.conn.flight \in Seq(Unit)
      /\ t = a \o b
  BY <1>2, StreamType DEF Result
<1>10. b \in Seq(Unit)
  BY <1>9, ConcatProperties
<1> HIDE DEF q, t, a, b
<1>11. q.rc # 0
  <2> SUFFICES ASSUME q.rc = 0 PROVE FALSE
    OBVIOUS
  <2>1. Stream(s, c) = q.segm.buf \o t /\ Len(q.segm.buf) = MaxLine /\ q.segm.buf \in Seq(Unit)
    BY <1>2, <1>3
  <2>2. Len(Stream(s, c)) = Len(q.segm.buf) + Len(t) /\ Len(t) \in Nat
    <3>1. Len(q.segm.buf \o t) = Len(q.segm.buf) + Len(t) /\ Len(t) \in Nat
      <4>1. q.segm.buf \in Seq(Unit) /\ t \in Seq(Unit)
        BY <1>9, <2>1
      <4> QED
        BY <4>1, Joined, Zenon
    <3> QED
      BY <2>1, <3>1, Zenon
  <2> QED
    BY <1>1, <1>8, <2>1, <2>2
<1>12. CASE q.rc = 1 /\ HasLine(q.segm)
  <2>1. q.segm.pos \in Nat \ {0} /\ q.segm.buf \in Seq(Unit)
    BY <1>9, <1>12 DEF HasLine, Segment
  <2>2. a[1] = q.segm.buf[1]
    BY <1>2, <2>1 DEF a
  <2>3. /\ Len(t) = Len(a) + Len(b) /\ Len(a) \in Nat \ {0} /\ Len(b) \in Nat
        /\ \A j \in 1 .. Len(a) + Len(b) : t[j] = IF j <= Len(a) THEN a[j] ELSE b[j - Len(a)]
    <3>1. a \in Seq(Unit) /\ b \in Seq(Unit) /\ t = a \o b /\ Len(a) \in Nat \ {0}
      BY <1>9, <1>10, <2>1
    <3> QED
      BY <3>1, Joined, ZenonT(30)
  <2>4. t = Stream(s, c)
    BY <1>3, <1>12
  <2>5. q.segm.buf[1] = Entry(v)
    <3>1. t[1] = a[1] /\ t[1] = m[1]
      BY <1>8, <2>3, <2>4
    <3> QED
      BY <1>7, <2>2, <3>1
  <2>6. q.segm.buf[1].kind = "entry" /\ q.segm.buf[1].of = v
    BY <2>5 DEF Entry
  <2>7. NotOk(b)
    <3> SUFFICES ASSUME b # <<>> PROVE b[1] # Word("OK")
      BY DEF NotOk
    <3>1. Len(b) \in Nat \ {0}
      BY <1>10, EmptySeq
    <3> DEFINE j == Len(a) + 1
    <3>2. j \in 2 .. 3 /\ j \in 1 .. Len(t) /\ j \in 1 .. Len(a) + Len(b)
          /\ j - Len(a) = 1 /\ ~(j <= Len(a))
      BY <1>8, <2>3, <2>4, <3>1
    <3> HIDE DEF j
    <3>3. t[j] = b[1] /\ t[j] = m[j]
      BY <1>8, <2>3, <2>4, <3>2
    <3>4. m[j] = CRLF
      BY <1>7, <3>2
    <3> QED
      BY <3>3, <3>4, Words
  <2> DEFINE u == To(q, "CONNECTED")
             w == Clear(u)
             x == Return(w, 0)
  <2>8. u \in Result /\ u.conn = q.conn
    BY <1>2, ToType DEF SockStates
  <2>9. SizeLine(s, c) = x
    BY <1>4, <1>12, <2>6
  <2> HIDE DEF u
  <2>10. w \in Result /\ w.conn = q.conn /\ w.segm.pos = 0
    BY <2>8, ClearType
  <2> HIDE DEF w
  <2>11. x.conn = q.conn /\ x.segm.pos = 0 /\ x.rc = 0
    BY <2>10, ReturnType
  <2> HIDE DEF x
  <2>12. Stream(x.segm, x.conn) = b
    BY <1>9, <2>11, StreamAtZero DEF b
  <2>13. SameConn(x.conn, c) /\ Held(c, LineEntry(s, c)) /\ NotOk(Stream(x.segm, x.conn))
    BY <1>3, <1>5, <1>6, <2>6, <2>7, <2>11, <2>12
  <2> QED
    BY <2>9, <2>11, <2>13
<1>13. CASE q.rc = 1 /\ ~HasLine(q.segm)
  BY <1>3, <1>4, <1>13 DEF t
<1>14. CASE q.rc = 2
  <2>1. SizeLine(s, c) = q
    BY <1>4, <1>14
  <2>2. b = <<>>
    BY <1>3, <1>14, Dry DEF b
  <2> QED
    BY <1>3, <1>14, <2>1, <2>2 DEF t, b
<1> QED
  BY <1>2, <1>11, <1>12, <1>13, <1>14

LEMMA DataAfterStatus ==
  ASSUME NEW s \in Segment, NEW c \in Conn, s.pos <= Len(s.buf), s.pos < 2,
         s.state = "RECV_SIZE_REPLY"
  PROVE  SizeStatus(s, c).segm.state = "RECV_SIZE_DATA" => SizeStatus(s, c).rc = 0
<1> DEFINE q == cgym_recv(s, c, 2)
<1>1. q \in Result /\ q.segm.state = "RECV_SIZE_REPLY" /\ q.rc \in 0 .. 2
  BY RecvType
<1>2. SizeStatus(s, c) =
        IF q.rc = 0 THEN IF q.segm.buf = OkMsg THEN To(q, "RECV_SIZE_DATA")
                         ELSE Return(To(q, "CONNECTED"), 2)
        ELSE IF q.rc > 1 THEN To(q, "CONNECTED") ELSE q
  BY MessageLengths DEF SizeStatus
<1> HIDE DEF q
<1>3. /\ To(q, "RECV_SIZE_DATA").rc = q.rc
      /\ To(q, "CONNECTED").segm.state = "CONNECTED"
      /\ Return(To(q, "CONNECTED"), 2).segm = To(q, "CONNECTED").segm
  BY <1>1, ToType, ReturnType DEF SockStates
<1> QED
  BY <1>1, <1>2, <1>3

LEMMA SizeReplyStream ==
  ASSUME NEW s \in Segment, NEW c \in Conn, NEW len \in Nat, PosOK(s, len),
         s.state \in {"RECV_SIZE_REPLY", "RECV_SIZE_DATA"},
         NEW start, NEW stop, Expects(s, c, start, stop)
  PROVE  LET r == cgym_recv_size_reply(s, c) IN
         /\ SameConn(r.conn, c) /\ c.greeted /\ Greeted(c)
         /\ r.rc = 0 => /\ Held(c, SizeReplyEntry(s, c)) /\ c.req = NoReq
                        /\ NotOk(Stream(r.segm, r.conn))
         /\ r.rc # 0 => Expects(r.segm, r.conn, start, stop)
         /\ r.rc = 1 => r.segm.state \in {"RECV_SIZE_REPLY", "RECV_SIZE_DATA"}
         /\ r.rc > 1 => Eof(c) \/ r.segm.state = "CONNECTED"
<1> DEFINE a == AfterSizeStatus(s, c)
           l == SizeLine(a.segm, a.conn)
           b == IF a.segm.state = "RECV_SIZE_DATA" THEN l ELSE a
<1>1. Greeted(c) /\ c.greeted /\ s.pos <= Len(s.buf)
      /\ (s.state = "RECV_SIZE_REPLY" => AwaitsSize(c, Stream(s, c)) /\ s.pos < 2)
      /\ (s.state = "RECV_SIZE_DATA" => AwaitsEntry(c, Stream(s, c)))
  BY DEF Expects, PosOK
<1>2. /\ a \in Result /\ SameConn(a.conn, c)
      /\ a.segm.state \in {"RECV_SIZE_REPLY", "RECV_SIZE_DATA", "CONNECTED"}
      /\ a.segm.state = "RECV_SIZE_DATA" =>
           AwaitsEntry(c, Stream(a.segm, a.conn)) /\ PosOK(a.segm, len)
      /\ a.segm.state = "RECV_SIZE_REPLY" =>
           a.rc = 1 /\ AwaitsSize(c, Stream(a.segm, a.conn))
      /\ a.segm.state = "CONNECTED" => a.rc > 1
  <2>1. CASE s.state = "RECV_SIZE_REPLY"
    <3> DEFINE q == SizeStatus(s, c)
    <3>1. a = q
      BY <2>1 DEF AfterSizeStatus
    <3>2. /\ q \in Result
          /\ q.segm.state \in {"RECV_SIZE_REPLY", "RECV_SIZE_DATA", "CONNECTED"}
          /\ q.segm.state # "CONNECTED" => PosOK(q.segm, len)
          /\ q.segm.state = "RECV_SIZE_REPLY" <=> q.rc = 1
          /\ q.segm.state = "CONNECTED" => q.rc > 1
          /\ q.rc = 0 => q.segm.state = "RECV_SIZE_DATA"
      BY <2>1, SizeStatusType
    <3>3. /\ SameConn(q.conn, c)
          /\ q.rc = 0 => AwaitsEntry(q.conn, Stream(q.segm, q.conn))
          /\ q.rc = 1 => Stream(q.segm, q.conn) = Stream(s, c)
      BY <1>1, <2>1, SizeStatusStream
    <3>4. q.segm.state = "RECV_SIZE_DATA" => q.rc = 0
      <4>1. SizeStatus(s, c).segm.state = "RECV_SIZE_DATA" => SizeStatus(s, c).rc = 0
        BY <1>1, <2>1, DataAfterStatus
      <4> QED
        BY <4>1
    <3> HIDE DEF q, a
    <3> QED
      BY <1>1, <2>1, <3>1, <3>2, <3>3, <3>4, SameExpected
  <2>2. CASE s.state = "RECV_SIZE_DATA"
    <3>1. a = [segm |-> s, conn |-> c, rc |-> 0]
      BY <2>2 DEF AfterSizeStatus
    <3>2. a.segm = s /\ a.conn = c /\ a.rc = 0
      BY <3>1
    <3>3. a \in Result
      BY <3>1 DEF Result
    <3> HIDE DEF a
    <3> QED
      BY <1>1, <2>2, <3>2, <3>3 DEF SameConn
  <2> QED
    BY <2>1, <2>2
<1>3. cgym_recv_size_reply(s, c) = ClearOnError(b)
  BY DEF cgym_recv_size_reply
<1>4. SizeReplyEntry(s, c) = LineEntry(a.segm, a.conn)
  BY DEF SizeReplyEntry
<1> HIDE DEF a
<1>5. a.segm \in Segment /\ a.conn \in Conn
  BY <1>2 DEF Result
<1>6. Greeted(a.conn) /\ a.conn.greeted
  BY <1>1, <1>2, SameExpected DEF SameConn
<1>7. CASE a.segm.state = "RECV_SIZE_DATA"
  <2>1. /\ l \in Result
        /\ l.rc # 0 => l.segm.state = "RECV_SIZE_DATA"
    BY <1>2, <1>5, <1>7, SizeLineType
  <2>2. AwaitsEntry(a.conn, Stream(a.segm, a.conn)) /\ AwaitsEntry(c, Stream(a.segm, a.conn))
    BY <1>2, <1>7, SameExpected
  <2>3. a.segm.pos <= Len(a.segm.buf) /\ a.segm.pos < MaxLine
    BY <1>2, <1>7 DEF PosOK
  <2>4. /\ SameConn(l.conn, a.conn)
        /\ l.rc = 0 => /\ Held(a.conn, LineEntry(a.segm, a.conn))
                       /\ NotOk(Stream(l.segm, l.conn))
        /\ l.rc # 0 => /\ l.rc \in {1, 2}
                       /\ Stream(l.segm, l.conn) = Stream(a.segm, a.conn)
        /\ l.rc = 2 => l.conn.avail \o l.conn.flight = <<>> /\ Eof(a.conn)
    BY <1>5, <1>6, <2>2, <2>3, SizeLineStream
  <2>5. b = l
    BY <1>7
  <2> HIDE DEF l, b
  <2>6. SameConn(l.conn, c) /\ c.req = NoReq
    BY <1>2, <2>2, <2>4 DEF SameConn, AwaitsEntry
  <2>7. CASE l.rc = 0
    <3>1. ClearOnError(b) = l
      BY <2>5, <2>7 DEF ClearOnError
    <3>2. Held(c, SizeReplyEntry(s, c))
      BY <1>2, <1>4, <2>4, <2>7, SameExpected
    <3> QED
      BY <1>1, <1>3, <2>4, <2>6, <2>7, <3>1, <3>2
  <2>8. CASE l.rc = 1
    <3>1. ClearOnError(b) = l
      BY <2>5, <2>8 DEF ClearOnError
    <3>2. Expects(l.segm, l.conn, start, stop)
      <4>1. l.conn.greeted /\ Greeted(l.conn)
        BY <1>1, <2>6, SameExpected DEF SameConn
      <4>2. AwaitsEntry(c, Stream(l.segm, l.conn))
        BY <2>2, <2>4, <2>8
      <4>3. AwaitsEntry(l.conn, Stream(l.segm, l.conn))
        BY <2>6, <4>2, SameExpected
      <4> QED
        BY <2>1, <2>8, <4>1, <4>3 DEF Expects
    <3> QED
      BY <1>1, <1>3, <2>1, <2>6, <2>8, <3>1, <3>2
  <2>9. CASE l.rc = 2
    <3> DEFINE w == Clear(l)
    <3>1. ClearOnError(b) = w
      BY <2>5, <2>9 DEF ClearOnError
    <3>2. /\ w.conn = l.conn /\ w.segm.pos = 0 /\ w.rc = 2
          /\ w.segm.state = "RECV_SIZE_DATA"
      BY <2>1, <2>9, ClearType
    <3> HIDE DEF w
    <3>3. l.conn \in Conn
      BY <2>1 DEF Result
    <3>4. Stream(w.segm, w.conn) = <<>>
      BY <2>4, <2>9, <3>2, <3>3, StreamAtZero
    <3>5. AwaitsEntry(c, <<>>)
      BY <2>2, EntryLineType, BeginsEmpty DEF AwaitsEntry
    <3>6. Expects(w.segm, w.conn, start, stop)
      <4>1. w.conn.greeted /\ Greeted(w.conn)
        BY <1>1, <2>6, <3>2, SameExpected DEF SameConn
      <4>2. AwaitsEntry(w.conn, <<>>)
        BY <2>6, <3>2, <3>5, SameExpected
      <4> QED
        BY <3>2, <3>4, <4>1, <4>2 DEF Expects
    <3>7. Eof(c)
      BY <1>2, <2>4, <2>9 DEF SameConn, Eof
    <3> QED
      BY <1>1, <1>3, <2>6, <3>1, <3>2, <3>6, <3>7
  <2> QED
    BY <2>4, <2>7, <2>8, <2>9
<1>8. CASE a.segm.state # "RECV_SIZE_DATA"
  <2>1. b = a /\ a.rc # 0
    BY <1>2, <1>8
  <2> HIDE DEF b
  <2>2. CASE a.segm.state = "RECV_SIZE_REPLY"
    <3>1. ClearOnError(b) = a
      BY <1>2, <2>1, <2>2 DEF ClearOnError
    <3>2. Expects(a.segm, a.conn, start, stop)
      BY <1>1, <1>2, <1>6, <2>2, SameExpected DEF Expects
    <3> QED
      <4>1. a.rc = 1
        BY <1>2, <2>2
      <4> QED
        BY <1>1, <1>2, <1>3, <2>2, <3>1, <3>2, <4>1
  <2>3. CASE a.segm.state = "CONNECTED"
    <3> DEFINE w == Clear(a)
    <3>1. ClearOnError(b) = w
      BY <1>2, <2>1, <2>3 DEF ClearOnError
    <3>2. w.conn = a.conn /\ w.rc = a.rc /\ w.segm.state = "CONNECTED"
      BY <1>2, <2>3, ClearType
    <3> HIDE DEF w
    <3>3. Expects(w.segm, w.conn, start, stop)
      BY <1>6, <3>2 DEF Expects
    <3> QED
      <4>1. w.rc > 1
        BY <1>2, <2>3, <3>2
      <4> QED
        BY <1>1, <1>2, <1>3, <3>1, <3>2, <3>3, <4>1
  <2> QED
    BY <1>2, <1>8, <2>2, <2>3
<1> QED
  BY <1>7, <1>8

LEMMA StatusRead ==
  ASSUME NEW s \in Segment, NEW c \in Conn, s.pos <= Len(s.buf), s.pos < 2
  PROVE  LET q == cgym_recv(s, c, 2) IN
         /\ q \in Result /\ q.rc \in 0 .. 2 /\ q.segm.pos <= Len(q.segm.buf)
         /\ q.rc = 0 => Len(q.segm.buf) = 2 /\ q.segm.pos = 0
         /\ q.segm.state = s.state
         /\ SameConn(q.conn, c)
         /\ q.rc = 0 => /\ Stream(s, c) = q.segm.buf \o Stream(q.segm, q.conn)
                        /\ q.segm.buf \in Seq(Unit)
         /\ q.rc # 0 => Stream(q.segm, q.conn) = Stream(s, c)
<1> DEFINE q == cgym_recv(s, c, 2)
<1>1. /\ q \in Result /\ q.rc \in 0 .. 2 /\ q.segm.pos <= Len(q.segm.buf)
      /\ q.rc = 0 => Len(q.segm.buf) = 2 /\ q.segm.pos = 0
      /\ q.segm.state = s.state
  BY RecvType, ZenonT(30)
<1>2. /\ SameConn(q.conn, c)
      /\ q.rc = 0 => /\ Stream(s, c) = q.segm.buf \o Stream(q.segm, q.conn)
                     /\ q.segm.buf \in Seq(Unit)
      /\ q.rc # 0 => Stream(q.segm, q.conn) = Stream(s, c)
  BY RecvStream
<1> QED
  BY <1>1, <1>2

-----------------------------------------------------------------------------
(* The reply to GET.                                                       *)
LEMMA PieceType ==
  ASSUME NEW v \in Versions, NEW start \in Nat, NEW stop \in Nat, start < stop
  PROVE  /\ Slice(v, start, stop) \o EndMsg \in Seq(Unit)
         /\ Len(Slice(v, start, stop) \o EndMsg) = stop - start + 1
         /\ (Slice(v, start, stop) \o EndMsg)[stop - start + 1] = CRLF
         /\ GetReply(v, start, stop) = OkMsg \o (Slice(v, start, stop) \o EndMsg)
<1> DEFINE b == Slice(v, start, stop)
<1>1. b \in Seq(Unit) /\ OkMsg \in Seq(Unit) /\ EndMsg \in Seq(Unit)
  BY SliceType, MessagesType
<1>2. stop - start \in Nat /\ Len(b) = stop - start
  BY DEF Slice
<1>3. GetReply(v, start, stop) = (OkMsg \o b) \o EndMsg
  BY DEF GetReply
<1> HIDE DEF b
<1>4. (OkMsg \o b) \o EndMsg = OkMsg \o (b \o EndMsg)
  BY <1>1, Regroup
<1>5. Len(EndMsg) = 1 /\ EndMsg[1] = CRLF
  BY DEF EndMsg
<1>6. /\ b \o EndMsg \in Seq(Unit) /\ Len(b \o EndMsg) = Len(b) + Len(EndMsg)
      /\ \A j \in 1 .. Len(b) + Len(EndMsg) :
           (b \o EndMsg)[j] = IF j <= Len(b) THEN b[j] ELSE EndMsg[j - Len(b)]
  BY <1>1, Joined
<1>7. (b \o EndMsg)[stop - start + 1] = CRLF
  BY <1>2, <1>5, <1>6
<1> QED
  BY <1>2, <1>3, <1>4, <1>5, <1>6, <1>7 DEF b

LEMMA GetStatusStream ==
  ASSUME NEW s \in Segment, NEW c \in Conn, s.pos <= Len(s.buf), s.pos < 2,
         s.state = "RECV_GET_REPLY", s.status # "DONE",
         NEW start \in Nat, NEW stop \in Nat, start < stop,
         Greeted(c), c.greeted, AwaitsGet(c, Stream(s, c), start, stop)
  PROVE  LET r == GetStatus(s, c) IN
         /\ SameConn(r.conn, c)
         /\ r.segm.state = "RECV_GET_DATA" =>
              AwaitsBytes(c, Stream(r.segm, r.conn), start, stop)
         /\ r.rc = 1 => Stream(r.segm, r.conn) = Stream(s, c)
<1> DEFINE q == cgym_recv(s, c, 2)
           t == Stream(q.segm, q.conn)
<1>1. /\ q \in Result /\ q.rc \in 0 .. 2 /\ q.segm.pos <= Len(q.segm.buf)
      /\ q.rc = 0 => Len(q.segm.buf) = 2 /\ q.segm.pos = 0
      /\ q.segm.state = "RECV_GET_REPLY"
  BY StatusRead
<1>2. /\ SameConn(q.conn, c)
      /\ q.rc = 0 => Stream(s, c) = q.segm.buf \o t /\ q.segm.buf \in Seq(Unit)
      /\ q.rc # 0 => t = Stream(s, c)
  BY StatusRead
<1>3. GetStatus(s, c) =
        IF q.rc = 0
        THEN IF q.segm.buf = OkMsg THEN Mark(To(q, "RECV_GET_DATA"), "STARTED")
             ELSE Return(To(q, "CONNECTED"), 2)
        ELSE IF q.rc > 1 THEN Mark(To(q, "CONNECTED"), "IDLE") ELSE q
  BY MessageLengths DEF GetStatus
<1>4. t \in Seq(Unit) /\ q.conn \in Conn
  BY <1>1, StreamType DEF Result
<1> HIDE DEF q, t
<1>5. CASE q.rc = 0 /\ q.segm.buf = OkMsg
  <2> DEFINE u == To(q, "RECV_GET_DATA")
             w == Mark(u, "STARTED")
             a == q.segm.buf
  <2>1. u \in Result /\ u.conn = q.conn /\ u.rc = 0
        /\ u.segm.buf = q.segm.buf /\ u.segm.pos = q.segm.pos
    BY <1>1, <1>5, ToType DEF SockStates
  <2>2. a \in Seq(Unit) /\ Len(a) = 2 /\ Stream(s, c) = a \o t
    BY <1>1, <1>2, <1>5
  <2>3. GetStatus(s, c) = w
    BY <1>3, <1>5
  <2> HIDE DEF u
  <2>4. w.conn = q.conn /\ w.rc = 0
        /\ w.segm.buf = q.segm.buf /\ w.segm.pos = q.segm.pos
    BY <2>1, MarkType DEF Statuses
  <2> HIDE DEF w
  <2>5. Stream(w.segm, w.conn) = t
    BY <2>4, SameStream DEF t
  <2>6. ~NotOk(a \o t)
    BY <1>4, <1>5, <2>2, NotOkRead
  <2>7. c.req = NoReq
        /\ \E v \in Versions : Held(c, v) /\ Begins(a \o t, GetReply(v, start, stop))
    BY <2>2, <2>6 DEF AwaitsGet
  <2>8. PICK v \in Versions : Held(c, v) /\ Begins(a \o t, GetReply(v, start, stop))
    BY <2>7
  <2> DEFINE m == Slice(v, start, stop) \o EndMsg
  <2>9. m \in Seq(Unit) /\ OkMsg \in Seq(Unit) /\ Begins(a \o t, OkMsg \o m)
        /\ Len(a) = Len(OkMsg)
    BY <1>5, <2>8, PieceType, MessagesType
  <2> HIDE DEF a, m
  <2>10. Begins(t, m)
    BY <1>4, <2>2, <2>9, BeginsRest
  <2>11. AwaitsBytes(c, t, start, stop)
    BY <2>7, <2>8, <2>10 DEF AwaitsBytes, m
  <2>12. SameConn(w.conn, c)
    BY <1>2, <2>4
  <2> QED
    BY <2>3, <2>4, <2>5, <2>11, <2>12
<1>6. CASE q.rc = 0 /\ q.segm.buf # OkMsg
  <2> DEFINE u == To(q, "CONNECTED")
             w == Return(u, 2)
  <2>1. u \in Result /\ u.conn = q.conn /\ u.segm.state = "CONNECTED"
    BY <1>1, ToType DEF SockStates
  <2> HIDE DEF u
  <2>2. w.conn = q.conn /\ w.rc = 2 /\ w.segm.state = "CONNECTED"
    BY <2>1, ReturnType
  <2>3. GetStatus(s, c) = w
    BY <1>3, <1>6 DEF u
  <2> HIDE DEF w
  <2>4. SameConn(w.conn, c)
    BY <1>2, <2>2
  <2> QED
    BY <2>2, <2>3, <2>4
<1>7. CASE q.rc = 1
  BY <1>1, <1>2, <1>3, <1>7 DEF t
<1>8. CASE q.rc = 2
  <2> DEFINE u == To(q, "CONNECTED")
             w == Mark(u, "IDLE")
  <2>1. u \in Result /\ u.conn = q.conn /\ u.segm.state = "CONNECTED" /\ u.rc = 2
    BY <1>1, <1>8, ToType DEF SockStates
  <2> HIDE DEF u
  <2>2. w.conn = q.conn /\ w.rc = 2 /\ w.segm.state = "CONNECTED"
    BY <2>1, MarkType DEF Statuses
  <2>3. GetStatus(s, c) = w
    BY <1>3, <1>8 DEF u
  <2> HIDE DEF w
  <2>4. SameConn(w.conn, c)
    BY <1>2, <2>2
  <2> QED
    BY <2>2, <2>3, <2>4
<1> QED
  BY <1>1, <1>5, <1>6, <1>7, <1>8

(* The bytes and the end of line are those of one version.                 *)
LEMMA GetDataStream ==
  ASSUME NEW s \in Segment, NEW c \in Conn,
         NEW start \in Nat, NEW stop \in Nat, start < stop,
         s.pos <= Len(s.buf), s.pos < stop - start + 1,
         s.state = "RECV_GET_DATA",
         Greeted(c), c.greeted, AwaitsBytes(c, Stream(s, c), start, stop)
  PROVE  LET r == GetData(s, c, stop - start) IN
         /\ SameConn(r.conn, c)
         /\ r.rc = 0 => \E v \in Versions :
              Held(c, v) /\ r.segm.buf = Slice(v, start, stop) \o EndMsg
         /\ r.rc # 0 => /\ r.segm.state = "RECV_GET_DATA"
                        /\ Stream(r.segm, r.conn) = Stream(s, c)
         /\ r.rc > 1 => r.conn.avail \o r.conn.flight = <<>> /\ Eof(c)
<1> DEFINE len == stop - start
           q == cgym_recv(s, c, len + 1)
           t == Stream(q.segm, q.conn)
<1>1. len \in Nat /\ len + 1 \in Nat /\ s.pos < len + 1
  OBVIOUS
<1>2. GetData(s, c, len) =
        IF q.rc = 0 THEN IF q.segm.buf[len + 1] = CRLF
                         THEN Mark(To(q, "CONNECTED"), "DONE") ELSE Return(q, 5)
        ELSE IF q.rc > 1 THEN Return(Mark(q, "IDLE"), 4) ELSE q
  BY DEF GetData
<1>3. PICK v \in Versions :
        Held(c, v) /\ Begins(Stream(s, c), Slice(v, start, stop) \o EndMsg)
  BY DEF AwaitsBytes
<1> DEFINE m == Slice(v, start, stop) \o EndMsg
<1>4. m \in Seq(Unit) /\ Len(m) = len + 1 /\ m[len + 1] = CRLF
  BY PieceType
<1>5. Begins(Stream(s, c), m)
  BY <1>3
<1> HIDE DEF len, m
<1>6. /\ q \in Result /\ q.rc \in 0 .. 2 /\ q.segm.pos <= Len(q.segm.buf)
      /\ q.rc = 0 => Len(q.segm.buf) = len + 1
      /\ q.segm.state = "RECV_GET_DATA"
  BY <1>1, RecvType
<1>7. /\ SameConn(q.conn, c)
      /\ q.rc = 0 => Stream(s, c) = q.segm.buf \o t /\ q.segm.buf \in Seq(Unit)
      /\ q.rc # 0 => t = Stream(s, c)
      /\ q.rc = 2 => Eof(c) /\ c.avail = <<>> /\ q.conn = c
  BY <1>1, RecvStream
<1>8. t \in Seq(Unit) /\ q.conn \in Conn
  BY <1>6, StreamType DEF Result
<1> HIDE DEF q, t
<1>9. CASE q.rc = 0
  <2> DEFINE a == q.segm.buf
  <2>1. a \in Seq(Unit) /\ Len(a) = len + 1 /\ Begins(a \o t, m \o <<>>)
    BY <1>4, <1>5, <1>6, <1>7, <1>9, ConcatEmptySeq
  <2>2. <<>> \in Seq(Unit) /\ Len(a) = Len(m)
    BY <1>4, <2>1, EmptySeq
  <2> HIDE DEF a
  <2>3. a = m
    BY <1>4, <1>8, <2>1, <2>2, BeginsRest
  <2>4. a[len + 1] = CRLF
    BY <1>4, <2>3
  <2> DEFINE u == To(q, "CONNECTED")
             w == Mark(u, "DONE")
  <2>5. u \in Result /\ u.conn = q.conn /\ u.segm.buf = a /\ u.rc = 0
    BY <1>6, <1>9, ToType DEF SockStates, a
  <2>6. GetData(s, c, len) = w
    BY <1>2, <1>9, <2>4 DEF a
  <2> HIDE DEF u
  <2>7. w.conn = q.conn /\ w.segm.buf = a /\ w.rc = 0
    BY <2>5, MarkType DEF Statuses
  <2> HIDE DEF w
  <2>8. SameConn(w.conn, c) /\ w.segm.buf = Slice(v, start, stop) \o EndMsg
    BY <1>7, <2>3, <2>7 DEF m
  <2>9. \E x \in Versions : Held(c, x) /\ w.segm.buf = Slice(x, start, stop) \o EndMsg
    BY <1>3, <2>8
  <2> QED
    BY <2>6, <2>7, <2>8, <2>9 DEF len
<1>10. CASE q.rc = 1
  <2>1. GetData(s, c, len) = q
    BY <1>2, <1>10
  <2> QED
    BY <1>6, <1>7, <1>10, <2>1 DEF len, t
<1>11. CASE q.rc = 2
  <2> DEFINE u == Mark(q, "IDLE")
             w == Return(u, 4)
  <2>1. u \in Result /\ u.conn = q.conn /\ u.segm.state = q.segm.state
        /\ u.segm.buf = q.segm.buf /\ u.segm.pos = q.segm.pos
    BY <1>6, MarkType DEF Statuses
  <2>2. GetData(s, c, len) = w
    BY <1>2, <1>11
  <2> HIDE DEF u
  <2>3. w.conn = q.conn /\ w.segm = u.segm /\ w.rc = 4
    BY <2>1, ReturnType
  <2> HIDE DEF w
  <2>4. Stream(w.segm, w.conn) = t
    BY <2>1, <2>3, SameStream DEF t
  <2>5. w.conn.avail \o w.conn.flight = <<>>
    BY <1>7, <1>11, <2>3, Dry
  <2>6. SameConn(w.conn, c) /\ w.segm.state = "RECV_GET_DATA"
        /\ Stream(w.segm, w.conn) = Stream(s, c)
    BY <1>6, <1>7, <1>11, <2>1, <2>3, <2>4
  <2> QED
    BY <1>7, <1>11, <2>2, <2>3, <2>5, <2>6 DEF len
<1>12. q.rc = 0 \/ q.rc = 1 \/ q.rc = 2
  BY <1>6
<1> QED
  BY <1>9, <1>10, <1>11, <1>12, Zenon

LEMMA GetReplyStream ==
  ASSUME NEW s \in Segment, NEW c \in Conn,
         NEW start \in Nat, NEW stop \in Nat, start < stop,
         PosOK(s, stop - start), s.status # "DONE",
         s.state \in {"RECV_GET_REPLY", "RECV_GET_DATA"},
         Expects(s, c, start, stop)
  PROVE  LET r == cgym_recv_get_reply(s, c, stop - start) IN
         /\ SameConn(r.conn, c) /\ SameAsFirst(c)
         /\ r.rc = 0 => \E v \in Versions :
              Held(c, v) /\ r.segm.buf = Slice(v, start, stop) \o EndMsg
         /\ r.rc # 0 => Expects(r.segm, r.conn, start, stop)
         /\ r.rc = 1 => r.segm.state \in {"RECV_GET_REPLY", "RECV_GET_DATA"}
         /\ r.rc > 1 => Eof(c) \/ r.segm.state = "CONNECTED"
<1> DEFINE len == stop - start
           a == AfterGetStatus(s, c)
           l == GetData(a.segm, a.conn, len)
           b == IF a.segm.state = "RECV_GET_DATA" THEN l ELSE a
<1>1. Greeted(c) /\ c.greeted /\ SameAsFirst(c) /\ s.pos <= Len(s.buf)
      /\ (s.state = "RECV_GET_REPLY" =>
            AwaitsGet(c, Stream(s, c), start, stop) /\ s.pos < 2)
      /\ (s.state = "RECV_GET_DATA" => AwaitsBytes(c, Stream(s, c), start, stop))
  BY DEF Expects, PosOK
<1>2. len \in Nat
  OBVIOUS
<1>3. /\ a \in Result /\ SameConn(a.conn, c) /\ a.segm.status # "DONE"
      /\ a.segm.state \in {"RECV_GET_REPLY", "RECV_GET_DATA", "CONNECTED"}
      /\ a.segm.state = "RECV_GET_DATA" =>
           AwaitsBytes(c, Stream(a.segm, a.conn), start, stop) /\ PosOK(a.segm, len)
      /\ a.segm.state = "RECV_GET_REPLY" =>
           a.rc = 1 /\ AwaitsGet(c, Stream(a.segm, a.conn), start, stop)
      /\ a.segm.state = "CONNECTED" => a.rc > 1
  <2>1. CASE s.state = "RECV_GET_REPLY"
    <3> DEFINE q == GetStatus(s, c)
    <3>1. a = q
      BY <2>1 DEF AfterGetStatus
    <3>2. /\ q \in Result /\ q.segm.status # "DONE"
          /\ q.segm.state \in {"RECV_GET_REPLY", "RECV_GET_DATA", "CONNECTED"}
          /\ q.segm.state # "CONNECTED" => PosOK(q.segm, len)
          /\ q.segm.state = "RECV_GET_REPLY" => q.rc = 1
          /\ q.segm.state = "CONNECTED" => q.rc > 1
      BY <1>2, <2>1, GetStatusType
    <3>3. /\ SameConn(q.conn, c)
          /\ q.segm.state = "RECV_GET_DATA" =>
               AwaitsBytes(c, Stream(q.segm, q.conn), start, stop)
          /\ q.rc = 1 => Stream(q.segm, q.conn) = Stream(s, c)
      BY <1>1, <2>1, GetStatusStream
    <3> HIDE DEF q, a
    <3> QED
      BY <1>1, <2>1, <3>1, <3>2, <3>3
  <2>2. CASE s.state = "RECV_GET_DATA"
    <3>1. a = [segm |-> s, conn |-> c, rc |-> 0]
      BY <2>2 DEF AfterGetStatus
    <3>2. a.segm = s /\ a.conn = c /\ a.rc = 0
      BY <3>1
    <3>3. a \in Result
      BY <3>1 DEF Result
    <3> HIDE DEF a
    <3> QED
      BY <1>1, <2>2, <3>2, <3>3 DEF SameConn
  <2> QED
    BY <2>1, <2>2
<1>4. cgym_recv_get_reply(s, c, len) = ClearOnError(b)
  BY DEF cgym_recv_get_reply
<1> HIDE DEF a
<1>5. a.segm \in Segment /\ a.conn \in Conn
  BY <1>3 DEF Result
<1>6. Greeted(a.conn) /\ a.conn.greeted /\ SameAsFirst(a.conn)
  BY <1>1, <1>3, SameExpected DEF SameConn
<1>7. CASE a.segm.state = "RECV_GET_DATA"
  <2>1. l \in Result
    BY <1>2, <1>3, <1>5, <1>7, GetDataType
  <2> HIDE DEF l, b, len
  <2>2. AwaitsBytes(a.conn, Stream(a.segm, a.conn), start, stop)
    <3> DEFINE t == Stream(a.segm, a.conn)
    <3>1. SameConn(a.conn, c) /\ AwaitsBytes(c, t, start, stop)
      BY <1>3, <1>7
    <3> HIDE DEF t
    <3>2. AwaitsBytes(a.conn, t, start, stop)
      BY <3>1, SameExpected
    <3> QED
      BY <3>2 DEF t
  <2>3. a.segm.pos <= Len(a.segm.buf) /\ a.segm.pos < len + 1
    BY <1>3, <1>7 DEF PosOK
  <2>4. /\ SameConn(l.conn, a.conn)
        /\ l.rc = 0 => \E v \in Versions :
             Held(a.conn, v) /\ l.segm.buf = Slice(v, start, stop) \o EndMsg
        /\ l.rc # 0 => /\ l.segm.state = "RECV_GET_DATA"
                       /\ Stream(l.segm, l.conn) = Stream(a.segm, a.conn)
        /\ l.rc > 1 => l.conn.avail \o l.conn.flight = <<>> /\ Eof(a.conn)
    BY <1>5, <1>6, <1>7, <2>2, <2>3, GetDataStream DEF l, len
  <2>5. b = l
    BY <1>7 DEF b
  <2>6. SameConn(l.conn, c)
    BY <1>3, <2>4 DEF SameConn
  <2>7. CASE l.rc = 0
    <3>1. ClearOnError(b) = l
      BY <2>5, <2>7 DEF ClearOnError
    <3>2. \E v \in Versions : Held(c, v) /\ l.segm.buf = Slice(v, start, stop) \o EndMsg
      BY <1>3, <2>4, <2>7, SameExpected
    <3>3. cgym_recv_get_reply(s, c, len) = l
      BY <1>4, <3>1
    <3> QED
      BY <1>1, <2>6, <2>7, <3>2, <3>3 DEF len
  <2>8. CASE l.rc = 1
    <3>1. ClearOnError(b) = l
      BY <2>5, <2>8 DEF ClearOnError
    <3>2. l.conn.greeted /\ Greeted(l.conn) /\ SameAsFirst(l.conn)
      BY <1>1, <2>6, SameExpected DEF SameConn
    <3>3. AwaitsBytes(l.conn, Stream(l.segm, l.conn), start, stop)
      BY <2>2, <2>4, <2>8, SameExpected
    <3>4. Expects(l.segm, l.conn, start, stop)
      BY <2>4, <2>8, <3>2, <3>3 DEF Expects
    <3>5. cgym_recv_get_reply(s, c, len) = l
      BY <1>4, <3>1
    <3> QED
      BY <1>1, <2>4, <2>6, <2>8, <3>4, <3>5 DEF len
  <2>9. CASE l.rc > 1
    <3> DEFINE w == Clear(l)
    <3>1. ClearOnError(b) = w
      BY <2>5, <2>9 DEF ClearOnError
    <3>2. /\ w.conn = l.conn /\ w.segm.pos = 0 /\ w.rc # 0
          /\ w.segm.state = "RECV_GET_DATA"
      <4>1. l.rc # 0
        BY <2>9
      <4> QED
        BY <2>1, <2>4, <4>1, ClearType
    <3>3. cgym_recv_get_reply(s, c, len) = w
      BY <1>4, <3>1
    <3> HIDE DEF w
    <3>4. l.conn \in Conn
      BY <2>1 DEF Result
    <3>5. Stream(w.segm, w.conn) = <<>>
      BY <2>4, <2>9, <3>2, <3>4, StreamAtZero
    <3>6. AwaitsBytes(c, <<>>, start, stop)
      <4>1. AwaitsBytes(c, Stream(a.segm, a.conn), start, stop)
        BY <1>3, <1>7
      <4> QED
        BY <4>1, PieceType, BeginsEmpty DEF AwaitsBytes
    <3>7. AwaitsBytes(l.conn, <<>>, start, stop)
      BY <2>6, <3>6, SameExpected
    <3>8. l.conn.greeted /\ Greeted(l.conn) /\ SameAsFirst(l.conn)
      BY <1>1, <2>6, SameExpected DEF SameConn
    <3>9. Expects(w.segm, w.conn, start, stop)
      BY <3>2, <3>5, <3>7, <3>8 DEF Expects
    <3>10. Eof(c)
      BY <1>3, <2>4, <2>9 DEF SameConn, Eof
    <3> QED
      BY <1>1, <2>6, <2>9, <3>2, <3>3, <3>9, <3>10 DEF len
  <2>10. l.rc = 0 \/ l.rc = 1 \/ l.rc > 1
    BY <2>1 DEF Result
  <2> QED
    BY <2>7, <2>8, <2>9, <2>10, Zenon
<1>8. CASE a.segm.state # "RECV_GET_DATA"
  <2>1. b = a
    BY <1>8
  <2> HIDE DEF b, len
  <2>2. CASE a.segm.state = "RECV_GET_REPLY"
    <3>1. ClearOnError(b) = a
      BY <1>3, <2>1, <2>2 DEF ClearOnError
    <3>2. AwaitsGet(a.conn, Stream(a.segm, a.conn), start, stop)
      BY <1>3, <2>2, SameExpected
    <3>3. Expects(a.segm, a.conn, start, stop)
      BY <1>6, <2>2, <3>2 DEF Expects
    <3>4. cgym_recv_get_reply(s, c, len) = a /\ a.rc = 1
      BY <1>3, <1>4, <2>2, <3>1
    <3> QED
      BY <1>1, <1>3, <3>3, <3>4 DEF len
  <2>3. CASE a.segm.state = "CONNECTED"
    <3> DEFINE w == Clear(a)
    <3>1. ClearOnError(b) = w
      BY <1>3, <2>1, <2>3 DEF ClearOnError
    <3>2. w.conn = a.conn /\ w.rc # 0 /\ w.segm.state = "CONNECTED"
      BY <1>3, <2>3, ClearType
    <3>3. cgym_recv_get_reply(s, c, len) = w
      BY <1>4, <3>1
    <3> HIDE DEF w
    <3>4. Expects(w.segm, w.conn, start, stop)
      BY <1>6, <3>2 DEF Expects
    <3>5. w.rc > 1
      <4>1. a.rc > 1 /\ w.rc = a.rc
        BY <1>3, <2>3, ClearType DEF w
      <4> QED
        BY <4>1
    <3> QED
      BY <1>1, <1>3, <3>2, <3>3, <3>4, <3>5 DEF len
  <2> QED
    BY <1>3, <1>8, <2>2, <2>3
<1> QED
  BY <1>7, <1>8

-----------------------------------------------------------------------------
(***************************************************************************)
(* Every step of CgymGet keeps StreamInv.  Hence a finished segment holds  *)
(* one contiguous piece of one version, and, while no file is changed, the *)
(* segments are the file described.                                        *)
(***************************************************************************)

(* What StreamInv says of segment k, of any record and connection.         *)
Right(k, s, c) ==
  IF Done(s) THEN OneVersion(s.buf, Start(k - 1), Stop(k - 1))
             ELSE Expects(s, c, Start(k - 1), Stop(k - 1))

Good(sg, cn) == \A k \in 1 .. Len(sg) : Right(k, sg[k], cn[sg[k].fd])

LEMMA NowGood ==
  ASSUME StreamInv
  PROVE  Good(segm, conn)
  BY DEF StreamInv, Good, Right

LEMMA NextStream ==
  ASSUME UNCHANGED <<e, cur, edits>>, Good(segm', conn'),
         pc' = "plan" => AtRest(conn'[segm'[1].fd], Stream(segm'[1], conn'[segm'[1].fd]))
  PROVE  StreamInv'
<1>1. \A k : Start(k)' = Start(k) /\ Stop(k)' = Stop(k)
  BY DEF Start, Stop, NrSegments
<1>2. ASSUME NEW k \in 1 .. Len(segm')
      PROVE  (IF Done(segm[k])
              THEN OneVersion(segm[k].buf, Start(k - 1), Stop(k - 1))
              ELSE Expects(segm[k], conn[segm[k].fd], Start(k - 1), Stop(k - 1)))'
  <2>1. Right(k, segm'[k], conn'[segm'[k].fd])
    BY <1>2 DEF Good
  <2>2. CASE segm'[k].status = "DONE"
    BY <1>1, <2>1, <2>2 DEF Right, Done, OneVersion
  <2>3. CASE segm'[k].status # "DONE"
    <3>1. Expects(segm'[k], conn'[segm'[k].fd], Start(k - 1), Stop(k - 1))
      BY <2>1, <2>3 DEF Right, Done
    <3>2. Expects(segm[k], conn[segm[k].fd], Start(k - 1), Stop(k - 1))'
      BY <1>1, <3>1 DEF Expects, Greeted, AwaitsGreeting, AwaitsSize, AwaitsEntry,
         AwaitsGet, AwaitsBytes, Held, SameAsFirst, NotOk, Stream
    <3> QED
      BY <2>3, <3>2 DEF Done
  <2> QED
    BY <2>2, <2>3
<1>3. (pc = "plan" => AtRest(conn[segm[1].fd], Stream(segm[1], conn[segm[1].fd])))'
  BY DEF AtRest, SameAsFirst, NotOk, Stream
<1> QED
  BY <1>2, <1>3 DEF StreamInv

(* A step of the client changes no file.                                   *)
LEMMA NextGood ==
  ASSUME UNCHANGED <<e, cur, edits>>, Good(segm', conn'), pc' # "plan"
  PROVE  StreamInv'
  BY NextStream

-----------------------------------------------------------------------------
(* One segment changes with its connection.                                *)
LEMMA GoodReplace ==
  ASSUME NEW sg, NEW cn, Sound(sg, cn), Good(sg, cn),
         NEW k \in 1 .. Len(sg), NEW t \in Segment, NEW c \in Conn,
         t.fd = sg[k].fd, Right(k, t, c)
  PROVE  Good([sg EXCEPT ![k] = t], [cn EXCEPT ![t.fd] = c])
<1> DEFINE ts == [sg EXCEPT ![k] = t]
           cs == [cn EXCEPT ![t.fd] = c]
<1>1. /\ sg \in Seq(Segment) /\ cn \in [Fds -> Conn]
      /\ \A i1, j1 \in 1 .. Len(sg) : sg[i1].fd = sg[j1].fd => i1 = j1
  BY DEF Sound
<1>2. /\ Len(ts) = Len(sg)
      /\ \A j \in 1 .. Len(sg) : ts[j] = IF j = k THEN t ELSE sg[j]
  BY <1>1, ExceptSeq
<1>3. t.fd \in Fds
  BY DEF Segment
<1>4. \A f \in Fds : cs[f] = IF f = t.fd THEN c ELSE cn[f]
  BY <1>1
<1> HIDE DEF ts, cs
<1>5. ASSUME NEW j \in 1 .. Len(ts)
      PROVE  Right(j, ts[j], cs[ts[j].fd])
  <2>1. CASE j = k
    BY <1>2, <1>3, <1>4, <2>1
  <2>2. CASE j # k
    <3>1. sg[j] \in Segment
      BY <1>1, <1>2
    <3>2. ts[j] = sg[j] /\ sg[j].fd # t.fd /\ sg[j].fd \in Fds
      BY <1>1, <1>2, <2>2, <3>1 DEF Segment
    <3>3. cs[ts[j].fd] = cn[sg[j].fd]
      BY <1>4, <3>2
    <3>4. Right(j, sg[j], cn[sg[j].fd])
      BY <1>2 DEF Good
    <3> QED
      BY <3>2, <3>3, <3>4
  <2> QED
    BY <2>1, <2>2
<1> QED
  BY <1>5 DEF Good, ts, cs

(* A new connection disturbs no segment.                                   *)
LEMMA DialledGood ==
  ASSUME NEW sl \in Lists, NEW p \in 1 .. NServers + 1,
         NEW sg, NEW cn, Sound(sg, cn), Good(sg, cn),
         NEW fd \in Fds, NEW mode \in ConnectModes, Dialled(sl, p, cn, fd, mode)
  PROVE  Good(sg, conn')
<1>1. cn \in [Fds -> Conn] /\ sg \in Seq(Segment)
  BY DEF Sound
<1>2. /\ cn[fd].st = "free" /\ \A f \in Fds \ {fd} : conn'[f] = cn[f]
  BY <1>1, DialledType
<1>3. ASSUME NEW k \in 1 .. Len(sg)
      PROVE  Right(k, sg[k], conn'[sg[k].fd])
  <2>1. Right(k, sg[k], cn[sg[k].fd]) /\ sg[k].fd \in Fds
    <3>1. sg[k] \in Segment
      BY <1>1
    <3> QED
      BY <3>1 DEF Good, Segment
  <2>2. CASE Done(sg[k])
    BY <2>1, <2>2 DEF Right
  <2>3. CASE ~Done(sg[k])
    <3>1. sg[k].fd # fd
      BY <1>2, <2>3 DEF Sound
    <3> QED
      BY <1>2, <2>1, <3>1
  <2> QED
    BY <2>2, <2>3
<1> QED
  BY <1>3 DEF Good

LEMMA RetryGood ==
  ASSUME serv \in 1 .. NServers + 1,
         NEW sl \in Lists, sl[NServers + 1] = NoServer,
         NEW sg, NEW cn, Sound(sg, cn), Good(sg, cn), NEW k, NEW next,
         Retry(k, sg, sl, cn, next)
  PROVE  segm' = sg /\ Good(segm', conn')
<1> DEFINE p == Wrap(sl, serv)
<1>1. p \in 1 .. NServers
  BY WrapType
<1>2. /\ segm' = sg
      /\ \/ SetupFails(sl, p, cn)
         \/ \E fd \in Fds, mode \in ConnectModes : Dialled(sl, p, cn, fd, mode)
  BY DEF Retry
<1> HIDE DEF p
<1>3. CASE SetupFails(sl, p, cn)
  BY <1>2, <1>3 DEF SetupFails
<1>4. CASE \E fd \in Fds, mode \in ConnectModes : Dialled(sl, p, cn, fd, mode)
  <2>1. PICK fd \in Fds, mode \in ConnectModes : Dialled(sl, p, cn, fd, mode)
    BY <1>4
  <2>2. p \in 1 .. NServers + 1
    BY <1>1, GetAssumption
  <2>3. Good(sg, conn')
    BY <2>1, <2>2, DialledGood
  <2> QED
    BY <1>2, <2>3
<1> QED
  BY <1>2, <1>3, <1>4

(* Nothing has come over it.                                               *)
LEMMA NewExpects ==
  ASSUME NEW s \in Servers, NEW mode \in AllModes, NEW fd, NEW start, NEW stop
  PROVE  Expects(NewSegm(fd, DialledState(mode)), NewConn(s, mode), start, stop)
<1> DEFINE t == NewSegm(fd, DialledState(mode))
           c == NewConn(s, mode)
<1>1. /\ t.buf = <<>> /\ t.pos = 0 /\ t.state = DialledState(mode)
      /\ c.req = NoReq /\ c.avail = <<>> /\ c.flight = <<>> /\ c.srv = s
      /\ c.greeted = (mode = "greeted")
      /\ mode # "progress" => c.st = "up"
  BY DEF NewSegm, NewConn, FreeConn
<1>2. c \in Conn
  BY NewConnType
<1> SUFFICES Expects(t, c, start, stop)
  OBVIOUS
<1> HIDE DEF t, c
<1>3. Stream(t, c) = <<>>
  <2>1. Stream(t, c) = c.avail \o c.flight
    BY <1>1, <1>2, StreamAtZero
  <2>2. <<>> \o <<>> = <<>>
    OBVIOUS
  <2> QED
    BY <1>1, <2>1, <2>2
<1>4. CASE mode = "greeted"
  BY <1>1, <1>4 DEF Expects, Greeted, DialledState
<1>5. CASE mode \in {"progress", "up"}
  <2>1. c.greeted = FALSE /\ t.state \in {"CONNECTING", "RECV_HANDSHAKE"}
    BY <1>1, <1>5 DEF DialledState
  <2> QED
    BY <1>1, <1>3, <2>1 DEF Expects, Greeted, AwaitsGreeting
<1> QED
  BY <1>4, <1>5 DEF AllModes
-----------------------------------------------------------------------------
(* The ends of a segment handler.                                          *)
Proper(k, r) == Unfinished(k, r) /\ Right(k + 1, r.segm, r.conn)

LEMMA KeepGood ==
  ASSUME Sound(segm, conn), Good(segm, conn), NEW k \in Nat, k + 1 \in 1 .. Len(segm),
         NEW r \in Result, r.segm.fd = segm[k + 1].fd, Right(k + 1, r.segm, r.conn)
  PROVE  Good(Segm(k, r), Conns(r))
<1> DEFINE l == k + 1
           t == r.segm
           c == r.conn
<1>1. /\ t \in Segment /\ c \in Conn /\ t.fd = segm[l].fd
      /\ Right(l, t, c) /\ l \in 1 .. Len(segm)
  BY DEF Result
<1> HIDE DEF l, t, c
<1>2. Good([segm EXCEPT ![l] = t], [conn EXCEPT ![t.fd] = c])
  BY <1>1, GoodReplace
<1> QED
  BY <1>2 DEF Segm, Conns, l, t, c

LEMMA KeptGood ==
  ASSUME Sound(segm, conn), Good(segm, conn), NEW k \in Nat, k + 1 \in 1 .. Len(segm),
         NEW r, Proper(k, r), Keep(k, r)
  PROVE  Good(segm', conn')
<1>1. r \in Result /\ r.segm.fd = segm[k + 1].fd /\ Right(k + 1, r.segm, r.conn)
  BY DEF Proper, Unfinished
<1>2. Good(Segm(k, r), Conns(r))
  BY <1>1, KeepGood
<1> QED
  BY <1>2 DEF Keep

LEMMA RetriedGood ==
  ASSUME TypeOK, NEW sl \in Lists, sl[NServers + 1] = NoServer,
         Sound(segm, conn), Good(segm, conn), NEW k \in Nat, k + 1 \in 1 .. Len(segm),
         NEW r, Proper(k, r), Retry(k, Segm(k, r), sl, Conns(r), "pass")
  PROVE  Good(segm', conn')
<1> DEFINE sg == Segm(k, r)
           cn == Conns(r)
<1>1. r \in Result /\ r.segm.fd = segm[k + 1].fd /\ Right(k + 1, r.segm, r.conn)
      /\ Unfinished(k, r)
  BY DEF Proper, Unfinished
<1>2. Sound(sg, cn)
  BY <1>1, UnfinishedSound
<1>3. Good(sg, cn)
  BY <1>1, KeepGood
<1>4. Retry(k, sg, sl, cn, "pass") /\ serv \in 1 .. NServers + 1
  BY DEF TypeOK
<1> HIDE DEF sg, cn
<1> QED
  BY <1>2, <1>3, <1>4, RetryGood

(* A request starts the wait for its answer.  One that is lost leaves a    *)
(* wait that ends at the end of the stream.                                *)
LEMMA SentExpects ==
  ASSUME NEW s, NEW c, s.pos = 0,
         Greeted(c), c.greeted, c.req = NoReq,
         NEW start, NEW stop, NEW req,
         \/ /\ s.state = "RECV_SIZE_REPLY" /\ req = SizeReq
            /\ Stream(s, c) = <<>>
         \/ /\ s.state = "RECV_GET_REPLY" /\ req = GetReq(start, stop)
            /\ NotOk(Stream(s, c)) /\ SameAsFirst(c),
         c \in Conn
  PROVE  Expects(s, Sent(c, req), start, stop)
<1> DEFINE d == Sent(c, req)
<1>1. /\ d.avail = c.avail /\ d.flight = c.flight /\ d.srv = c.srv
      /\ d.greeted = c.greeted /\ d.st = c.st
      /\ d.req = IF c.fin THEN NoReq ELSE req
  BY DEF Sent, Conn
<1> HIDE DEF d
<1>2. Stream(s, d) = Stream(s, c)
  BY <1>1, SameStream
<1>3. Greeted(d) /\ d.greeted
  BY <1>1 DEF Greeted
<1>4. CASE s.state = "RECV_SIZE_REPLY" /\ req = SizeReq /\ Stream(s, c) = <<>>
  <2>1. AwaitsSize(d, Stream(s, d))
    BY <1>1, <1>2, <1>4, Words DEF AwaitsSize
  <2> QED
    BY <1>3, <1>4, <2>1 DEF Expects, d
<1>5. CASE /\ s.state = "RECV_GET_REPLY" /\ req = GetReq(start, stop)
           /\ NotOk(Stream(s, c)) /\ SameAsFirst(c)
  <2>1. AwaitsGet(d, Stream(s, d), start, stop)
    BY <1>1, <1>2, <1>5 DEF AwaitsGet
  <2>2. SameAsFirst(d)
    BY <1>1, <1>5 DEF SameAsFirst
  <2> QED
    BY <1>3, <1>5, <2>1, <2>2 DEF Expects, d
<1> QED
  BY <1>4, <1>5

LEMMA SendGood ==
  ASSUME TypeOK, slist[NServers + 1] = NoServer,
         Sound(segm, conn), Good(segm, conn), NEW k \in Nat, k + 1 \in 1 .. Len(segm),
         NEW r, Proper(k, r), r.segm.state = "CONNECTED",
         Greeted(r.conn), r.conn.greeted, r.conn.req = NoReq,
         NEW req \in Requests, NEW state,
         \/ /\ state = "RECV_SIZE_REPLY" /\ req = SizeReq
            /\ Stream(r.segm, r.conn) = <<>>
         \/ /\ state = "RECV_GET_REPLY" /\ req = GetReq(Start(k), Stop(k))
            /\ NotOk(Stream(r.segm, r.conn)) /\ SameAsFirst(r.conn),
         SendRequest(k, r, req, state)
  PROVE  Good(segm', conn')
<1> DEFINE q == To(r, state)
           c == Sent(r.conn, req)
           w == OnConn(q, c)
           t == Stream(r.segm, r.conn)
<1>1. /\ r \in Result /\ r.conn \in Conn /\ r.segm.pos = 0 /\ ~Done(r.segm)
      /\ r.segm.fd = segm[k + 1].fd
  BY DEF Proper, Unfinished, Result, PosOK
<1>2. state \in SockStates
  BY DEF SockStates
<1>3. /\ q \in Result /\ q.segm.fd = segm[k + 1].fd /\ q.segm.state = state
      /\ q.segm.pos = 0 /\ ~Done(q.segm)
  BY <1>1, <1>2, ToType DEF Done
<1>4. q.segm.buf = r.segm.buf /\ q.segm.pos = r.segm.pos
  BY <1>1, <1>2, ToType
<1> HIDE DEF q
<1>5. Stream(q.segm, r.conn) = t
  BY <1>4, SameStream
<1>6. /\ \/ Keep(k, w)
         \/ Keep(k, r)
         \/ Retry(k, Segm(k, r), slist, Conns(r), "pass")
  BY DEF SendRequest, q
<1>7. Sent(r.conn, req) \in Conn
  BY <1>1, SentType
<1>8. w \in Result /\ w.segm = q.segm /\ w.conn = c
  BY <1>3, <1>7, OnConnType DEF OnConn
<1>9. Expects(q.segm, c, Start(k), Stop(k))
  <2>1. \/ /\ q.segm.state = "RECV_SIZE_REPLY" /\ req = SizeReq
           /\ Stream(q.segm, r.conn) = <<>>
        \/ /\ q.segm.state = "RECV_GET_REPLY" /\ req = GetReq(Start(k), Stop(k))
           /\ NotOk(Stream(q.segm, r.conn)) /\ SameAsFirst(r.conn)
    BY <1>3, <1>5
  <2> HIDE DEF t
  <2> QED
    BY <1>1, <1>3, <2>1, SentExpects
<1> HIDE DEF w, c, t
<1>10. Right(k + 1, w.segm, w.conn)
  <2>1. k + 1 - 1 = k
    OBVIOUS
  <2> QED
    BY <1>3, <1>8, <1>9, <2>1 DEF Right
<1>11. CASE Keep(k, w)
  <2>1. Good(Segm(k, w), Conns(w))
    BY <1>3, <1>8, <1>10, KeepGood
  <2> QED
    BY <1>11, <2>1 DEF Keep
<1>12. CASE Keep(k, r)
  BY <1>12, KeptGood
<1>13. CASE Retry(k, Segm(k, r), slist, Conns(r), "pass")
  BY <1>13, RetriedGood DEF TypeOK, Lists
<1> QED
  BY <1>6, <1>11, <1>12, <1>13
-----------------------------------------------------------------------------
(* The second pass.                                                        *)
LEMMA FoundGood ==
  ASSUME IInv, StreamInv, pc = "pass", NEW k \in 0 .. Len(segm) - 1, IsNext(k)
  PROVE  /\ TypeOK /\ slist[NServers + 1] = NoServer /\ slist \in Lists
         /\ Sound(segm, conn) /\ Good(segm, conn) /\ k \in Nat
         /\ k + 1 \in 1 .. Len(segm)
         /\ segm[k + 1] \in Segment /\ segm[k + 1].status # "DONE"
         /\ conn[segm[k + 1].fd] \in Conn /\ conn[segm[k + 1].fd].st # "free"
         /\ PosOK(segm[k + 1], Bytes(k + 1)) /\ Bytes(k + 1) \in Nat
         /\ Start(k) \in Nat /\ Stop(k) \in Nat /\ Start(k) < Stop(k)
         /\ Bytes(k + 1) = Stop(k) - Start(k) /\ Bytes(k + 1) \in Nat \ {0}
         /\ Expects(segm[k + 1], conn[segm[k + 1].fd], Start(k), Stop(k))
<1>1. TypeOK /\ slist[NServers + 1] = NoServer /\ Sound(segm, conn)
      /\ k \in Nat /\ slist \in Lists /\ Good(segm, conn)
  BY NowSound, NowGood DEF IInv, Running, TypeOK, Lists
<1>2. /\ k + 1 \in 1 .. Len(segm) /\ k + 1 - 1 = k
      /\ segm[k + 1] \in Segment /\ ~Done(segm[k + 1])
      /\ conn[segm[k + 1].fd] \in Conn /\ conn[segm[k + 1].fd].st # "free"
      /\ PosOK(segm[k + 1], Bytes(k + 1))
      /\ Start(k) \in Nat /\ Stop(k) \in Nat
      /\ Bytes(k + 1) = Stop(k) - Start(k) /\ Bytes(k + 1) \in Nat \ {0}
  BY FoundType
<1>3. Start(k) < Stop(k)
  <2> DEFINE a == Start(k)
             b == Stop(k)
             n == Bytes(k + 1)
  <2>1. a \in Nat /\ b \in Nat /\ n = b - a /\ n \in Nat \ {0}
    BY <1>2
  <2> HIDE DEF a, b, n
  <2>2. a < b
    BY <2>1
  <2> QED
    BY <2>2 DEF a, b
<1>4. Right(k + 1, segm[k + 1], conn[segm[k + 1].fd])
  BY <1>1, <1>2 DEF Good
<1>5. Expects(segm[k + 1], conn[segm[k + 1].fd], Start(k), Stop(k))
  BY <1>2, <1>4 DEF Right
<1> QED
  BY <1>1, <1>2, <1>3, <1>5 DEF Done

(* In a state without a reply to come only the greeting counts.            *)
LEMMA ConnectedExpects ==
  ASSUME NEW s, NEW c, s.state = "CONNECTED", Greeted(c), NEW start, NEW stop
  PROVE  Expects(s, c, start, stop)
  BY DEF Expects

LEMMA ProperResult ==
  ASSUME NEW k \in Nat, NEW r, Unfinished(k, r),
         Expects(r.segm, r.conn, Start(k), Stop(k))
  PROVE  Proper(k, r)
<1>1. k + 1 - 1 = k
  OBVIOUS
<1> QED
  BY <1>1 DEF Proper, Right, Unfinished

LEMMA ConnectingGood ==
  ASSUME IInv, StreamInv, pc = "pass", NEW k \in 0 .. Len(segm) - 1, IsNext(k),
         Connecting(k)
  PROVE  Good(segm', conn')
<1> DEFINE s == segm[k + 1]
           c == conn[segm[k + 1].fd]
           r == cgym_sock_connect(s, c)
           len == Bytes(k + 1)
           start == Start(k)
           stop == Stop(k)
<1>1. /\ TypeOK /\ slist[NServers + 1] = NoServer /\ slist \in Lists
      /\ Sound(segm, conn) /\ Good(segm, conn) /\ k \in Nat
      /\ k + 1 \in 1 .. Len(segm)
  BY FoundGood
<1>2. /\ s \in Segment /\ s.status # "DONE" /\ c \in Conn /\ c.st # "free"
      /\ PosOK(s, len) /\ len \in Nat \ {0}
      /\ Expects(s, c, start, stop)
  BY FoundGood
<1>3. s.state \in {"CONNECTING", "RECV_HANDSHAKE"}
  BY DEF Connecting
<1>4. \/ r.rc = 1 /\ Keep(k, r)
      \/ r.rc > 1 /\ Retry(k, Segm(k, r), slist, Conns(r), "pass")
      \/ r.rc = 0 /\ SendRequest(k, r, SizeReq, "RECV_SIZE_REPLY")
  BY DEF Connecting
<1>5. s.fd = segm[k + 1].fd
  OBVIOUS
<1> HIDE DEF s, c, len, start, stop
<1>6. /\ r \in Result /\ SameSock(r, s, c)
      /\ r.segm.status = s.status /\ PosOK(r.segm, len)
      /\ r.rc = 0 => r.segm.state = "CONNECTED"
  BY <1>2, <1>3, ConnectType DEF Done
<1>7. /\ SameConn(r.conn, c)
      /\ r.rc = 0 => c.greeted /\ c.req = NoReq /\ Stream(r.segm, r.conn) = <<>>
      /\ r.rc # 0 => Expects(r.segm, r.conn, start, stop)
  BY <1>2, <1>3, ConnectStream DEF PosOK
<1> HIDE DEF r
<1>8. Unfinished(k, r)
  BY <1>2, <1>5, <1>6 DEF Unfinished, SameSock, Done, len
<1>9. Greeted(r.conn)
  <2>1. Greeted(c)
    BY <1>2 DEF Expects
  <2> QED
    BY <1>7, <2>1, SameExpected
<1>10. Expects(r.segm, r.conn, start, stop)
  BY <1>6, <1>7, <1>9, ConnectedExpects
<1>11. Proper(k, r)
  BY <1>1, <1>8, <1>10, ProperResult DEF start, stop
<1>12. CASE r.rc = 1 /\ Keep(k, r)
  BY <1>1, <1>11, <1>12, KeptGood
<1>13. CASE r.rc > 1 /\ Retry(k, Segm(k, r), slist, Conns(r), "pass")
  BY <1>1, <1>11, <1>13, RetriedGood
<1>14. CASE r.rc = 0 /\ SendRequest(k, r, SizeReq, "RECV_SIZE_REPLY")
  <2>1. SizeReq \in Requests
    BY DEF SizeReq, Requests
  <2>2. r.conn.greeted /\ r.conn.req = NoReq
    BY <1>7, <1>14 DEF SameConn
  <2>3. r.segm.state = "CONNECTED" /\ Stream(r.segm, r.conn) = <<>>
    BY <1>6, <1>7, <1>14
  <2> QED
    BY <1>1, <1>9, <1>11, <1>14, <2>1, <2>2, <2>3, SendGood
<1> QED
  BY <1>4, <1>12, <1>13, <1>14

LEMMA MismatchGood ==
  ASSUME TypeOK, slist[NServers + 1] = NoServer,
         Sound(segm, conn), Good(segm, conn), NEW k \in Nat, k + 1 \in 1 .. Len(segm),
         NEW r, Proper(k, r), Mismatch(k, r)
  PROVE  Good(segm', conn')
<1> DEFINE sl == [slist EXCEPT ![serv] = NoServer]
<1>1. sl \in Lists /\ sl[NServers + 1] = NoServer
  BY GetAssumption DEF TypeOK, Lists
<1>2. \/ Keep(k, r)
      \/ Retry(k, Segm(k, r), sl, Conns(r), "pass")
  BY DEF Mismatch
<1> HIDE DEF sl
<1>3. CASE Keep(k, r)
  BY <1>3, KeptGood
<1>4. CASE Retry(k, Segm(k, r), sl, Conns(r), "pass")
  BY <1>1, <1>4, RetriedGood
<1> QED
  BY <1>2, <1>3, <1>4

(* Its bytes are asked from a server whose file is the one described.      *)
LEMMA SizingGood ==
  ASSUME IInv, StreamInv, pc = "pass", NEW k \in 0 .. Len(segm) - 1, IsNext(k),
         Sizing(k)
  PROVE  Good(segm', conn')
<1> DEFINE s == segm[k + 1]
           c == conn[segm[k + 1].fd]
           r == cgym_recv_size_reply(s, c)
           v == SizeReplyEntry(s, c)
           len == Bytes(k + 1)
           start == Start(k)
           stop == Stop(k)
           req == GetReq(start, stop)
<1>1. /\ TypeOK /\ slist[NServers + 1] = NoServer /\ slist \in Lists
      /\ Sound(segm, conn) /\ Good(segm, conn) /\ k \in Nat
      /\ k + 1 \in 1 .. Len(segm)
  BY FoundGood
<1>2. /\ s \in Segment /\ s.status # "DONE" /\ c \in Conn /\ c.st # "free"
      /\ PosOK(s, len) /\ len \in Nat \ {0}
      /\ Expects(s, c, start, stop)
  BY FoundGood
<1>3. s.state \in {"RECV_SIZE_REPLY", "RECV_SIZE_DATA"}
  BY DEF Sizing
<1>4. \/ r.rc = 1 /\ Keep(k, r)
      \/ r.rc > 1 /\ Retry(k, Segm(k, r), slist, Conns(r), "pass")
      \/ r.rc = 0 /\ v = e /\ SendRequest(k, r, req, "RECV_GET_REPLY")
      \/ r.rc = 0 /\ Mismatch(k, r)
  BY DEF Sizing, SameFile
<1>5. s.fd = segm[k + 1].fd
  OBVIOUS
<1>6. req \in Requests
  BY FoundGood DEF GetReq, Requests
<1> HIDE DEF s, c, len, start, stop, req, v
<1>7. /\ r \in Result /\ SameSock(r, s, c)
      /\ r.segm.status = s.status /\ PosOK(r.segm, len)
      /\ r.rc = 0 => r.segm.state = "CONNECTED"
  BY <1>2, <1>3, SizeReplyType DEF Done
<1>8. /\ SameConn(r.conn, c) /\ c.greeted /\ Greeted(c)
      /\ r.rc = 0 => Held(c, v) /\ c.req = NoReq /\ NotOk(Stream(r.segm, r.conn))
      /\ r.rc # 0 => Expects(r.segm, r.conn, start, stop)
  BY <1>2, <1>3, SizeReplyStream DEF v
<1> HIDE DEF r
<1>9. Unfinished(k, r)
  BY <1>2, <1>5, <1>7 DEF Unfinished, SameSock, Done, len
<1>10. Greeted(r.conn) /\ r.conn.greeted
  BY <1>8, SameExpected DEF SameConn
<1>11. Expects(r.segm, r.conn, start, stop)
  BY <1>7, <1>8, <1>10, ConnectedExpects
<1>12. Proper(k, r)
  BY <1>1, <1>9, <1>11, ProperResult DEF start, stop
<1>13. CASE r.rc = 1 /\ Keep(k, r)
  BY <1>1, <1>12, <1>13, KeptGood
<1>14. CASE r.rc > 1 /\ Retry(k, Segm(k, r), slist, Conns(r), "pass")
  BY <1>1, <1>12, <1>14, RetriedGood
<1>15. CASE r.rc = 0 /\ v = e /\ SendRequest(k, r, req, "RECV_GET_REPLY")
  <2>1. SameAsFirst(r.conn)
    <3>1. Held(c, v)
      BY <1>8, <1>15
    <3>2. SameAsFirst(c)
      BY <1>15, <3>1 DEF SameAsFirst, Held
    <3> QED
      BY <1>8, <3>2, SameExpected
  <2>2. r.conn.req = NoReq
    BY <1>8, <1>15 DEF SameConn
  <2>3. r.segm.state = "CONNECTED" /\ NotOk(Stream(r.segm, r.conn))
    BY <1>7, <1>8, <1>15
  <2>4. req = GetReq(Start(k), Stop(k))
    BY DEF req, start, stop
  <2> QED
    BY <1>1, <1>6, <1>10, <1>12, <1>15, <2>1, <2>2, <2>3, <2>4, SendGood
<1>16. CASE r.rc = 0 /\ Mismatch(k, r)
  BY <1>1, <1>12, <1>16, MismatchGood
<1> QED
  BY <1>4, <1>13, <1>14, <1>15, <1>16
(* A segment is finished with one piece of one version.                    *)
LEMMA ClosedRight ==
  ASSUME NEW k \in Nat, NEW r \in Result, r.segm.status = "DONE",
         NEW c, SameAsFirst(c),
         \E v \in Versions :
           Held(c, v) /\ r.segm.buf = Slice(v, Start(k), Stop(k)) \o EndMsg
  PROVE  /\ Closed(r) \in Result /\ Closed(r).segm.fd = r.segm.fd
         /\ Right(k + 1, Closed(r).segm, Closed(r).conn)
<1> DEFINE q == To(r, "IDLE")
           w == OnConn(q, FreeConn)
<1>1. "IDLE" \in SockStates
  BY DEF SockStates
<1>2. /\ q \in Result /\ q.segm.fd = r.segm.fd
      /\ q.segm.status = "DONE" /\ q.segm.buf = r.segm.buf
  BY <1>1, ToType
<1>3. FreeConn \in Conn
  <2>1. NoReq \in Requests
    BY DEF NoReq, Requests
  <2> QED
    BY <2>1, EmptySeq DEF FreeConn, Conn
<1>4. Closed(r) = w
  BY DEF Closed
<1> HIDE DEF q
<1>5. w \in Result /\ w.segm = q.segm
  BY <1>2, <1>3, OnConnType
<1> HIDE DEF w
<1>6. OneVersion(r.segm.buf, Start(k), Stop(k))
  BY DEF OneVersion, Held, SameAsFirst
<1>7. k + 1 - 1 = k
  OBVIOUS
<1>8. Right(k + 1, w.segm, w.conn)
  <2> DEFINE t == w.segm
  <2>1. t.status = "DONE" /\ t.buf = r.segm.buf
    BY <1>2, <1>5
  <2> HIDE DEF t
  <2>2. OneVersion(t.buf, Start(k), Stop(k))
    BY <1>6, <2>1
  <2>3. OneVersion(t.buf, Start(k + 1 - 1), Stop(k + 1 - 1))
    BY <1>7, <2>2
  <2>4. Right(k + 1, t, w.conn)
    BY <2>1, <2>3 DEF Right, Done
  <2> QED
    BY <2>4 DEF t
<1> QED
  BY <1>2, <1>4, <1>5, <1>8

LEMMA GettingGood ==
  ASSUME IInv, StreamInv, pc = "pass", NEW k \in 0 .. Len(segm) - 1, IsNext(k),
         Getting(k)
  PROVE  Good(segm', conn')
<1> DEFINE s == segm[k + 1]
           c == conn[segm[k + 1].fd]
           start == Start(k)
           stop == Stop(k)
           len == Bytes(k + 1)
           r == cgym_recv_get_reply(s, c, stop - start)
<1>1. /\ TypeOK /\ slist[NServers + 1] = NoServer /\ slist \in Lists
      /\ Sound(segm, conn) /\ Good(segm, conn) /\ k \in Nat
      /\ k + 1 \in 1 .. Len(segm)
  BY FoundGood
<1>2. /\ s \in Segment /\ s.status # "DONE" /\ c \in Conn /\ c.st # "free"
      /\ PosOK(s, len) /\ len \in Nat \ {0} /\ len = stop - start
      /\ start \in Nat /\ stop \in Nat /\ start < stop
      /\ Expects(s, c, start, stop)
  BY FoundGood
<1>3. s.state \in {"RECV_GET_REPLY", "RECV_GET_DATA"}
  BY DEF Getting
<1>4. \/ r.rc = 1 /\ Keep(k, r)
      \/ r.rc > 1 /\ Retry(k, Segm(k, r), slist, Conns(r), "pass")
      \/ r.rc = 0 /\ Keep(k, Closed(r))
  BY DEF Getting
<1>5. s.fd = segm[k + 1].fd
  OBVIOUS
<1> HIDE DEF s, c, len, start, stop
<1>6. /\ r \in Result /\ SameSock(r, s, c)
      /\ PosOK(r.segm, len)
      /\ r.segm.status = "DONE" <=> r.rc = 0
  BY <1>2, <1>3, GetReplyType DEF Done
<1>7. /\ SameConn(r.conn, c) /\ SameAsFirst(c)
      /\ r.rc = 0 => \E v \in Versions :
           Held(c, v) /\ r.segm.buf = Slice(v, start, stop) \o EndMsg
      /\ r.rc # 0 => Expects(r.segm, r.conn, start, stop)
  <2>1. /\ s \in Segment /\ c \in Conn /\ start \in Nat /\ stop \in Nat /\ start < stop
        /\ PosOK(s, stop - start) /\ s.status # "DONE"
        /\ s.state \in {"RECV_GET_REPLY", "RECV_GET_DATA"}
        /\ Expects(s, c, start, stop)
    BY <1>2, <1>3, Zenon
  <2> QED
    BY <2>1, GetReplyStream, Zenon
<1> HIDE DEF r
<1>8. ASSUME r.rc # 0
      PROVE  Proper(k, r)
  <2>1. Unfinished(k, r)
    BY <1>2, <1>5, <1>6, <1>8 DEF Unfinished, SameSock, Done, len
  <2>2. Expects(r.segm, r.conn, start, stop)
    BY <1>7, <1>8
  <2> QED
    BY <1>1, <2>1, <2>2, ProperResult DEF start, stop
<1>9. CASE r.rc = 1 /\ Keep(k, r)
  BY <1>1, <1>8, <1>9, KeptGood
<1>10. CASE r.rc > 1 /\ Retry(k, Segm(k, r), slist, Conns(r), "pass")
  BY <1>1, <1>8, <1>10, RetriedGood
<1>11. CASE r.rc = 0 /\ Keep(k, Closed(r))
  <2>1. /\ Closed(r) \in Result /\ Closed(r).segm.fd = r.segm.fd
        /\ Right(k + 1, Closed(r).segm, Closed(r).conn)
    BY <1>1, <1>6, <1>7, <1>11, ClosedRight DEF start, stop
  <2>2. Closed(r).segm.fd = segm[k + 1].fd
    BY <1>5, <1>6, <2>1 DEF SameSock
  <2>3. Good(Segm(k, Closed(r)), Conns(Closed(r)))
    BY <1>1, <2>1, <2>2, KeepGood
  <2> QED
    BY <1>11, <2>3 DEF Keep
<1> QED
  BY <1>4, <1>9, <1>10, <1>11

LEMMA PassStream ==
  ASSUME IInv, StreamInv, Pass
  PROVE  StreamInv'
<1>1. PICK k \in 0 .. Len(segm) - 1 :
        /\ IsNext(k)
        /\ Connecting(k) \/ Sizing(k) \/ Getting(k) \/ Unhandled(k)
  BY DEF Pass
<1>2. UNCHANGED <<e, cur, edits>> /\ pc = "pass"
  BY DEF Pass, mirror
<1>3. segm[k + 1].state \in Waiting
  BY <1>1, <1>2, FoundType
<1>4. Handled(k) /\ Good(segm', conn')
  BY <1>1, <1>2, <1>3, ConnectingHandled, SizingHandled, GettingHandled,
     ConnectingGood, SizingGood, GettingGood DEF Unhandled
<1>5. pc' # "plan"
  BY <1>4 DEF Handled, Stopped
<1> QED
  BY <1>2, <1>4, <1>5, NextGood

-----------------------------------------------------------------------------
(* The other steps of the loop.                                            *)
LEMMA UnmovedStream ==
  ASSUME StreamInv, UNCHANGED <<segm, conn, e, cur, edits>>, pc' # "plan"
  PROVE  StreamInv'
<1>1. Good(segm', conn')
  BY NowGood
<1> QED
  BY <1>1, NextGood

LEMMA BuildSetsStream ==
  ASSUME IInv, StreamInv, BuildSets
  PROVE  StreamInv'
<1>1. /\ Sound(segm, conn) /\ Good(segm, conn) /\ serv \in 1 .. NServers + 1
      /\ slist \in Lists /\ slist[NServers + 1] = NoServer
      /\ faults \in 0 .. MaxFaults
  BY LoopingFound, NowGood DEF BuildSets, Looping, TypeOK
<1>2. UNCHANGED <<e, cur, edits>>
  BY DEF BuildSets, mirror
<1>3. \/ UNCHANGED <<segm, conn>> /\ (Goto("build") \/ Exit(2))
      \/ Retry(i, segm, slist, conn, "build")
  BY DEF BuildSets
<1>4. CASE UNCHANGED <<segm, conn>> /\ (Goto("build") \/ Exit(2))
  BY <1>2, <1>4, UnmovedStream DEF Goto, Exit
<1>5. CASE Retry(i, segm, slist, conn, "build")
  <2>1. Good(segm', conn')
    BY <1>1, <1>5, RetryGood
  <2>2. Outcome("build")
    BY <1>1, <1>5, RetryType
  <2> QED
    BY <1>2, <2>1, <2>2, NextGood DEF Outcome
<1> QED
  BY <1>3, <1>4, <1>5

LEMMA QuietStream ==
  ASSUME StreamInv, Loop \/ Select \/ PassDone \/ InitDone \/ DivideByZero \/ Assemble
  PROVE  StreamInv'
<1>1. UNCHANGED <<segm, conn, e, cur, edits>> /\ pc' # "plan"
  BY DEF Loop, Select, PassDone, InitDone, DivideByZero, Assemble, mirror, Goto,
         Exit, Killed
<1> QED
  BY <1>1, UnmovedStream
-----------------------------------------------------------------------------
(* The first connection.                                                   *)
LEMMA FirstStream ==
  ASSUME NEW t, segm' = <<t>>, t.status # "DONE",
         t.state \notin {"RECV_GET_REPLY", "RECV_GET_DATA"},
         NEW c, conn'[t.fd] = c, UNCHANGED <<cur, edits>>,
         NEW start, NEW stop, Expects(t, c, start, stop),
         pc' = "plan" => /\ c.req = NoReq /\ c.greeted /\ NotOk(Stream(t, c))
                         /\ edits = 0 => e' = cur[c.srv]
  PROVE  StreamInv'
<1>1. Len(segm') = 1 /\ segm'[1] = t
  OBVIOUS
<1>2. \A k \in 1 .. 1 : k = 1
  OBVIOUS
<1>3. /\ Greeted(c)
      /\ t.state \in {"CONNECTING", "RECV_HANDSHAKE"} => AwaitsGreeting(c, Stream(t, c))
      /\ t.state = "RECV_SIZE_REPLY" => c.greeted /\ AwaitsSize(c, Stream(t, c))
      /\ t.state = "RECV_SIZE_DATA"  => c.greeted /\ AwaitsEntry(c, Stream(t, c))
  BY DEF Expects
<1>4. /\ Greeted(c)'
      /\ t.state \in {"CONNECTING", "RECV_HANDSHAKE"} => AwaitsGreeting(c, Stream(t, c))'
      /\ t.state = "RECV_SIZE_REPLY" => c.greeted /\ AwaitsSize(c, Stream(t, c))'
      /\ t.state = "RECV_SIZE_DATA"  => c.greeted /\ AwaitsEntry(c, Stream(t, c))'
  BY <1>3 DEF Greeted, AwaitsGreeting, AwaitsSize, AwaitsEntry, Held, NotOk, Stream
<1>5. ASSUME NEW k \in 1 .. Len(segm')
      PROVE  (IF Done(segm[k])
              THEN OneVersion(segm[k].buf, Start(k - 1), Stop(k - 1))
              ELSE Expects(segm[k], conn[segm[k].fd], Start(k - 1), Stop(k - 1)))'
  <2>1. segm'[k] = t /\ conn'[segm'[k].fd] = c
    BY <1>1, <1>2
  <2> QED
    BY <1>4, <2>1 DEF Done, Expects, Greeted, AwaitsGreeting, AwaitsSize, AwaitsEntry,
       Held, NotOk, Stream
<1>6. (pc = "plan" => AtRest(conn[segm[1].fd], Stream(segm[1], conn[segm[1].fd])))'
  BY <1>1 DEF AtRest, SameAsFirst, NotOk, Stream
<1> QED
  BY <1>5, <1>6 DEF StreamInv

LEMMA InitStream ==
  ASSUME Init
  PROVE  StreamInv
  BY DEF Init, StreamInv

LEMMA ConnectStep ==
  ASSUME IInv, StreamInv, Connect
  PROVE  StreamInv'
<1> DEFINE t == NewSegm(1, "RECV_HANDSHAKE")
           c == NewConn(slist[1], "up")
<1>1. 1 \in Fds /\ conn \in [Fds -> Conn]
  BY GetAssumption DEF IInv, TypeOK, Fds
<1>2. /\ t.status # "DONE" /\ t.fd = 1 /\ t.state = "RECV_HANDSHAKE"
      /\ t.pos = 0
      /\ c.req = NoReq /\ c.greeted = FALSE /\ c.avail = <<>> /\ c.flight = <<>>
  BY DEF NewSegm, NewConn, FreeConn
<1>3. c \in Conn
  BY GetAssumption, NewConnType DEF IInv, TypeOK, AllModes
<1>4. CASE /\ segm' = <<t>> /\ conn' = [conn EXCEPT ![1] = c]
           /\ Goto("handshake")
  <2> HIDE DEF t, c
  <2>1. Stream(t, c) = <<>>
    <3>1. Stream(t, c) = c.avail \o c.flight
      BY <1>2, <1>3, StreamAtZero
    <3>2. <<>> \o <<>> = <<>>
      OBVIOUS
    <3> QED
      BY <1>2, <3>1, <3>2
  <2>2. Expects(t, c, 0, 0)
    BY <1>2, <2>1 DEF Expects, Greeted, AwaitsGreeting
  <2>3. conn'[t.fd] = c /\ pc' # "plan" /\ UNCHANGED <<cur, edits>>
    BY <1>1, <1>2, <1>4 DEF Goto, Connect, mirror
  <2> QED
    BY <1>2, <1>4, <2>2, <2>3, FirstStream
<1>5. CASE (Exit(1) \/ Exit(2)) /\ UNCHANGED <<segm, conn>>
  BY <1>5, UnmovedStream DEF Connect, mirror, Exit
<1> QED
  BY <1>4, <1>5 DEF Connect

LEMMA FirstExpects ==
  ASSUME IInv, StreamInv, pc \in {"handshake", "sizeStatus", "sizeLine", "plan"}
  PROVE  /\ segm[1] \in Segment /\ first \in Conn /\ first.st # "free"
         /\ PosOK(segm[1], 0) /\ segm[1].status # "DONE"
         /\ conn \in [Fds -> Conn]
         /\ Expects(segm[1], first, Start(0), Stop(0))
<1>1. Len(segm) = 1 /\ segm[1] \in Segment /\ segm[1].status # "DONE"
      /\ first \in Conn /\ first.st # "free" /\ PosOK(segm[1], 0)
      /\ conn \in [Fds -> Conn]
  BY FirstFound
<1>2. 1 \in 1 .. Len(segm) /\ 1 - 1 = 0
  BY <1>1
<1>3. Expects(segm[1], conn[segm[1].fd], Start(0), Stop(0))
  BY <1>1, <1>2 DEF StreamInv, Done
<1> QED
  BY <1>1, <1>3 DEF first

LEMMA ConnectState ==
  ASSUME NEW s \in Segment, NEW c \in Conn, s.pos <= Len(s.buf), s.pos < 2
  PROVE  cgym_sock_connect(s, c).segm.state \in {"RECV_HANDSHAKE", "CONNECTED", "ERR"}
<1> DEFINE t == [s EXCEPT !.state = "RECV_HANDSHAKE"]
           q == cgym_recv_handshake(t, c)
           u == To(q, "CONNECTED")
           v == To(q, "ERR")
           w == Return(v, 6)
<1>1. /\ t \in Segment /\ t.state = "RECV_HANDSHAKE"
      /\ t.buf = s.buf /\ t.pos = s.pos
  BY DEF Segment, SockStates
<1>2. cgym_sock_connect(s, c) =
        IF s.state = "CONNECTING" /\ c.st = "failed"
        THEN [segm |-> t, conn |-> c, rc |-> 5]
        ELSE IF q.rc = 0 THEN u ELSE IF q.rc > 1 THEN w ELSE q
  BY DEF cgym_sock_connect
<1>3. [segm |-> t, conn |-> c, rc |-> 5].segm.state = "RECV_HANDSHAKE"
  BY <1>1
<1> HIDE DEF t
<1>4. q \in Result /\ q.segm.state = "RECV_HANDSHAKE"
  BY <1>1, HandshakeType
<1> HIDE DEF q
<1>5. "CONNECTED" \in SockStates /\ "ERR" \in SockStates
  BY DEF SockStates
<1>6. u.segm.state = "CONNECTED" /\ v \in Result /\ v.segm.state = "ERR"
  BY <1>4, <1>5, ToType
<1> HIDE DEF u, v
<1>7. w.segm = v.segm
  BY <1>6, ReturnType
<1> HIDE DEF w
<1> QED
  BY <1>2, <1>3, <1>4, <1>6, <1>7

LEMMA HandshakeStep ==
  ASSUME IInv, StreamInv, Handshake
  PROVE  StreamInv'
<1> DEFINE s == segm[1]
           c == first
           r == cgym_sock_connect(s, c)
           start == Start(0)
           stop == Stop(0)
           q == To(r, "RECV_SIZE_REPLY")
           d == Sent(r.conn, SizeReq)
           w == OnConn(q, d)
<1>1. /\ s \in Segment /\ c \in Conn
      /\ PosOK(s, 0) /\ s.status # "DONE" /\ conn \in [Fds -> Conn]
      /\ Expects(s, c, start, stop)
  BY FirstExpects DEF Handshake
<1>2. s.state = "RECV_HANDSHAKE"
  BY FirstFound DEF Handshake
<1>3. UNCHANGED <<cur, edits>>
  BY DEF Handshake, mirror
<1>4. \/ First(r) /\ (Exit(2) \/ Exit(3) \/ Killed)
      \/ r.rc = 0 /\ First(w) /\ Goto("sizeStatus")
  BY DEF Handshake
<1>12. s = segm[1] /\ c = first
  OBVIOUS
<1> HIDE DEF s, c, start, stop
<1>5. /\ r \in Result /\ r.segm.status # "DONE" /\ PosOK(r.segm, 0)
      /\ r.rc = 0 => r.segm.state = "CONNECTED"
      /\ r.segm.state \in {"RECV_HANDSHAKE", "CONNECTED", "ERR"}
  <2>1. r.segm.state \in {"RECV_HANDSHAKE", "CONNECTED", "ERR"}
    BY <1>1, <1>2, ConnectState DEF PosOK
  <2> QED
    BY <1>1, <1>2, <2>1, ConnectType DEF SameSock
<1>6. /\ SameConn(r.conn, c)
      /\ r.rc = 0 => c.greeted /\ c.req = NoReq /\ Stream(r.segm, r.conn) = <<>>
      /\ r.rc # 0 => Expects(r.segm, r.conn, start, stop)
  BY <1>1, <1>2, ConnectStream DEF PosOK
<1> HIDE DEF r
<1>7. Greeted(r.conn)
  <2>1. Greeted(c)
    BY <1>1 DEF Expects
  <2> QED
    BY <1>6, <2>1, SameExpected
<1>8. Expects(r.segm, r.conn, start, stop)
  BY <1>5, <1>6, <1>7, ConnectedExpects
<1>9. CASE First(r) /\ (Exit(2) \/ Exit(3) \/ Killed)
  <2>1. segm' = <<r.segm>> /\ conn'[r.segm.fd] = r.conn /\ pc' # "plan"
    BY <1>1, <1>5, <1>9, FirstAfter DEF Exit, Killed
  <2> QED
    BY <1>3, <1>5, <1>8, <2>1, FirstStream
<1>10. CASE r.rc = 0 /\ First(w) /\ Goto("sizeStatus")
  <2>1. "RECV_SIZE_REPLY" \in SockStates /\ SizeReq \in Requests /\ r.conn \in Conn
    BY <1>5 DEF SockStates, SizeReq, Requests, Result
  <2>2. /\ q \in Result /\ q.segm.state = "RECV_SIZE_REPLY"
        /\ q.segm.status # "DONE" /\ q.segm.pos = 0
        /\ q.segm.buf = r.segm.buf /\ q.segm.pos = r.segm.pos
    BY <1>5, <1>10, <2>1, ToType DEF PosOK
  <2> HIDE DEF q
  <2>3. Stream(q.segm, r.conn) = <<>>
    <3>1. Stream(q.segm, r.conn) = Stream(r.segm, r.conn)
      BY <2>2, SameStream
    <3> QED
      BY <1>6, <1>10, <3>1
  <2>4. r.conn.greeted /\ r.conn.req = NoReq
    BY <1>6, <1>10 DEF SameConn
  <2>5. Expects(q.segm, d, start, stop)
    BY <1>7, <2>1, <2>2, <2>3, <2>4, SentExpects
  <2>6. d \in Conn
    BY <2>1, SentType
  <2> HIDE DEF d
  <2>7. w \in Result /\ w.segm = q.segm /\ w.conn = d
    BY <2>2, <2>6, OnConnType
  <2> HIDE DEF w
  <2>8. segm' = <<w.segm>> /\ conn'[w.segm.fd] = w.conn /\ pc' # "plan"
    BY <1>1, <1>10, <2>7, FirstAfter DEF Goto
  <2> QED
    BY <1>3, <2>2, <2>5, <2>7, <2>8, FirstStream
<1> QED
  BY <1>4, <1>9, <1>10
LEMMA ReadSizeStatusStep ==
  ASSUME IInv, StreamInv, ReadSizeStatus
  PROVE  StreamInv'
<1> DEFINE s == segm[1]
           c == first
           r == SizeStatus(s, c)
           start == Start(0)
           stop == Stop(0)
<1>1. /\ s \in Segment /\ c \in Conn
      /\ PosOK(s, 0) /\ s.status # "DONE" /\ conn \in [Fds -> Conn]
      /\ Expects(s, c, start, stop)
  BY FirstExpects DEF ReadSizeStatus
<1>2. s.state = "RECV_SIZE_REPLY"
  BY FirstFound DEF ReadSizeStatus
<1>3. UNCHANGED <<cur, edits>>
  BY DEF ReadSizeStatus, mirror
<1>4. First(r) /\ pc' # "plan"
  BY DEF ReadSizeStatus, Goto, Exit
<1> HIDE DEF s, c, start, stop
<1>5. /\ r \in Result /\ r.segm.status # "DONE"
      /\ r.segm.state \in {"RECV_SIZE_REPLY", "RECV_SIZE_DATA", "CONNECTED"}
      /\ r.segm.state = "RECV_SIZE_REPLY" => r.rc = 1
      /\ r.segm.state = "CONNECTED" => r.rc > 1
  BY <1>1, <1>2, SizeStatusType
<1>6. Greeted(c) /\ c.greeted /\ AwaitsSize(c, Stream(s, c))
  BY <1>1, <1>2 DEF Expects
<1>7. /\ SameConn(r.conn, c)
      /\ r.rc = 0 => AwaitsEntry(r.conn, Stream(r.segm, r.conn))
      /\ r.rc = 1 => Stream(r.segm, r.conn) = Stream(s, c)
  BY <1>1, <1>2, <1>6, SizeStatusStream DEF PosOK
<1>8. r.segm.state = "RECV_SIZE_DATA" => r.rc = 0
  BY <1>1, <1>2, DataAfterStatus DEF PosOK
<1> HIDE DEF r
<1>9. Greeted(r.conn) /\ r.conn.greeted
  BY <1>6, <1>7, SameExpected DEF SameConn
<1>10. Expects(r.segm, r.conn, start, stop)
  <2>1. CASE r.segm.state = "RECV_SIZE_REPLY"
    <3>1. AwaitsSize(r.conn, Stream(s, c))
      BY <1>6, <1>7, SameExpected
    <3>2. AwaitsSize(r.conn, Stream(r.segm, r.conn))
      BY <1>5, <1>7, <2>1, <3>1
    <3> QED
      BY <1>9, <2>1, <3>2 DEF Expects
  <2>2. CASE r.segm.state = "RECV_SIZE_DATA"
    BY <1>7, <1>8, <1>9, <2>2 DEF Expects
  <2>3. CASE r.segm.state = "CONNECTED"
    BY <1>9, <2>3, ConnectedExpects
  <2> QED
    BY <1>5, <2>1, <2>2, <2>3
<1>11. segm' = <<r.segm>> /\ conn'[r.segm.fd] = r.conn
  BY <1>1, <1>4, <1>5, FirstAfter
<1> QED
  BY <1>3, <1>4, <1>5, <1>10, <1>11, FirstStream

(* The entry described is the version that the first server holds.         *)
LEMMA ReadSizeLineStep ==
  ASSUME IInv, StreamInv, ReadSizeLine
  PROVE  StreamInv'
<1> DEFINE s == segm[1]
           c == first
           r == SizeLine(s, c)
           v == LineEntry(s, c)
           start == Start(0)
           stop == Stop(0)
<1>1. /\ s \in Segment /\ c \in Conn
      /\ PosOK(s, 0) /\ s.status # "DONE" /\ conn \in [Fds -> Conn]
      /\ Expects(s, c, start, stop)
  BY FirstExpects DEF ReadSizeLine
<1>2. s.state = "RECV_SIZE_DATA"
  BY FirstFound DEF ReadSizeLine
<1>3. UNCHANGED <<cur, edits>>
  BY DEF ReadSizeLine, mirror
<1>4. /\ First(r)
      /\ \/ r.rc = 0 /\ e' = v
         \/ r.rc # 0 /\ Exit(4)
  BY DEF ReadSizeLine
<1> HIDE DEF s, c, start, stop, v
<1>5. /\ r \in Result /\ r.segm.status # "DONE"
      /\ r.rc = 0 => r.segm.state = "CONNECTED"
      /\ r.rc # 0 => r.segm.state = "RECV_SIZE_DATA"
  BY <1>1, <1>2, SizeLineType
<1>6. Greeted(c) /\ c.greeted /\ AwaitsEntry(c, Stream(s, c))
  BY <1>1, <1>2 DEF Expects
<1>7. /\ SameConn(r.conn, c)
      /\ r.rc = 0 => Held(c, v) /\ NotOk(Stream(r.segm, r.conn))
      /\ r.rc # 0 => Stream(r.segm, r.conn) = Stream(s, c)
  BY <1>1, <1>2, <1>6, SizeLineStream DEF PosOK, v
<1> HIDE DEF r
<1>8. Greeted(r.conn) /\ r.conn.greeted /\ r.conn.req = NoReq
  BY <1>6, <1>7, SameExpected DEF SameConn, AwaitsEntry
<1>9. segm' = <<r.segm>> /\ conn'[r.segm.fd] = r.conn
  BY <1>1, <1>4, <1>5, FirstAfter
<1>10. CASE r.rc = 0 /\ e' = v
  <2>1. Expects(r.segm, r.conn, start, stop)
    BY <1>5, <1>8, <1>10, ConnectedExpects
  <2>2. edits = 0 => e' = cur[r.conn.srv]
    <3>1. r.conn.srv = c.srv
      BY <1>7 DEF SameConn
    <3> QED
      BY <1>7, <1>10, <3>1 DEF Held
  <2> QED
    BY <1>3, <1>5, <1>7, <1>8, <1>9, <1>10, <2>1, <2>2, FirstStream
<1>11. CASE r.rc # 0 /\ Exit(4)
  <2>1. AwaitsEntry(r.conn, Stream(r.segm, r.conn))
    <3>1. AwaitsEntry(r.conn, Stream(s, c))
      BY <1>6, <1>7, SameExpected
    <3> QED
      BY <1>7, <1>11, <3>1
  <2>2. Expects(r.segm, r.conn, start, stop)
    BY <1>5, <1>8, <1>11, <2>1 DEF Expects
  <2> QED
    BY <1>3, <1>5, <1>9, <1>11, <2>2, FirstStream DEF Exit
<1> QED
  BY <1>4, <1>10, <1>11

-----------------------------------------------------------------------------
(* The segments are set up.                                                *)
LEMMA InitFirstStep ==
  ASSUME IInv, StreamInv, InitFirst
  PROVE  StreamInv'
<1> DEFINE s == segm[1]
           p == Wrap(slist, 2)
           t == [s EXCEPT !.state = "RECV_GET_REPLY"]
           req == GetReq(Start(0), Stop(0))
           c == Sent(first, req)
<1>1. /\ Len(segm) = 1 /\ s \in Segment /\ s.fd \in Fds
      /\ PosOK(s, 0) /\ s.status # "DONE" /\ s.state = "CONNECTED"
      /\ conn \in [Fds -> Conn] /\ first \in Conn /\ first.st # "free"
  BY FirstFound DEF InitFirst
<1>2. /\ slist \in Lists /\ slist[NServers + 1] = NoServer
      /\ UNCHANGED <<e, cur, edits>>
  BY DEF IInv, TypeOK, InitFirst, mirror, Lists
<1>3. p \in 1 .. NServers + 1
  <2>1. 2 \in 1 .. NServers + 1
    BY GetAssumption
  <2>2. p \in 1 .. NServers
    BY <1>2, <2>1, WrapType
  <2> HIDE DEF p
  <2> QED
    BY <2>2, GetAssumption
<1>4. Sound(segm, conn) /\ Good(segm, conn)
  BY NowSound, NowGood DEF InitFirst, Running
<1>5. \/ /\ segm' = <<t>> /\ conn' = [conn EXCEPT ![s.fd] = c] /\ Goto("init")
      \/ segm' = segm /\ conn' = conn /\ pc' # "plan"
      \/ /\ segm' = segm /\ Goto("init")
         /\ \E fd \in Fds, mode \in ConnectModes : Dialled(slist, p, conn, fd, mode)
  <2>1. first = conn[s.fd]
    BY DEF first
  <2>2. [conn EXCEPT ![s.fd] = IF first.fin THEN @
                               ELSE [first EXCEPT !.req = GetReq(Start(0), Stop(0))]]
          = [conn EXCEPT ![s.fd] = c]
    BY <1>1, <2>1 DEF Sent
  <2>3. SetupFails(slist, p, conn) => conn' = conn /\ pc' # "plan"
    BY DEF SetupFails, Goto, Exit
  <2>4. Killed \/ Exit(2) => pc' # "plan"
    BY DEF Killed, Exit
  <2> HIDE DEF p
  <2> QED
    BY <2>2, <2>3, <2>4 DEF InitFirst, p
<1> HIDE DEF p
<1>6. CASE /\ segm' = <<t>> /\ conn' = [conn EXCEPT ![s.fd] = c] /\ Goto("init")
  <2>1. AtRest(first, Stream(s, first)) /\ Greeted(first)
    <3>1. Expects(s, first, Start(0), Stop(0))
      BY FirstExpects DEF InitFirst
    <3> QED
      BY <3>1 DEF StreamInv, InitFirst, first, Expects
  <2>2. /\ t \in Segment /\ t.fd = s.fd /\ t.status # "DONE" /\ t.state = "RECV_GET_REPLY"
        /\ t.buf = s.buf /\ t.pos = s.pos /\ t.pos = 0
    BY <1>1 DEF Segment, SockStates, PosOK
  <2>3. req \in Requests
    <3>1. Start(0) \in Nat /\ Stop(0) \in Nat
      <4>1. Planned /\ NrSegments \in Nat \ {0}
        BY PlanFits DEF IInv, Stage, InitFirst, Planned
      <4>2. 1 \in 1 .. NrSegments
        BY <4>1
      <4> QED
        BY <4>1, <4>2, BytesType
    <3> QED
      BY <3>1 DEF GetReq, Requests
  <2> DEFINE d == first
  <2> HIDE DEF t, s, d
  <2>4. Stream(t, d) = Stream(s, d)
    <3>1. t.buf = s.buf /\ t.pos = s.pos
      BY <2>2
    <3> QED
      BY <3>1 DEF Stream
  <2>5. c \in Conn
    BY <1>1, <2>3, SentType
  <2>6. [segm EXCEPT ![1] = t] = <<t>>
    <3>1. segm \in Seq(Segment)
      BY <1>4 DEF Sound
    <3>2. /\ [segm EXCEPT ![1] = t] \in Seq(Segment) /\ Len([segm EXCEPT ![1] = t]) = Len(segm)
          /\ [segm EXCEPT ![1] = t][1] = t
      <4>1. 1 \in 1 .. Len(segm) /\ t \in Segment
        BY <1>1, <2>2
      <4> QED
        BY <3>1, <4>1, ExceptSeq
    <3> DEFINE u == [segm EXCEPT ![1] = t]
    <3>3. u \in Seq(Segment) /\ Len(u) = 1 /\ u[1] = t
      BY <1>1, <3>2
    <3> HIDE DEF u
    <3>4. u = <<t>>
      BY <3>3
    <3> QED
      BY <3>4 DEF u
  <2>7. Expects(t, Sent(d, req), Start(0), Stop(0))
    <3>1. /\ NotOk(Stream(t, d)) /\ SameAsFirst(d) /\ d.greeted /\ d.req = NoReq
          /\ Greeted(d) /\ d \in Conn
      BY <1>1, <2>1, <2>4 DEF AtRest, d
    <3> QED
      BY <2>2, <3>1, SentExpects
  <2>8. Right(1, t, c)
    <3>1. 1 - 1 = 0
      OBVIOUS
    <3>2. Expects(t, c, Start(1 - 1), Stop(1 - 1))
      BY <2>7, <3>1 DEF d
    <3> HIDE DEF c
    <3> QED
      BY <2>2, <3>2 DEF Right, Done
  <2> HIDE DEF c
  <2>9. Good([segm EXCEPT ![1] = t], [conn EXCEPT ![t.fd] = c])
    <3>1. 1 \in 1 .. Len(segm) /\ t.fd = segm[1].fd
      BY <1>1, <2>2 DEF s
    <3> QED
      BY <1>4, <2>2, <2>5, <2>8, <3>1, GoodReplace
  <2>10. Good(segm', conn')
    BY <1>6, <2>2, <2>6, <2>9
  <2> QED
    BY <1>2, <1>6, <2>10, NextGood DEF Goto
<1>7. CASE segm' = segm /\ conn' = conn /\ pc' # "plan"
  BY <1>2, <1>7, UnmovedStream
<1>8. CASE /\ segm' = segm /\ Goto("init")
           /\ \E fd \in Fds, mode \in ConnectModes : Dialled(slist, p, conn, fd, mode)
  <2>1. Good(segm', conn')
    BY <1>2, <1>3, <1>4, <1>8, DialledGood
  <2> QED
    BY <1>2, <1>8, <2>1, NextGood DEF Goto
<1> QED
  BY <1>5, <1>6, <1>7, <1>8

LEMMA InitSegmentStep ==
  ASSUME IInv, StreamInv, InitSegment
  PROVE  StreamInv'
<1> DEFINE p == Wrap(slist, serv)
<1>1. /\ slist \in Lists /\ slist[NServers + 1] = NoServer
      /\ serv \in 1 .. NServers + 1
      /\ UNCHANGED <<e, cur, edits>>
  BY DEF IInv, TypeOK, InitSegment, mirror, Lists
<1>2. Sound(segm, conn) /\ Good(segm, conn)
  BY NowSound, NowGood DEF InitSegment, Running
<1>3. p \in 1 .. NServers + 1
  <2>1. p \in 1 .. NServers
    BY <1>1, WrapType
  <2> HIDE DEF p
  <2> QED
    BY <2>1, GetAssumption
<1>4. \/ SetupFails(slist, p, conn) /\ segm' = segm
      \/ \E fd \in Fds, mode \in ConnectModes :
           /\ Dialled(slist, p, conn, fd, mode)
           /\ segm' = Append(segm, NewSegm(fd, DialledState(mode)))
           /\ Goto("init")
  BY DEF InitSegment
<1> HIDE DEF p
<1>5. CASE SetupFails(slist, p, conn) /\ segm' = segm
  BY <1>1, <1>5, UnmovedStream DEF SetupFails, Goto, Exit
<1>6. ASSUME NEW fd \in Fds, NEW mode \in ConnectModes,
             Dialled(slist, p, conn, fd, mode),
             segm' = Append(segm, NewSegm(fd, DialledState(mode))),
             Goto("init")
      PROVE  StreamInv'
  <2> DEFINE t == NewSegm(fd, DialledState(mode))
             c == NewConn(slist[p], mode)
             l == Len(segm) + 1
  <2>1. Good(segm, conn')
    BY <1>1, <1>2, <1>3, <1>6, DialledGood
  <2>2. conn'[fd] = c
    BY <1>2, <1>6 DEF Dialled, Sound
  <2>3. t.fd = fd /\ t.status # "DONE"
    BY DEF NewSegm
  <2>4. \A start, stop : Expects(t, c, start, stop)
    <3>1. slist[p] \in Servers /\ mode \in AllModes
      BY <1>1, <1>3, <1>6, GetAssumption DEF Dialled, CanDial, Lists
    <3> QED
      BY <3>1, NewExpects
  <2> HIDE DEF t, c
  <2>5. /\ Len(segm') = l /\ segm'[l] = t
        /\ \A k \in 1 .. Len(segm) : segm'[k] = segm[k]
    BY <1>2, <1>6 DEF Sound, t
  <2>6. \A k \in 1 .. l : k = l \/ k \in 1 .. Len(segm)
    BY <1>2 DEF Sound
  <2>7. ASSUME NEW k \in 1 .. Len(segm')
        PROVE  Right(k, segm'[k], conn'[segm'[k].fd])
    <3>1. CASE k = l
      <4>1. Right(l, t, c)
        BY <2>3, <2>4 DEF Right, Done
      <4> QED
        BY <2>2, <2>3, <2>5, <3>1, <4>1
    <3>2. CASE k \in 1 .. Len(segm)
      BY <2>1, <2>5, <3>2 DEF Good
    <3> QED
      BY <2>5, <2>6, <2>7, <3>1, <3>2
  <2>8. Good(segm', conn')
    BY <2>7 DEF Good
  <2> QED
    BY <1>1, <1>6, <2>8, NextGood DEF Goto
<1> QED
  BY <1>4, <1>5, <1>6
-----------------------------------------------------------------------------
(* The network and the servers.  Whoever waits on c can wait on d.         *)
InGet(s) == s.state \in {"RECV_GET_REPLY", "RECV_GET_DATA"}

Carries(c, d) ==
  \A s \in Segment : s.pos <= Len(s.buf) =>
    /\ AtRest(c, Stream(s, c)) => AtRest(d, Stream(s, d))
    /\ \A start, stop :
         /\ InGet(s) => start \in Nat /\ stop \in Nat /\ start < stop
         /\ Expects(s, c, start, stop)
         => Expects(s, d, start, stop)

(* Bytes are only asked once the segments are known.                       *)
LEMMA GetPlanned ==
  ASSUME IInv, pc \in Running, NEW k \in 1 .. Len(segm), ~Done(segm[k]), InGet(segm[k])
  PROVE  Start(k - 1) \in Nat /\ Stop(k - 1) \in Nat /\ Start(k - 1) < Stop(k - 1)
<1>1. pc \in {"init"} \cup Looping
  <2>1. ASSUME NEW state, Only(state), state \notin {"RECV_GET_REPLY", "RECV_GET_DATA"}
        PROVE  FALSE
    <3>1. k = 1
      BY <2>1 DEF Only
    <3> QED
      BY <2>1, <3>1 DEF Only, InGet
  <2>2. pc # "connect"
    BY DEF IInv
  <2>3. pc \notin {"handshake", "sizeStatus", "sizeLine", "plan"}
    BY <2>1 DEF IInv, Stage
  <2> QED
    BY <2>2, <2>3 DEF Running, Looping
<1>2. Planned /\ Len(segm) <= NrSegments /\ Len(segm) \in Nat
  <2>1. Len(segm) \in Nat
    BY DEF IInv, TypeOK
  <2> QED
    BY <1>1, <2>1 DEF IInv, Stage
<1>3. NrSegments \in Nat
  BY <1>2, PlanFits DEF Planned
<1>4. k \in 1 .. NrSegments
  BY <1>2, <1>3
<1> QED
  BY <1>2, <1>4, BytesType

LEMMA UpdateStream ==
  ASSUME IInv, StreamInv, pc \in Running, NEW f \in Fds, NEW c,
         Carries(conn[f], c), Update(f, c), UNCHANGED <<client, mirror>>
  PROVE  StreamInv'
<1>1. Sound(segm, conn) /\ Good(segm, conn)
  BY NowSound, NowGood
<1>2. UNCHANGED <<pc, e, segm, cur, edits>>
  BY DEF client, mirror
<1>3. /\ conn \in [Fds -> Conn] /\ segm \in Seq(Segment)
      /\ \A g \in Fds : conn'[g] = IF g = f THEN c ELSE conn[g]
  BY <1>1 DEF Sound, Update
<1>4. ASSUME NEW k \in 1 .. Len(segm)
      PROVE  Right(k, segm[k], conn'[segm[k].fd])
  <2> DEFINE s == segm[k]
  <2>1. s \in Segment /\ s.fd \in Fds /\ s.pos <= Len(s.buf)
    <3>1. s \in Segment
      BY <1>3
    <3> QED
      BY <1>1, <3>1 DEF Segment, Sound, PosOK
  <2>2. Right(k, s, conn[s.fd])
    BY <1>1 DEF Good
  <2>3. CASE Done(s)
    BY <2>2, <2>3 DEF Right
  <2>4. CASE ~Done(s) /\ s.fd # f
    BY <1>3, <2>1, <2>2, <2>4
  <2>5. CASE ~Done(s) /\ s.fd = f
    <3>1. InGet(s) => Start(k - 1) \in Nat /\ Stop(k - 1) \in Nat
                      /\ Start(k - 1) < Stop(k - 1)
      BY <2>5, GetPlanned
    <3>2. Expects(s, conn[f], Start(k - 1), Stop(k - 1))
      BY <2>2, <2>5 DEF Right
    <3> HIDE DEF s
    <3>3. Expects(s, c, Start(k - 1), Stop(k - 1))
      BY <2>1, <3>1, <3>2 DEF Carries
    <3>4. conn'[s.fd] = c
      BY <1>3, <2>1, <2>5
    <3>5. Right(k, s, conn'[s.fd])
      BY <2>5, <3>3, <3>4 DEF Right
    <3> QED
      BY <3>5 DEF s
  <2> QED
    BY <2>3, <2>4, <2>5
<1>5. Good(segm', conn')
  BY <1>2, <1>4 DEF Good
<1>6. pc' = "plan" => AtRest(conn'[segm'[1].fd], Stream(segm'[1], conn'[segm'[1].fd]))
  <2> SUFFICES ASSUME pc = "plan"
               PROVE  AtRest(conn'[segm[1].fd], Stream(segm[1], conn'[segm[1].fd]))
    BY <1>2
  <2> DEFINE s == segm[1]
  <2>1. s \in Segment /\ s.fd \in Fds /\ s.pos <= Len(s.buf)
    BY FirstFound DEF PosOK
  <2>2. AtRest(conn[s.fd], Stream(s, conn[s.fd]))
    BY DEF StreamInv
  <2> HIDE DEF s
  <2>3. AtRest(conn'[s.fd], Stream(s, conn'[s.fd]))
    <3>1. CASE s.fd = f
      BY <1>3, <2>1, <2>2, <3>1 DEF Carries
    <3>2. CASE s.fd # f
      BY <1>3, <2>1, <2>2, <3>2
    <3> QED
      BY <3>1, <3>2
  <2> QED
    BY <2>3 DEF s
<1> QED
  BY <1>2, <1>5, <1>6, NextStream

(* An attempt to connect ends.                                             *)
LEMMA OpenedCarries ==
  ASSUME NEW c \in Conn, c.st = "opening", NEW st
  PROVE  Carries(c, [c EXCEPT !.st = st])
<1> DEFINE d == [c EXCEPT !.st = st]
<1>1. /\ d.greeted = c.greeted /\ d.req = c.req /\ d.srv = c.srv
      /\ d.avail = c.avail /\ d.flight = c.flight
  BY DEF Conn
<1> HIDE DEF d
<1>2. ASSUME NEW s \in Segment
      PROVE  /\ AtRest(c, Stream(s, c)) => AtRest(d, Stream(s, d))
             /\ \A start, stop : Expects(s, c, start, stop) => Expects(s, d, start, stop)
  <2>1. Stream(s, d) = Stream(s, c)
    BY <1>1, SameStream
  <2>2. ASSUME NEW start, NEW stop, Expects(s, c, start, stop)
        PROVE  Expects(s, d, start, stop)
    <3>1. ~c.greeted
      BY <2>2 DEF Expects, Greeted
    <3>2. s.state \in {"CONNECTING", "RECV_HANDSHAKE"} => AwaitsGreeting(d, Stream(s, d))
      BY <1>1, <2>1, <2>2 DEF Expects, AwaitsGreeting
    <3> QED
      BY <1>1, <2>2, <3>1, <3>2 DEF Expects, Greeted
  <2> QED
    BY <1>1, <2>1, <2>2 DEF AtRest, SameAsFirst
<1> QED
  BY <1>2 DEF Carries, d

LEMMA EstablishStream ==
  ASSUME IInv, StreamInv, pc \in Running, NEW f \in Fds, Establish(f) \/ Refuse(f),
         UNCHANGED <<client, mirror>>
  PROVE  StreamInv'
<1>1. PICK st : Update(f, [conn[f] EXCEPT !.st = st])
  BY DEF Establish, Refuse
<1>2. conn[f] \in Conn /\ conn[f].st = "opening"
  BY DEF IInv, TypeOK, Establish, Refuse
<1>3. Carries(conn[f], [conn[f] EXCEPT !.st = st])
  BY <1>2, OpenedCarries
<1> QED
  BY <1>1, <1>3, UpdateStream

-----------------------------------------------------------------------------
(* What a server sends is added to the stream.                             *)
LEMMA MoreStream ==
  ASSUME NEW s \in Segment, s.pos <= Len(s.buf), NEW c \in Conn, NEW d,
         NEW m \in Seq(Unit), d.avail = c.avail, d.flight = c.flight \o m
  PROVE  Stream(s, d) = Stream(s, c) \o m
<1> DEFINE a == SubSeq(s.buf, 1, s.pos)
           x == c.avail
           y == c.flight
<1>1. a \in Seq(Unit) /\ x \in Seq(Unit) /\ y \in Seq(Unit)
  BY StreamType
<1>2. Stream(s, d) = (a \o x) \o (y \o m) /\ Stream(s, c) = (a \o x) \o y
  BY DEF Stream
<1> HIDE DEF a, x, y
<1>3. a \o x \in Seq(Unit)
  BY <1>1, Joined
<1> DEFINE w == a \o x
<1>4. w \in Seq(Unit)
  BY <1>3
<1> HIDE DEF w
<1>5. (w \o y) \o m = w \o (y \o m)
  BY <1>1, <1>4, Regroup
<1> QED
  BY <1>2, <1>5 DEF w

LEMMA AcceptCarries ==
  ASSUME NEW c \in Conn, c.st = "up", c.srv \in Servers, ~c.greeted
  PROVE  Carries(c, [c EXCEPT !.greeted = TRUE, !.flight = @ \o AckMsg])
<1> DEFINE d == [c EXCEPT !.greeted = TRUE, !.flight = @ \o AckMsg]
<1>1. /\ d.greeted /\ d.req = c.req /\ d.srv = c.srv /\ d.st = c.st
      /\ d.avail = c.avail /\ d.flight = c.flight \o AckMsg
  BY DEF Conn
<1> HIDE DEF d
<1>2. Greeted(d)
  BY <1>1 DEF Greeted
<1>3. ASSUME NEW s \in Segment, s.pos <= Len(s.buf), NEW start, NEW stop,
             Expects(s, c, start, stop)
      PROVE  Expects(s, d, start, stop)
  <2>1. CASE s.state \in {"CONNECTING", "RECV_HANDSHAKE"}
    <3>1. Stream(s, c) = <<>> /\ c.req = NoReq
      BY <1>3, <2>1 DEF Expects, AwaitsGreeting
    <3>2. Stream(s, d) = <<>> \o AckMsg
      BY <1>1, <1>3, <3>1, MoreStream, MessagesType
    <3>3. Stream(s, d) = AckMsg
      BY <3>2, MessagesType, ConcatEmptySeq
    <3>4. AwaitsGreeting(d, Stream(s, d))
      BY <1>1, <3>1, <3>3, BeginsSelf, MessagesType DEF AwaitsGreeting
    <3> QED
      BY <1>2, <2>1, <3>4 DEF Expects
  <2>2. CASE s.state \notin {"CONNECTING", "RECV_HANDSHAKE"}
    BY <1>2, <1>3, <2>2 DEF Expects
  <2> QED
    BY <2>1, <2>2
<1> QED
  BY <1>3 DEF Carries, AtRest, d

LEMMA AcceptStream ==
  ASSUME IInv, StreamInv, pc \in Running, NEW f \in Fds, NEW s \in Servers, Accept(s, f),
         UNCHANGED <<client, mirror>>
  PROVE  StreamInv'
<1> DEFINE c == conn[f]
           d == [c EXCEPT !.greeted = TRUE, !.flight = @ \o AckMsg]
<1>1. c \in Conn /\ c.st = "up" /\ c.srv \in Servers /\ ~c.greeted
  BY DEF IInv, TypeOK, Accept
<1>2. Update(f, d)
  BY DEF Accept
<1> HIDE DEF c
<1>3. Carries(c, d)
  BY <1>1, AcceptCarries
<1> HIDE DEF d
<1> QED
  BY <1>2, <1>3, UpdateStream DEF c
(* What arrives was on its way.                                            *)
LEMMA DeliverCarries ==
  ASSUME NEW c \in Conn, NEW n \in 1 .. Len(c.flight)
  PROVE  Carries(c, [c EXCEPT !.avail = @ \o SubSeq(c.flight, 1, n),
                              !.flight = SubSeq(c.flight, n + 1, Len(c.flight))])
<1> DEFINE d == [c EXCEPT !.avail = @ \o SubSeq(c.flight, 1, n),
                          !.flight = SubSeq(c.flight, n + 1, Len(c.flight))]
           x == SubSeq(c.flight, 1, n)
           y == SubSeq(c.flight, n + 1, Len(c.flight))
<1>1. /\ d.greeted = c.greeted /\ d.req = c.req /\ d.srv = c.srv /\ d.st = c.st
      /\ d.avail = c.avail \o x /\ d.flight = y
  BY DEF Conn
<1> DEFINE z == c.flight
<1>2. z \in Seq(Unit) /\ c.avail \in Seq(Unit)
  BY DEF Conn
<1>3. x \in Seq(Unit) /\ y \in Seq(Unit) /\ x \o y = z
  <2> HIDE DEF z
  <2>1. SubSeq(z, 1, n) \in Seq(Unit) /\ SubSeq(z, n + 1, Len(z)) \in Seq(Unit)
    BY <1>2 DEF z
  <2>2. SubSeq(z, 1, n) \o SubSeq(z, n + 1, Len(z)) = z
    <3>1. /\ 1 \in 1 .. Len(z) + 1 /\ n \in 1 - 1 .. Len(z) /\ Len(z) \in n .. Len(z)
      BY <1>2 DEF z
    <3>2. SubSeq(z, 1, n) \o SubSeq(z, n + 1, Len(z)) = SubSeq(z, 1, Len(z))
      BY <1>2, <3>1, ConcatAdjacentSubSeq
    <3> QED
      BY <1>2, <3>2, SubSeqFull
  <2> QED
    BY <2>1, <2>2 DEF z
<1> HIDE DEF d, x, y
<1>4. ASSUME NEW s \in Segment, s.pos <= Len(s.buf)
      PROVE  Stream(s, d) = Stream(s, c)
  <2> DEFINE a == SubSeq(s.buf, 1, s.pos)
             b == c.avail
  <2>1. a \in Seq(Unit)
    BY <1>4, StreamType
  <2>2. Stream(s, d) = (a \o (b \o x)) \o y /\ Stream(s, c) = (a \o b) \o z
    BY <1>1 DEF Stream
  <2>3. b \in Seq(Unit)
    BY <1>2
  <2> HIDE DEF a, b, z
  <2>4. /\ a \o b \in Seq(Unit)
        /\ a \o (b \o x) = (a \o b) \o x
    BY <1>3, <2>1, <2>3, Joined, Regroup, ZenonT(30)
  <2> DEFINE w == a \o b
  <2>5. w \in Seq(Unit)
    BY <2>4
  <2> HIDE DEF w
  <2>6. (w \o x) \o y = w \o (x \o y)
    BY <1>3, <2>5, Regroup
  <2> QED
    BY <1>3, <2>2, <2>4, <2>6 DEF w
<1>5. ASSUME NEW t
      PROVE  /\ Greeted(d) <=> Greeted(c)
             /\ AwaitsGreeting(d, t) <=> AwaitsGreeting(c, t)
             /\ AwaitsSize(d, t) <=> AwaitsSize(c, t)
             /\ AwaitsEntry(d, t) <=> AwaitsEntry(c, t)
             /\ SameAsFirst(d) <=> SameAsFirst(c)
             /\ \A start, stop : AwaitsGet(d, t, start, stop) <=> AwaitsGet(c, t, start, stop)
             /\ \A start, stop :
                  AwaitsBytes(d, t, start, stop) <=> AwaitsBytes(c, t, start, stop)
  BY <1>1 DEF Greeted, AwaitsGreeting, AwaitsSize, AwaitsEntry, SameAsFirst,
     Held, AwaitsGet, AwaitsBytes
<1>6. ASSUME NEW s \in Segment, s.pos <= Len(s.buf), NEW start, NEW stop,
             Expects(s, c, start, stop)
      PROVE  Expects(s, d, start, stop)
  <2> DEFINE t == Stream(s, c)
  <2>1. Stream(s, d) = t
    BY <1>4, <1>6
  <2> HIDE DEF t
  <2>2. /\ Greeted(d) <=> Greeted(c)
        /\ AwaitsGreeting(d, t) <=> AwaitsGreeting(c, t)
        /\ AwaitsSize(d, t) <=> AwaitsSize(c, t)
        /\ AwaitsEntry(d, t) <=> AwaitsEntry(c, t)
        /\ SameAsFirst(d) <=> SameAsFirst(c)
        /\ AwaitsGet(d, t, start, stop) <=> AwaitsGet(c, t, start, stop)
        /\ AwaitsBytes(d, t, start, stop) <=> AwaitsBytes(c, t, start, stop)
    BY <1>5
  <2>3. Stream(s, c) = t
    BY DEF t
  <2> QED
    BY <1>1, <1>6, <2>1, <2>2, <2>3, Zenon DEF Expects
<1>7. ASSUME NEW s \in Segment, s.pos <= Len(s.buf), AtRest(c, Stream(s, c))
      PROVE  AtRest(d, Stream(s, d))
  <2>1. Stream(s, d) = Stream(s, c)
    BY <1>4, <1>7
  <2> QED
    BY <1>1, <1>5, <1>7, <2>1 DEF AtRest
<1> QED
  BY <1>6, <1>7 DEF Carries, d

LEMMA DeliverStream ==
  ASSUME IInv, StreamInv, pc \in Running, NEW f \in Fds, Deliver(f),
         UNCHANGED <<client, mirror>>
  PROVE  StreamInv'
<1> DEFINE c == conn[f]
           n == IF whole THEN Len(c.flight) ELSE 1
           d == [c EXCEPT !.avail = @ \o SubSeq(c.flight, 1, n),
                          !.flight = SubSeq(c.flight, n + 1, Len(c.flight))]
<1>1. c \in Conn /\ c.flight # <<>> /\ Update(f, d)
  BY DEF IInv, TypeOK, Deliver
<1>2. c.flight \in Seq(Unit)
  BY <1>1 DEF Conn
<1>3. n \in 1 .. Len(c.flight)
  <2> HIDE DEF c
  <2> QED
    BY <1>1, <1>2
<1> HIDE DEF n
<1>4. Carries(c, d)
  <2> HIDE DEF c
  <2> QED
    BY <1>1, <1>3, DeliverCarries
<1> HIDE DEF d
<1> QED
  BY <1>1, <1>4, UpdateStream DEF c

(* What is lost is the end of the stream.                                  *)
LEMMA PartExpects ==
  ASSUME NEW c, NEW d, d.greeted = c.greeted, d.req = c.req, d.srv = c.srv,
         NEW a \in Seq(Unit), NEW b \in Seq(Unit),
         NEW t, t = a \o b
  PROVE  /\ AwaitsGreeting(c, t) => AwaitsGreeting(d, a)
         /\ AwaitsSize(c, t) => AwaitsSize(d, a)
         /\ AwaitsEntry(c, t) => AwaitsEntry(d, a)
         /\ SameAsFirst(d) <=> SameAsFirst(c)
         /\ \A start, stop \in Nat : start < stop /\ AwaitsGet(c, t, start, stop)
                                       => AwaitsGet(d, a, start, stop)
         /\ \A start, stop \in Nat : start < stop /\ AwaitsBytes(c, t, start, stop)
                                       => AwaitsBytes(d, a, start, stop)
<1>1. \A m \in Seq(Unit) : Begins(t, m) => Begins(a, m)
  BY BeginsPart
<1>2. NotOk(t) => NotOk(a)
  BY NotOkPart
<1>3. t = <<>> => a = <<>>
  <2>1. Len(t) = Len(a) + Len(b) /\ Len(a) \in Nat /\ Len(b) \in Nat
    BY Joined
  <2>2. Len(a) = 0 => a = <<>>
    BY EmptySeq
  <2> QED
    BY <2>1, <2>2
<1>4. \A v : Held(d, v) <=> Held(c, v)
  BY DEF Held
<1>5. AwaitsGreeting(c, t) => AwaitsGreeting(d, a)
  BY <1>1, <1>3, MessagesType DEF AwaitsGreeting
<1>6. AwaitsSize(c, t) => AwaitsSize(d, a)
  BY <1>1, <1>2, <1>3, <1>4, MessagesType DEF AwaitsSize
<1>7. AwaitsEntry(c, t) => AwaitsEntry(d, a)
  BY <1>1, <1>4, EntryLineType DEF AwaitsEntry
<1>8. ASSUME NEW start \in Nat, NEW stop \in Nat, start < stop
      PROVE  /\ AwaitsGet(c, t, start, stop) => AwaitsGet(d, a, start, stop)
             /\ AwaitsBytes(c, t, start, stop) => AwaitsBytes(d, a, start, stop)
  <2>1. \A v \in Versions : Slice(v, start, stop) \o EndMsg \in Seq(Unit)
    BY <1>8, PieceType
  <2>2. \A v \in Versions : GetReply(v, start, stop) \in Seq(Unit)
    <3>1. ASSUME NEW v \in Versions
          PROVE  GetReply(v, start, stop) \in Seq(Unit)
      <4>1. GetReply(v, start, stop) = OkMsg \o (Slice(v, start, stop) \o EndMsg)
        BY <1>8, PieceType
      <4> QED
        BY <2>1, <4>1, Joined, MessagesType
    <3> QED
      BY <3>1
  <2>3. AwaitsGet(c, t, start, stop) => AwaitsGet(d, a, start, stop)
    BY <1>1, <1>2, <1>4, <2>2 DEF AwaitsGet
  <2>4. AwaitsBytes(c, t, start, stop) => AwaitsBytes(d, a, start, stop)
    BY <1>1, <1>4, <2>1 DEF AwaitsBytes
  <2> QED
    BY <2>3, <2>4
<1> QED
  BY <1>5, <1>6, <1>7, <1>8 DEF SameAsFirst

LEMMA DropCarries ==
  ASSUME NEW c \in Conn, c.st = "up"
  PROVE  Carries(c, [c EXCEPT !.fin = TRUE, !.flight = <<>>])
<1> DEFINE d == [c EXCEPT !.fin = TRUE, !.flight = <<>>]
<1>1. /\ d.greeted = c.greeted /\ d.req = c.req /\ d.srv = c.srv /\ d.st = c.st
      /\ d.avail = c.avail /\ d.flight = <<>>
  BY DEF Conn
<1> HIDE DEF d
<1>2. ASSUME NEW s \in Segment, s.pos <= Len(s.buf)
      PROVE  /\ Stream(s, d) \in Seq(Unit) /\ c.flight \in Seq(Unit)
             /\ Stream(s, c) = Stream(s, d) \o c.flight
  <2> DEFINE a == SubSeq(s.buf, 1, s.pos)
             b == c.avail
  <2>1. a \in Seq(Unit) /\ b \in Seq(Unit) /\ c.flight \in Seq(Unit)
    BY <1>2, StreamType
  <2>2. Stream(s, d) = (a \o b) \o <<>> /\ Stream(s, c) = (a \o b) \o c.flight
    BY <1>1 DEF Stream
  <2> HIDE DEF a, b
  <2> DEFINE w == a \o b
  <2>3. w \in Seq(Unit)
    BY <2>1, Joined
  <2>4. Stream(s, d) = w \o <<>> /\ Stream(s, c) = w \o c.flight
    BY <2>2
  <2> HIDE DEF w
  <2>5. w \o <<>> = w
    BY <2>3, ConcatEmptySeq
  <2> QED
    BY <2>1, <2>3, <2>4, <2>5
<1>3. ASSUME NEW s \in Segment, s.pos <= Len(s.buf), NEW start, NEW stop,
             InGet(s) => start \in Nat /\ stop \in Nat /\ start < stop,
             Expects(s, c, start, stop)
      PROVE  Expects(s, d, start, stop)
  <2> DEFINE t == Stream(s, c)
             a == Stream(s, d)
             b == c.flight
  <2>1. a \in Seq(Unit) /\ b \in Seq(Unit) /\ t = a \o b
    BY <1>2, <1>3
  <2>2. /\ Greeted(c)
        /\ s.state \in {"CONNECTING", "RECV_HANDSHAKE"} => AwaitsGreeting(c, t)
        /\ s.state = "RECV_SIZE_REPLY" => c.greeted /\ AwaitsSize(c, t)
        /\ s.state = "RECV_SIZE_DATA"  => c.greeted /\ AwaitsEntry(c, t)
        /\ s.state = "RECV_GET_REPLY"  =>
             c.greeted /\ SameAsFirst(c) /\ AwaitsGet(c, t, start, stop)
        /\ s.state = "RECV_GET_DATA"   =>
             c.greeted /\ SameAsFirst(c) /\ AwaitsBytes(c, t, start, stop)
    BY <1>3 DEF Expects
  <2> SUFFICES
        /\ Greeted(d)
        /\ s.state \in {"CONNECTING", "RECV_HANDSHAKE"} => AwaitsGreeting(d, a)
        /\ s.state = "RECV_SIZE_REPLY" => d.greeted /\ AwaitsSize(d, a)
        /\ s.state = "RECV_SIZE_DATA"  => d.greeted /\ AwaitsEntry(d, a)
        /\ s.state = "RECV_GET_REPLY"  =>
             d.greeted /\ SameAsFirst(d) /\ AwaitsGet(d, a, start, stop)
        /\ s.state = "RECV_GET_DATA"   =>
             d.greeted /\ SameAsFirst(d) /\ AwaitsBytes(d, a, start, stop)
    BY DEF Expects
  <2> HIDE DEF t, a, b
  <2>3. /\ AwaitsGreeting(c, t) => AwaitsGreeting(d, a)
        /\ AwaitsSize(c, t) => AwaitsSize(d, a)
        /\ AwaitsEntry(c, t) => AwaitsEntry(d, a)
        /\ SameAsFirst(d) <=> SameAsFirst(c)
    BY <1>1, <2>1, PartExpects
  <2>4. ASSUME InGet(s)
        PROVE  /\ AwaitsGet(c, t, start, stop) => AwaitsGet(d, a, start, stop)
               /\ AwaitsBytes(c, t, start, stop) => AwaitsBytes(d, a, start, stop)
    BY <1>1, <1>3, <2>1, <2>4, PartExpects
  <2>5. Greeted(d)
    BY <1>1, <2>2 DEF Greeted
  <2> QED
    BY <1>1, <2>2, <2>3, <2>4, <2>5 DEF InGet
<1>4. ASSUME NEW s \in Segment, s.pos <= Len(s.buf), AtRest(c, Stream(s, c))
      PROVE  AtRest(d, Stream(s, d))
  <2> DEFINE a == Stream(s, d)
             b == c.flight
  <2>1. a \in Seq(Unit) /\ b \in Seq(Unit) /\ NotOk(a \o b)
    BY <1>2, <1>4 DEF AtRest
  <2> HIDE DEF a, b
  <2>2. NotOk(a)
    BY <2>1, NotOkPart
  <2> QED
    BY <1>1, <1>4, <2>2 DEF AtRest, SameAsFirst, a
<1> QED
  BY <1>3, <1>4 DEF Carries, d

LEMMA DropStream ==
  ASSUME IInv, StreamInv, pc \in Running, NEW f \in Fds, Drop(f),
         UNCHANGED <<client, mirror>>
  PROVE  StreamInv'
<1> DEFINE c == conn[f]
           d == [c EXCEPT !.fin = TRUE, !.flight = <<>>]
<1>1. c \in Conn /\ c.st = "up" /\ Update(f, d)
  BY DEF IInv, TypeOK, Drop
<1>2. Carries(c, d)
  <2> HIDE DEF c
  <2> QED
    BY <1>1, DropCarries
<1> HIDE DEF d
<1> QED
  BY <1>1, <1>2, UpdateStream DEF c
(* Only the request that a segment waits for is answered, and what is sent *)
(* is the answer.                                                          *)
LEMMA AnswerCarries ==
  ASSUME NEW c \in Conn, c.greeted, c.req.op # "none", NEW m \in Seq(Unit), NEW end,
         c.req.op = "size" => \/ NotOk(m) /\ m # <<>>
                              \/ \E v \in Versions : Held(c, v) /\ m = SizeReply(v),
         c.req.op # "size" => \/ NotOk(m) /\ m # <<>>
                              \/ \E v \in Versions :
                                   Held(c, v) /\ m = GetReply(v, c.req.from, c.req.to)
  PROVE  Carries(c, [c EXCEPT !.req = NoReq, !.flight = @ \o m, !.fin = end])
<1> DEFINE d == [c EXCEPT !.req = NoReq, !.flight = @ \o m, !.fin = end]
<1>1. /\ d.greeted = c.greeted /\ d.req = NoReq /\ d.srv = c.srv /\ d.st = c.st
      /\ d.avail = c.avail /\ d.flight = c.flight \o m
  BY DEF Conn
<1> HIDE DEF d
<1>2. c.req # NoReq
  BY DEF NoReq
<1>3. ASSUME NEW s \in Segment, s.pos <= Len(s.buf)
      PROVE  Stream(s, c) \in Seq(Unit) /\ Stream(s, d) = Stream(s, c) \o m
  <2>1. Stream(s, c) \in Seq(Unit)
    BY <1>3, StreamType
  <2>2. d.avail = c.avail /\ d.flight = c.flight \o m
    BY <1>1
  <2>3. Stream(s, d) = Stream(s, c) \o m
    BY <1>3, <2>2, MoreStream
  <2> QED
    BY <2>1, <2>3
<1>4. (\A v : Held(d, v) <=> Held(c, v)) /\ (SameAsFirst(d) <=> SameAsFirst(c))
  BY <1>1 DEF Held, SameAsFirst
<1>5. <<>> \o m = m
  BY ConcatEmptySeq
<1>6. ASSUME NEW s \in Segment, s.pos <= Len(s.buf), NEW start, NEW stop,
             InGet(s) => start \in Nat /\ stop \in Nat /\ start < stop,
             Expects(s, c, start, stop)
      PROVE  Expects(s, d, start, stop)
  <2> DEFINE t == Stream(s, c)
             u == Stream(s, d)
  <2>1. t \in Seq(Unit) /\ u = t \o m
    BY <1>3, <1>6
  <2>2. /\ Greeted(c)
        /\ s.state \in {"CONNECTING", "RECV_HANDSHAKE"} => AwaitsGreeting(c, t)
        /\ s.state = "RECV_SIZE_REPLY" => AwaitsSize(c, t)
        /\ s.state = "RECV_SIZE_DATA"  => AwaitsEntry(c, t)
        /\ s.state = "RECV_GET_REPLY"  => SameAsFirst(c) /\ AwaitsGet(c, t, start, stop)
        /\ s.state = "RECV_GET_DATA"   => AwaitsBytes(c, t, start, stop)
    BY <1>6 DEF Expects
  <2>3. /\ s.state \notin {"CONNECTING", "RECV_HANDSHAKE", "RECV_SIZE_DATA", "RECV_GET_DATA"}
    BY <1>2, <2>2 DEF AwaitsGreeting, AwaitsEntry, AwaitsBytes
  <2>4. Greeted(d) /\ d.greeted
    BY <1>1, <2>2 DEF Greeted
  <2>5. CASE s.state = "RECV_SIZE_REPLY"
    <3>1. c.req = SizeReq /\ t = <<>>
      BY <1>2, <2>2, <2>5 DEF AwaitsSize
    <3>2. u = m
      BY <1>5, <2>1, <3>1
    <3> HIDE DEF u, t
    <3>3. ASSUME NotOk(m)
          PROVE  AwaitsSize(d, u)
      BY <1>1, <3>2, <3>3 DEF AwaitsSize
    <3>4. ASSUME \E v \in Versions : Held(c, v) /\ m = SizeReply(v)
          PROVE  AwaitsSize(d, u)
      <4>1. PICK v \in Versions : Held(c, v) /\ m = SizeReply(v)
        BY <3>4
      <4>2. Held(d, v) /\ Begins(u, SizeReply(v))
        BY <1>4, <3>2, <4>1, BeginsSelf
      <4> QED
        BY <1>1, <4>2 DEF AwaitsSize
    <3>5. NotOk(m) \/ \E v \in Versions : Held(c, v) /\ m = SizeReply(v)
      BY <3>1 DEF SizeReq
    <3>6. AwaitsSize(d, u)
      BY <3>3, <3>4, <3>5
    <3> QED
      BY <2>4, <2>5, <3>6 DEF Expects, u
  <2>6. CASE s.state = "RECV_GET_REPLY"
    <3>1. c.req = GetReq(start, stop) /\ NotOk(t) /\ SameAsFirst(d)
      BY <1>2, <1>4, <2>2, <2>6 DEF AwaitsGet
    <3>2. c.req.op # "size" /\ c.req.from = start /\ c.req.to = stop
      BY <3>1 DEF GetReq
    <3>3. AwaitsGet(d, u, start, stop)
      <4> HIDE DEF u, t
      <4>1. CASE t # <<>>
        BY <1>1, <2>1, <3>1, <4>1, NotOkMore DEF AwaitsGet
      <4>2. CASE t = <<>>
        <5>1. u = m
          BY <1>5, <2>1, <4>2
        <5>2. CASE NotOk(m)
          BY <1>1, <5>1, <5>2 DEF AwaitsGet
        <5>3. CASE \E v \in Versions : Held(c, v) /\ m = GetReply(v, start, stop)
          <6>1. PICK v \in Versions : Held(c, v) /\ m = GetReply(v, start, stop)
            BY <5>3
          <6>2. Held(d, v) /\ Begins(u, GetReply(v, start, stop))
            BY <1>4, <5>1, <6>1, BeginsSelf
          <6> QED
            BY <1>1, <6>2 DEF AwaitsGet
        <5> QED
          BY <3>2, <5>2, <5>3
      <4> QED
        BY <4>1, <4>2
    <3> QED
      BY <2>4, <2>6, <3>1, <3>3 DEF Expects
  <2>7. CASE s.state \notin {"RECV_SIZE_REPLY", "RECV_GET_REPLY"}
    BY <2>3, <2>4, <2>7 DEF Expects
  <2> QED
    BY <2>5, <2>6, <2>7
<1> QED
  BY <1>2, <1>6 DEF Carries, AtRest, d

LEMMA AnswerStream ==
  ASSUME IInv, StreamInv, pc \in Running, NEW f \in Fds, NEW s \in Servers, Answer(s, f),
         UNCHANGED <<client, mirror>>
  PROVE  StreamInv'
<1> DEFINE c == conn[f]
           v == cur[s]
           rq == c.req
           reply(msg, end) ==
             [c EXCEPT !.req = NoReq, !.flight = @ \o msg, !.fin = end]
<1>1. /\ c \in Conn /\ v \in Versions \cup {NoVersion}
      /\ c.greeted /\ c.srv = s /\ rq.op # "none"
  BY DEF IInv, TypeOK, Answer, Serving
<1>2. Update(f, IF rq.op = "size"
                THEN IF v # NoVersion THEN reply(SizeReply(v), FALSE)
                                      ELSE reply(ErrMsg, TRUE)
                ELSE IF HasRange(v, rq.from, rq.to)
                     THEN reply(GetReply(v, rq.from, rq.to), FALSE)
                     ELSE reply(ErrMsg, TRUE))
  BY DEF Answer
<1>3. rq \in Requests
  BY <1>1 DEF Conn
<1>4. Held(c, v)
  BY <1>1 DEF Held
<1> DEFINE Answers(m) ==
             /\ m \in Seq(Unit)
             /\ rq.op = "size" => \/ NotOk(m) /\ m # <<>>
                                  \/ \E x \in Versions : Held(c, x) /\ m = SizeReply(x)
             /\ rq.op # "size" => \/ NotOk(m) /\ m # <<>>
                                  \/ \E x \in Versions :
                                       Held(c, x) /\ m = GetReply(x, rq.from, rq.to)
<1>5. ASSUME NEW m, Answers(m), NEW end, Update(f, reply(m, end))
      PROVE  StreamInv'
  <2>1. Carries(c, reply(m, end))
    <3> HIDE DEF c
    <3> QED
      BY <1>1, <1>5, AnswerCarries
  <2> DEFINE d == reply(m, end)
  <2>2. Carries(conn[f], d) /\ Update(f, d)
    BY <1>5, <2>1
  <2> HIDE DEF d
  <2> QED
    BY <2>2, UpdateStream
<1>6. Answers(ErrMsg)
  <2>1. ErrMsg # <<>>
    BY DEF ErrMsg
  <2> QED
    BY <2>1, Words, MessagesType
<1>7. ASSUME rq.op = "size", v # NoVersion
      PROVE  Answers(SizeReply(v))
  <2>1. v \in Versions /\ SizeReply(v) \in Seq(Unit)
    BY <1>1, <1>7, MessagesType
  <2> QED
    BY <1>4, <1>7, <2>1
<1>8. ASSUME rq.op # "size", HasRange(v, rq.from, rq.to)
      PROVE  Answers(GetReply(v, rq.from, rq.to))
  <2>1. v \in Versions /\ rq.from \in Nat /\ rq.to \in Nat /\ rq.from < rq.to
    BY <1>1, <1>3, <1>8 DEF HasRange, Requests
  <2>3. GetReply(v, rq.from, rq.to) \in Seq(Unit)
    <3>1. Slice(v, rq.from, rq.to) \in Seq(Unit)
      BY <2>1, SliceType
    <3> HIDE DEF rq, v
    <3> QED
      BY <3>1, MessagesType DEF GetReply
  <2> QED
    BY <1>4, <1>8, <2>1, <2>3
<1> HIDE DEF reply, v, rq, c, Answers
<1> QED
  BY <1>2, <1>5, <1>6, <1>7, <1>8
-----------------------------------------------------------------------------
(* The network, failures, and a change of files: nothing is said any more  *)
(* of the current versions once one has changed.                           *)
LEMMA NetworkStream ==
  ASSUME IInv, StreamInv, Network
  PROVE  StreamInv'
  BY EstablishStream, DeliverStream, AcceptStream, AnswerStream DEF Network

LEMMA DisturbStream ==
  ASSUME IInv, StreamInv, Disturb
  PROVE  StreamInv'
  BY EstablishStream, DropStream DEF Disturb

LEMMA EditStream ==
  ASSUME IInv, StreamInv, Edit
  PROVE  StreamInv'
<1>1. UNCHANGED <<pc, e, segm, conn>>
  BY DEF Edit, client
<1>2. edits' # 0
  BY DEF Edit, IInv, TypeOK
<1>3. \A k : Start(k)' = Start(k) /\ Stop(k)' = Stop(k)
  BY <1>1 DEF Start, Stop, NrSegments
<1>4. ASSUME NEW k \in 1 .. Len(segm)
      PROVE  (IF Done(segm[k])
              THEN OneVersion(segm[k].buf, Start(k - 1), Stop(k - 1))
              ELSE Expects(segm[k], conn[segm[k].fd], Start(k - 1), Stop(k - 1)))'
  <2>1. CASE segm[k].status = "DONE"
    BY <1>1, <1>2, <1>3, <2>1 DEF StreamInv, Done, OneVersion
  <2>2. CASE segm[k].status # "DONE"
    <3>1. Expects(segm[k], conn[segm[k].fd], Start(k - 1), Stop(k - 1))
      BY <1>4, <2>2 DEF StreamInv, Done
    <3>2. Expects(segm[k], conn[segm[k].fd], Start(k - 1), Stop(k - 1))'
      BY <1>1, <1>2, <1>3, <3>1 DEF Expects, Greeted, AwaitsGreeting, AwaitsSize,
         AwaitsEntry, AwaitsGet, AwaitsBytes, Held, SameAsFirst, NotOk, Stream
    <3> QED
      BY <1>1, <2>2, <3>2 DEF Done
  <2> QED
    BY <2>1, <2>2
<1>5. (pc = "plan" => AtRest(conn[segm[1].fd], Stream(segm[1], conn[segm[1].fd])))'
  BY <1>1, <1>2 DEF StreamInv, AtRest, SameAsFirst, NotOk, Stream
<1> QED
  BY <1>1, <1>4, <1>5 DEF StreamInv

LEMMA StutterStream ==
  ASSUME StreamInv, UNCHANGED vars
  PROVE  StreamInv'
<1>1. UNCHANGED <<pc, e, segm, conn, cur, edits>>
  BY DEF vars, client, mirror
<1>2. Good(segm', conn')
  BY <1>1, NowGood
<1>3. pc' = "plan" => AtRest(conn'[segm'[1].fd], Stream(segm'[1], conn'[segm'[1].fd]))
  BY <1>1 DEF StreamInv
<1> QED
  BY <1>1, <1>2, <1>3, NextStream

LEMMA ClientStream ==
  ASSUME IInv, StreamInv, Client
  PROVE  StreamInv'
  BY ConnectStep, HandshakeStep, ReadSizeStatusStep, ReadSizeLineStep,
     InitFirstStep, InitSegmentStep, BuildSetsStream, PassStream, QuietStream
     DEF Client

(* Whatever the servers, the network and the files do, and however their   *)
(* steps and the client's are interleaved, what a segment has read and can *)
(* still read from its connection is the reply to what was asked on it.    *)
THEOREM RepliesInStep == Spec => []StreamInv
<1>1. Init => IInv /\ StreamInv
  BY InitInv, InitStream
<1>2. (IInv /\ StreamInv) /\ [Next]_vars => (IInv /\ StreamInv)'
  <2>1. IInv /\ [Next]_vars => IInv'
    BY ClientKeeps, NetworkKeeps, DisturbKeeps, EditKeeps, StutterKeeps
       DEF Next, Terminated
  <2>2. IInv /\ StreamInv /\ [Next]_vars => StreamInv'
    BY ClientStream, NetworkStream, DisturbStream, EditStream, StutterStream
       DEF Next, Terminated
  <2> QED
    BY <2>1, <2>2
<1> QED
  BY <1>1, <1>2, PTL DEF Spec
-----------------------------------------------------------------------------
(* What the claims take from it.                                           *)
LEMMA DonePiece ==
  ASSUME StreamInv
  PROVE  DoneIsOneVersionSlice
<1> SUFFICES ASSUME NEW k \in 0 .. Len(segm) - 1, Done(segm[k + 1])
             PROVE  \E v \in Versions :
                      segm[k + 1].buf = Slice(v, Start(k), Stop(k)) \o EndMsg
  BY DEF DoneIsOneVersionSlice
<1> DEFINE l == k + 1
<1>1. l \in 1 .. Len(segm) /\ l - 1 = k
  OBVIOUS
<1>2. Done(segm[l])
  OBVIOUS
<1> HIDE DEF l
<1>3. OneVersion(segm[l].buf, Start(k), Stop(k))
  BY <1>1, <1>2 DEF StreamInv
<1> QED
  BY <1>3 DEF OneVersion, l

(* A finished segment holds exactly its bytes, of one version of the file  *)
(* (get.c:457-499), although the replies come in pieces, are cut, follow a *)
(* status that was read again, and the servers' files are replaced.        *)
THEOREM DoneSegmentsAreSlices == Spec => []DoneIsOneVersionSlice
<1>1. StreamInv => DoneIsOneVersionSlice
  BY DonePiece
<1> QED
  BY <1>1, RepliesInStep, PTL

LEMMA SliceAt ==
  ASSUME NEW v, NEW start \in Nat, NEW stop \in Nat, NEW b \in start .. stop - 1
  PROVE  (Slice(v, start, stop) \o EndMsg)[b - start + 1] =
           [kind |-> "byte", of |-> v, at |-> b]
<1> DEFINE p == b - start + 1
           s == Slice(v, start, stop)
<1>1. p \in 1 .. stop - start /\ start + p - 1 = b /\ stop - start \in Nat
  OBVIOUS
<1>2. s[p] = [kind |-> "byte", of |-> v, at |-> start + p - 1] /\ Len(s) = stop - start
  BY <1>1 DEF Slice
<1>3. s \in Seq({[kind |-> "byte", of |-> v, at |-> a] : a \in Int})
  BY <1>1 DEF Slice
<1>4. (s \o EndMsg)[p] = s[p]
  <2> HIDE DEF s, p
  <2>1. Len(EndMsg) = 1
    BY DEF EndMsg
  <2> QED
    BY <1>1, <1>2, <1>3, <2>1 DEF EndMsg
<1> QED
  BY <1>1, <1>2, <1>4

LEMMA WholeFile ==
  ASSUME IInv, StreamInv
  PROVE  AssembledMatches
<1> SUFFICES ASSUME pc = "assemble", edits = 0
             PROVE  Assembled = Content(e)
  BY DEF AssembledMatches
<1>1. Planned /\ Len(segm) = NrSegments
  BY LoopingFound DEF Looping
<1>2. /\ NrSegments \in Nat \ {0} /\ SizeOf[e] \in Nat
      /\ \A k \in 1 .. Len(segm) : Done(segm[k])
  BY <1>1, PlanFits DEF IInv, Stage, AllDone, Done, Planned
<1>3. ASSUME NEW b \in 1 .. SizeOf[e]
      PROVE  segm[Owner(b - 1) + 1].buf[b - Start(Owner(b - 1))] =
               [kind |-> "byte", of |-> e, at |-> b - 1]
  <2> DEFINE k == Owner(b - 1)
             l == k + 1
             a == b - 1
  <2>1. a \in 0 .. SizeOf[e] - 1
    BY <1>2
  <2>2. k \in 0 .. NrSegments - 1 /\ Start(k) <= a /\ a < Stop(k)
    BY <1>1, <2>1, OwnerExists
  <2> HIDE DEF k
  <2>3. l \in 1 .. NrSegments /\ l - 1 = k
    BY <1>2, <2>2
  <2>4. Start(k) \in Nat /\ Stop(k) \in Nat
    BY <1>1, <2>3, BytesType
  <2>5. segm[l].buf = Slice(e, Start(k), Stop(k)) \o EndMsg
    BY <1>1, <1>2, <2>3 DEF StreamInv, OneVersion
  <2>6. a \in Start(k) .. Stop(k) - 1 /\ a - Start(k) + 1 = b - Start(k)
    BY <2>1, <2>2, <2>4
  <2>7. (Slice(e, Start(k), Stop(k)) \o EndMsg)[a - Start(k) + 1] =
          [kind |-> "byte", of |-> e, at |-> a]
    <3> HIDE DEF a
    <3> QED
      BY <2>4, <2>6, SliceAt
  <2>8. segm[l].buf[b - Start(k)] = [kind |-> "byte", of |-> e, at |-> a]
    BY <2>5, <2>6, <2>7
  <2> QED
    BY <2>8 DEF k
<1>4. Content(e) =
        [b \in 1 .. SizeOf[e] |-> [kind |-> "byte", of |-> e, at |-> b - 1]]
  <2>1. SizeOf[e] - 0 = SizeOf[e] /\ \A b \in 1 .. SizeOf[e] : 0 + b - 1 = b - 1
    BY <1>2
  <2> QED
    BY <2>1 DEF Content, Slice
<1> QED
  BY <1>3, <1>4 DEF Assembled

(* While no file is changed, the file put together is the file described   *)
(* by the first server, whichever servers sent its pieces and however many *)
(* were given up: the comparison of segment.c:197 succeeds.                *)
THEOREM FileIsTheOneDescribed == Spec => []AssembledMatches
<1>1. IInv /\ StreamInv => AssembledMatches
  BY WholeFile
<1> QED
  BY <1>1, Inductive, RepliesInStep, PTL

(* A finished segment waits for nothing, even when the client has stopped. *)
DoneIdle ==
  \A k \in 1 .. Len(segm) : Done(segm[k]) => segm[k].state = "IDLE"

LEMMA FirstOpen ==
  ASSUME IInv, Handshake \/ ReadSizeStatus \/ ReadSizeLine
  PROVE  \E t : segm' = <<t>> /\ t.status # "DONE"
<1>1. /\ segm[1] \in Segment /\ first \in Conn /\ PosOK(segm[1], 0)
      /\ segm[1].status # "DONE"
      /\ Handshake => segm[1].state = "RECV_HANDSHAKE"
      /\ ReadSizeStatus => segm[1].state = "RECV_SIZE_REPLY"
      /\ ReadSizeLine => segm[1].state = "RECV_SIZE_DATA"
  BY FirstFound DEF Handshake, ReadSizeStatus, ReadSizeLine
<1> DEFINE h == cgym_sock_connect(segm[1], first)
           a == SizeStatus(segm[1], first)
           l == SizeLine(segm[1], first)
           w == OnConn(To(h, "RECV_SIZE_REPLY"), Sent(h.conn, SizeReq))
<1>2. \/ Handshake /\ (First(h) \/ First(w))
      \/ ReadSizeStatus /\ First(a)
      \/ ReadSizeLine /\ First(l)
  BY DEF Handshake, ReadSizeStatus, ReadSizeLine
<1>3. Handshake => h \in Result /\ h.segm.status # "DONE"
  BY <1>1, ConnectType
<1>4. ReadSizeStatus => a \in Result /\ a.segm.status # "DONE"
  BY <1>1, SizeStatusType
<1>5. ReadSizeLine => l \in Result /\ l.segm.status # "DONE"
  BY <1>1, SizeLineType
<1>6. Handshake => w.segm.status # "DONE"
  <2> HIDE DEF h
  <2>1. "RECV_SIZE_REPLY" \in SockStates
    BY DEF SockStates
  <2>2. Handshake => To(h, "RECV_SIZE_REPLY").segm.status # "DONE"
    BY <1>3, <2>1, ToType
  <2> QED
    BY <2>2 DEF OnConn, To
<1> HIDE DEF h, a, l, w
<1> QED
  BY <1>2, <1>3, <1>4, <1>5, <1>6 DEF First

LEMMA FirstNotDone ==
  ASSUME NEW t, segm' = <<t>>, t.status # "DONE"
  PROVE  Len(segm') = 1 /\ (\A k \in 1 .. Len(segm) : ~Done(segm[k]))'
<1>1. Len(segm') = 1 /\ \A k \in 1 .. Len(segm') : segm'[k] = t
  OBVIOUS
<1> QED
  BY <1>1 DEF Done

LEMMA IdleStep ==
  ASSUME IInv, DoneIdle, [Next]_vars
  PROVE  DoneIdle'
<1>1. CASE Handshake \/ ReadSizeStatus \/ ReadSizeLine
  BY <1>1, FirstOpen, FirstNotDone DEF DoneIdle
<1>2. CASE Pass
  <2>1. PICK l \in 0 .. Len(segm) - 1 :
          IsNext(l) /\ (Connecting(l) \/ Sizing(l) \/ Getting(l) \/ Unhandled(l))
    BY <1>2 DEF Pass
  <2>2. pc = "pass"
    BY <1>2 DEF Pass
  <2>3. segm[l + 1].state \in Waiting
    BY <2>1, <2>2, FoundType
  <2>4. Handled(l)
    BY <2>1, <2>2, <2>3, ConnectingHandled, SizingHandled, GettingHandled
       DEF Unhandled
  <2> QED
    BY <2>4 DEF Handled, Sound, DoneIdle
<1>3. CASE Connect \/ InitFirst \/ InitSegment
  <2>1. pc' \in Running \/ segm' = segm
    BY <1>3 DEF Connect, InitFirst, InitSegment, Goto, Exit, Killed, Running, SetupFails
  <2>2. IInv'
    BY ClientKeeps, <1>3 DEF Client
  <2>3. CASE pc' \in Running
    BY <2>2, <2>3 DEF IInv, SegmOK, DoneIdle
  <2> QED
    BY <2>1, <2>3 DEF DoneIdle
<1>4. CASE \/ DivideByZero \/ InitDone \/ Loop \/ BuildSets \/ Select
           \/ PassDone \/ Assemble \/ Network \/ Disturb \/ Edit \/ UNCHANGED vars
  <2>1. segm' = segm
    BY <1>4 DEF DivideByZero, InitDone, Loop, BuildSets, Retry, Select, PassDone,
                Assemble, Network, Disturb, Edit, vars, client
  <2> QED
    BY <2>1 DEF DoneIdle
<1> QED
  BY <1>1, <1>2, <1>3, <1>4 DEF Next, Client, Terminated

LEMMA AgreedMirrors ==
  ASSUME StreamInv, DoneIdle
  PROVE  MirrorAgrees
<1> SUFFICES ASSUME edits = 0, NEW k \in 1 .. Len(segm),
                    segm[k].state \in {"RECV_GET_REPLY", "RECV_GET_DATA"}
             PROVE  conn[segm[k].fd].srv # NoServer /\ cur[conn[segm[k].fd].srv] = e
  BY DEF MirrorAgrees
<1>1. ~Done(segm[k])
  BY DEF DoneIdle
<1>2. Expects(segm[k], conn[segm[k].fd], Start(k - 1), Stop(k - 1))
  BY <1>1 DEF StreamInv
<1>3. /\ conn[segm[k].fd].greeted /\ SameAsFirst(conn[segm[k].fd])
      /\ Greeted(conn[segm[k].fd])
  BY <1>2 DEF Expects
<1> QED
  BY <1>3, GetAssumption DEF Greeted, SameAsFirst, Servers, NoServer

(* While no file is changed, bytes are only asked from a server with the   *)
(* version that was described first (get.c:321-348), in every state that   *)
(* is reached, those where the client stopped included.                    *)
THEOREM AskedOfAgreeingMirrors == Spec => []MirrorAgrees
<1>1. Init => IInv /\ DoneIdle
  BY InitInv DEF Init, DoneIdle
<1>2. (IInv /\ DoneIdle) /\ [Next]_vars => (IInv /\ DoneIdle)'
  <2>1. IInv /\ [Next]_vars => IInv'
    BY ClientKeeps, NetworkKeeps, DisturbKeeps, EditKeeps, StutterKeeps
       DEF Next, Terminated
  <2> QED
    BY <2>1, IdleStep
<1>3. StreamInv /\ DoneIdle => MirrorAgrees
  BY AgreedMirrors
<1> QED
  BY <1>1, <1>2, <1>3, RepliesInStep, PTL DEF Spec

-----------------------------------------------------------------------------
(***************************************************************************)
(* CgymGet implements CgymDownload: every step of the client, the network, *)
(* the servers and the environment is a step of CgymDownload on what is    *)
(* kept and written, or changes none of it.                                *)
(***************************************************************************)

Got == IF e = NoVersion THEN <<>> ELSE [k \in 1 .. NrSegments |-> Kept(k)]

Maps == Download!Next \/ UNCHANGED <<Phase, e, Got, out>>

-----------------------------------------------------------------------------
(* What has to be shown of a step, for each action of CgymDownload.        *)
LEMMA ToFail ==
  ASSUME Phase \in {"describe", "fetch"}, Phase' = "failed",
         UNCHANGED <<e, Got, out>>
  PROVE  Maps
  BY DEF Maps, Got, Download!Next, Download!Fail

LEMMA ToDescribe ==
  ASSUME Phase = "describe", Phase' = "fetch", e' \in Versions,
         Got' = [k \in 1 .. NrSegments' |-> <<>>], UNCHANGED out
  PROVE  Maps
<1>1. NrSegments' = Download!Count(e')
  BY DEF NrSegments, Download!Count, ClampSegments, Download!ClampSegments,
         ToULong, Download!ToULong, ToInt, Download!ToInt
<1> QED
  BY <1>1 DEF Maps, Got, Download!Next, Download!Describe

(* The two modules have the same arithmetic.                               *)
LEMMA SamePieces ==
  /\ Download!Count(e) = NrSegments
  /\ \A k : Download!From(k, e) = Start(k - 1) /\ Download!Until(k, e) = Stop(k - 1)
  /\ \A k, v : Download!Piece(k, v, e) = Slice(v, Start(k - 1), Stop(k - 1))
  /\ Download!Content(e) = Content(e)
  BY DEF NrSegments, Start, Stop, SegmStart, SegmStop, SegmSize, ToULong, ToInt,
         ClampSegments, Slice, Content, Download!Count, Download!From,
         Download!Until, Download!Piece, Download!Slice, Download!Content,
         Download!ClampSegments, Download!SegmStart, Download!SegmStop,
         Download!SegmSize, Download!ToULong, Download!ToInt

LEMMA ToFetch ==
  ASSUME Phase = "fetch", UNCHANGED <<Phase, e, out>>, e # NoVersion,
         NEW l \in 1 .. NrSegments, Kept(l) = <<>>, Kept(l)' # <<>>,
         \E v \in Versions : Kept(l)' = Slice(v, Start(l - 1), Stop(l - 1)),
         \A k \in 1 .. NrSegments : k # l => Kept(k)' = Kept(k)
  PROVE  Maps
<1>1. NrSegments' = NrSegments
  BY DEF NrSegments
<1>2. /\ Got = [k \in 1 .. NrSegments |-> Kept(k)]
      /\ Got' = [k \in 1 .. NrSegments |-> Kept(k)']
  BY <1>1 DEF Got
<1>3. Got' = [Got EXCEPT ![l] = Got'[l]]
  BY <1>2
<1>4. Got[l] = <<>> /\ Got'[l] # <<>> /\ l \in DOMAIN Got
  BY <1>2
<1>5. \E v \in Versions : Got'[l] = Download!Piece(l, v, e)
  BY <1>2, SamePieces
<1>6. Download!Fetch(l)
  BY <1>3, <1>4, <1>5 DEF Download!Fetch, Got
<1> QED
  BY <1>4, <1>6 DEF Maps, Download!Next, Got

-----------------------------------------------------------------------------
(* What is kept.                                                           *)
LEMMA SameGot ==
  ASSUME e' = e, \A k \in 1 .. NrSegments : Kept(k)' = Kept(k)
  PROVE  Got' = Got
  BY DEF Got, NrSegments

LEMMA UnmovedGot ==
  ASSUME UNCHANGED <<e, segm>>
  PROVE  Got' = Got
<1>1. \A k : Kept(k)' = Kept(k)
  BY DEF Kept, Done
<1> QED
  BY <1>1, SameGot

LEMMA NothingKept ==
  ASSUME \A k \in 1 .. Len(segm) : ~Done(segm[k]), Len(segm) \in Nat
  PROVE  Got = IF e = NoVersion THEN <<>> ELSE [k \in 1 .. NrSegments |-> <<>>]
<1>1. \A k \in 1 .. NrSegments : Kept(k) = <<>>
  BY DEF Kept
<1> QED
  BY <1>1 DEF Got
-----------------------------------------------------------------------------
LEMMA PhaseNow ==
  /\ pc \in Preparing /\ pc # "plan" => Phase = "describe"
  /\ pc \in {"plan", "init"} \cup Looping => Phase = "fetch"
  /\ pc = "exit" /\ ret = 0 => Phase = "delivered"
  BY DEF Phase, Preparing, Looping

LEMMA PhaseNext ==
  /\ pc' \in Preparing /\ pc' # "plan" => Phase' = "describe"
  /\ pc' \in {"plan", "init"} \cup Looping => Phase' = "fetch"
  /\ pc' = "exit" /\ ret' = 0 => Phase' = "delivered"
  /\ pc' \in Stopped /\ (pc' = "exit" => ret' # 0) => Phase' = "failed"
  BY DEF Phase, Preparing, Looping, Stopped

(* A step that keeps what it found either goes on or gives up.             *)
LEMMA GoesOn ==
  ASSUME UNCHANGED <<e, Got, out>>, Phase \in {"describe", "fetch"},
         Phase' = Phase \/ Phase' = "failed"
  PROVE  Maps
  BY ToFail DEF Maps

(* The first connection.                                                   *)
LEMMA NothingYet ==
  ASSUME IInv, pc \in Preparing \cup {"init"}
  PROVE  Len(segm) \in Nat /\ \A k \in 1 .. Len(segm) : ~Done(segm[k])
<1>1. CASE pc = "connect"
  BY <1>1, EmptySeq DEF IInv
<1>2. CASE pc = "init"
  BY <1>2 DEF IInv, TypeOK, Stage
<1>3. CASE pc \in {"handshake", "sizeStatus", "sizeLine", "plan"}
  <2>1. Len(segm) = 1 /\ segm[1].status # "DONE"
    BY <1>3, FirstFound
  <2>2. \A k \in 1 .. 1 : k = 1
    OBVIOUS
  <2> QED
    BY <2>1, <2>2 DEF Done
<1> QED
  BY <1>1, <1>2, <1>3 DEF Preparing

LEMMA NothingNext ==
  ASSUME IInv, Connect \/ Handshake \/ ReadSizeStatus \/ ReadSizeLine
  PROVE  Got' = IF e' = NoVersion THEN <<>> ELSE [k \in 1 .. NrSegments' |-> <<>>]
<1>1. Len(segm') \in Nat /\ (\A k \in 1 .. Len(segm) : ~Done(segm[k]))'
  <2>1. CASE Connect
    <3>1. CASE segm' = <<NewSegm(1, "RECV_HANDSHAKE")>>
      BY <3>1, FirstNotDone DEF NewSegm
    <3>2. CASE segm' = segm
      BY <2>1, <3>2, NothingYet DEF Connect, Preparing, Done
    <3> QED
      BY <2>1, <3>1, <3>2 DEF Connect
  <2>2. CASE Handshake \/ ReadSizeStatus \/ ReadSizeLine
    BY <2>2, FirstOpen, FirstNotDone
  <2> QED
    BY <2>1, <2>2
<1>2. \A k \in 1 .. NrSegments' : Kept(k)' = <<>>
  BY <1>1 DEF Kept
<1> QED
  BY <1>2 DEF Got

LEMMA PreparingMaps ==
  ASSUME IInv, Connect \/ Handshake \/ ReadSizeStatus \/ ReadSizeLine
  PROVE  Maps
<1>1. Phase = "describe" /\ UNCHANGED out /\ pc \in Preparing
  BY PhaseNow DEF Connect, Handshake, ReadSizeStatus, ReadSizeLine, Preparing
<1>2. Got = IF e = NoVersion THEN <<>> ELSE [k \in 1 .. NrSegments |-> <<>>]
  BY <1>1, NothingYet, NothingKept
<1>3. Got' = IF e' = NoVersion THEN <<>> ELSE [k \in 1 .. NrSegments' |-> <<>>]
  BY NothingNext
<1> DEFINE going == \/ pc' \in Preparing /\ pc' # "plan"
                    \/ pc' \in Stopped /\ (pc' = "exit" => ret' # 0)
<1>4. (e' = e /\ going) \/ (ReadSizeLine /\ pc' = "plan")
  <2>1. CASE Connect
    BY <2>1 DEF Connect, Preparing, Goto, Exit, Stopped
  <2>2. CASE Handshake
    BY <2>2 DEF Handshake, Preparing, Goto, Exit, Killed, Stopped
  <2>3. CASE ReadSizeStatus
    BY <2>3 DEF ReadSizeStatus, Preparing, Goto, Exit, Stopped
  <2>4. CASE ReadSizeLine
    BY <2>4 DEF ReadSizeLine, Goto, Exit, Stopped
  <2> QED
    BY <2>1, <2>2, <2>3, <2>4
<1>5. CASE e' = e /\ going
  <2>1. Got' = Got
    BY <1>2, <1>3, <1>5 DEF NrSegments
  <2>2. Phase' = Phase \/ Phase' = "failed"
    BY <1>1, <1>5, PhaseNext
  <2> QED
    BY <1>1, <1>5, <2>1, <2>2, GoesOn
<1>6. CASE ReadSizeLine /\ pc' = "plan"
  <2>1. IInv'
    BY <1>6, ReadSizeLineKeeps
  <2>2. e' \in Versions
    BY <1>6, <2>1 DEF IInv, Stage
  <2>3. e' # NoVersion
    BY <2>2, SockAssumption
  <2> QED
    BY <1>1, <1>3, <1>6, <2>2, <2>3, PhaseNext, ToDescribe
<1> HIDE DEF going
<1> QED
  BY <1>4, <1>5, <1>6
-----------------------------------------------------------------------------
(* The segments are opened, and the turns of the loop that finish none.    *)
LEMMA OpeningMaps ==
  ASSUME IInv, InitFirst \/ InitSegment
  PROVE  Maps
<1>1. Phase = "fetch" /\ UNCHANGED <<e, out>> /\ pc \in Preparing \cup {"init"}
  BY PhaseNow DEF InitFirst, InitSegment, Preparing
<1>2. Len(segm) \in Nat /\ \A k \in 1 .. Len(segm) : ~Done(segm[k])
  BY <1>1, NothingYet
<1>3. IInv'
  BY ClientKeeps DEF Client
<1>4. \/ pc' = "init"
      \/ segm' = segm /\ pc' \in Stopped /\ (pc' = "exit" => ret' # 0)
  BY DEF InitFirst, InitSegment, SetupFails, Goto, Exit, Killed, Stopped
<1>5. Got' = Got
  <2>1. CASE segm' = segm
    BY <1>1, <2>1, UnmovedGot
  <2>2. CASE pc' = "init"
    <3>1. Len(segm') \in Nat /\ (\A k \in 1 .. Len(segm) : ~Done(segm[k]))'
      BY <1>3, <2>2 DEF IInv, TypeOK, Stage
    <3>2. \A k \in 1 .. NrSegments : Kept(k) = <<>> /\ Kept(k)' = <<>>
      BY <1>2, <3>1 DEF Kept
    <3> QED
      BY <1>1, <3>2, SameGot
  <2> QED
    BY <1>4, <2>1, <2>2
<1>6. Phase' = Phase \/ Phase' = "failed"
  BY <1>1, <1>4, PhaseNext
<1> QED
  BY <1>1, <1>5, <1>6, GoesOn

LEMMA QuietMaps ==
  ASSUME DivideByZero \/ InitDone \/ Loop \/ BuildSets \/ Select \/ PassDone
  PROVE  Maps
<1>1. UNCHANGED <<e, segm, out>> /\ pc \in {"plan", "init"} \cup Looping
  BY DEF DivideByZero, InitDone, Loop, BuildSets, Retry, Select, PassDone, Looping
<1>2. \/ pc' \in Looping
      \/ pc' \in Stopped /\ (pc' = "exit" => ret' # 0)
  BY DEF DivideByZero, InitDone, Loop, BuildSets, Retry, SetupFails, Select, PassDone,
         Looping, Goto, Exit, Killed, Stopped
<1>3. Phase = "fetch" /\ (Phase' = "fetch" \/ Phase' = "failed")
  BY <1>1, <1>2, PhaseNow, PhaseNext
<1>4. Got' = Got
  BY <1>1, UnmovedGot
<1> QED
  BY <1>1, <1>3, <1>4, GoesOn

LEMMA OutsideMaps ==
  ASSUME Network \/ Disturb \/ Edit \/ UNCHANGED vars
  PROVE  Maps
<1>1. UNCHANGED <<pc, ret, e, segm, out>>
  BY DEF Network, Disturb, Edit, vars, client
<1>2. Got' = Got
  BY <1>1, UnmovedGot
<1>3. Phase' = Phase
  BY <1>1 DEF Phase
<1> QED
  BY <1>1, <1>2, <1>3 DEF Maps

-----------------------------------------------------------------------------
(* The second pass: a segment that is handled is kept when it is finished. *)
LEMMA PassGoesOn ==
  ASSUME NEW k, Connecting(k) \/ Sizing(k) \/ Getting(k) \/ Unhandled(k)
  PROVE  pc' = "pass" \/ (pc' \in Stopped /\ (pc' = "exit" => ret' # 0))
<1> DEFINE Goal == pc' = "pass" \/ (pc' \in Stopped /\ (pc' = "exit" => ret' # 0))
<1>1. ASSUME NEW sg, NEW sl, NEW cn, Retry(k, sg, sl, cn, "pass")
      PROVE  Goal
  BY <1>1 DEF Retry, SetupFails, Goto, Exit, Stopped
<1>2. ASSUME NEW r, NEW req, NEW state, SendRequest(k, r, req, state)
      PROVE  Goal
  <2>1. Goto("pass") \/ Killed \/ Retry(k, Segm(k, r), slist, Conns(r), "pass")
    BY <1>2 DEF SendRequest
  <2> QED
    BY <1>1, <2>1 DEF Goto, Killed, Stopped
<1>3. ASSUME NEW r, Mismatch(k, r)
      PROVE  Goal
  <2>1. \/ Goto("spin")
        \/ Retry(k, Segm(k, r), [slist EXCEPT ![serv] = NoServer], Conns(r), "pass")
    BY <1>3 DEF Mismatch
  <2> QED
    BY <1>1, <2>1 DEF Goto, Stopped
<1>4. Goto("pass") => Goal
  BY DEF Goto
<1> SUFFICES Goal
  OBVIOUS
<1> HIDE DEF Goal
<1>5. CASE Connecting(k)
  <2>1. PICK r \in {cgym_sock_connect(segm[k + 1], conn[segm[k + 1].fd])} :
          \/ Goto("pass")
          \/ Retry(k, Segm(k, r), slist, Conns(r), "pass")
          \/ SendRequest(k, r, SizeReq, "RECV_SIZE_REPLY")
    BY <1>5 DEF Connecting
  <2> QED
    BY <1>1, <1>2, <1>4, <2>1
<1>6. CASE Sizing(k)
  <2>1. PICK r \in {cgym_recv_size_reply(segm[k + 1], conn[segm[k + 1].fd])} :
          \/ Goto("pass") \/ Mismatch(k, r)
          \/ Retry(k, Segm(k, r), slist, Conns(r), "pass")
          \/ SendRequest(k, r, GetReq(Start(k), Stop(k)), "RECV_GET_REPLY")
    BY <1>6 DEF Sizing
  <2> QED
    BY <1>1, <1>2, <1>3, <1>4, <2>1
<1>7. CASE Getting(k)
  <2>1. PICK r \in {cgym_recv_get_reply(segm[k + 1], conn[segm[k + 1].fd],
                                         Stop(k) - Start(k))} :
          Goto("pass") \/ Retry(k, Segm(k, r), slist, Conns(r), "pass")
    BY <1>7 DEF Getting
  <2> QED
    BY <1>1, <1>4, <2>1
<1>8. CASE Unhandled(k)
  BY <1>8 DEF Unhandled, Exit, Stopped, Goal
<1> QED
  BY <1>5, <1>6, <1>7, <1>8

(* Only the end of the reply to GET finishes one.                          *)
LEMMA StillOpen ==
  ASSUME IInv, pc = "pass", NEW k \in 0 .. Len(segm) - 1, IsNext(k),
         Connecting(k) \/ Sizing(k)
  PROVE  segm'[k + 1].status # "DONE"
<1> DEFINE s == segm[k + 1]
           c == conn[segm[k + 1].fd]
           h == cgym_sock_connect(s, c)
           z == cgym_recv_size_reply(s, c)
<1>1. /\ k + 1 \in 1 .. Len(segm) /\ s \in Segment /\ s.status # "DONE"
      /\ c \in Conn /\ PosOK(s, Bytes(k + 1)) /\ Bytes(k + 1) \in Nat
      /\ segm \in Seq(Segment)
  BY FoundType DEF Done, IInv, TypeOK
<1>2. Connecting(k) => h \in Result /\ h.segm.status # "DONE"
  BY <1>1, ConnectType DEF Connecting
<1>3. Sizing(k) => z \in Result /\ z.segm.status # "DONE"
  BY <1>1, SizeReplyType DEF Sizing
<1>4. ASSUME NEW r \in Result, NEW state, NEW x, r.segm.status # "DONE"
      PROVE  OnConn(To(r, state), x).segm.status # "DONE"
  BY <1>4 DEF OnConn, To, Result, Segment
<1>5. \E r \in Result :
        /\ r.segm.status # "DONE"
        /\ \/ segm' = Segm(k, r)
           \/ \E state, x : segm' = Segm(k, OnConn(To(r, state), x))
  <2>1. CASE Connecting(k)
    <3>1. \/ segm' = Segm(k, h)
          \/ \E state, x : segm' = Segm(k, OnConn(To(h, state), x))
      BY <2>1 DEF Connecting, SendRequest, Retry, Keep
    <3> QED
      BY <1>2, <2>1, <3>1
  <2>2. CASE Sizing(k)
    <3>1. \/ segm' = Segm(k, z)
          \/ \E state, x : segm' = Segm(k, OnConn(To(z, state), x))
      BY <2>2 DEF Sizing, Mismatch, SendRequest, Retry, Keep
    <3> QED
      BY <1>3, <2>2, <3>1
  <2> QED
    BY <2>1, <2>2
<1>6. PICK r \in Result :
        /\ r.segm.status # "DONE"
        /\ \/ segm' = Segm(k, r)
           \/ \E state, x : segm' = Segm(k, OnConn(To(r, state), x))
  BY <1>5
<1>7. \E t : t.status # "DONE" /\ segm' = [segm EXCEPT ![k + 1] = t]
  BY <1>4, <1>6 DEF Segm
<1> HIDE DEF s, c, h, z
<1> QED
  BY <1>1, <1>7

LEMMA GettingOpen ==
  ASSUME IInv, pc = "pass", NEW k \in 0 .. Len(segm) - 1, IsNext(k),
         Getting(k), segm'[k + 1].status = "DONE"
  PROVE  pc' = "pass"
<1> DEFINE s == segm[k + 1]
           c == conn[segm[k + 1].fd]
           len == Stop(k) - Start(k)
           r == cgym_recv_get_reply(s, c, len)
<1>1. /\ k + 1 \in 1 .. Len(segm) /\ s \in Segment /\ s.status # "DONE"
      /\ c \in Conn /\ PosOK(s, len) /\ len \in Nat \ {0} /\ segm \in Seq(Segment)
  BY FoundType DEF Done, IInv, TypeOK
<1>2. s.state \in {"RECV_GET_REPLY", "RECV_GET_DATA"}
  BY DEF Getting
<1>3. r.segm.status = "DONE" <=> r.rc = 0
  BY <1>1, <1>2, GetReplyType DEF Done
<1>4. \/ r.rc = 1 /\ Keep(k, r) /\ Goto("pass")
      \/ r.rc > 1 /\ Retry(k, Segm(k, r), slist, Conns(r), "pass")
      \/ r.rc = 0 /\ Keep(k, Closed(r)) /\ Goto("pass")
  BY DEF Getting
<1> HIDE DEF r
<1>5. CASE r.rc > 1 /\ Retry(k, Segm(k, r), slist, Conns(r), "pass")
  <2>1. segm' = [segm EXCEPT ![k + 1] = r.segm]
    BY <1>5 DEF Retry, Segm
  <2>2. segm'[k + 1] = r.segm
    BY <1>1, <2>1
  <2> QED
    BY <1>3, <1>5, <2>2
<1> QED
  BY <1>4, <1>5 DEF Goto
(* What a finished segment keeps is its reply without the end of line.     *)
LEMMA CutEnd ==
  ASSUME NEW v \in Versions, NEW start \in Nat, NEW stop \in Nat, start < stop,
         NEW buf, buf = Slice(v, start, stop) \o EndMsg
  PROVE  SubSeq(buf, 1, Len(buf) - 1) = Slice(v, start, stop)
<1> DEFINE s == Slice(v, start, stop)
           n == stop - start
<1>1. buf \in Seq(Unit) /\ Len(buf) = n + 1 /\ n \in Nat
  BY PieceType
<1>2. s \in Seq(Unit) /\ Len(s) = n /\ EndMsg \in Seq(Unit)
  <2>1. Len(s) = n
    BY <1>1 DEF Slice
  <2>2. s \in Seq(Unit)
    BY SliceType
  <2> QED
    BY <2>1, <2>2, MessagesType
<1> HIDE DEF s, n
<1>3. \A j \in 1 .. n : buf[j] = s[j]
  <2>1. \A j \in 1 .. Len(s) + Len(EndMsg) : buf[j] = IF j <= Len(s) THEN s[j]
                                                     ELSE EndMsg[j - Len(s)]
    BY <1>2, Joined DEF s
  <2>2. Len(EndMsg) = 1
    BY DEF EndMsg
  <2> QED
    BY <1>1, <1>2, <2>1, <2>2
<1>4. /\ SubSeq(buf, 1, n) \in Seq(Unit) /\ Len(SubSeq(buf, 1, n)) = n
      /\ \A j \in 1 .. n : SubSeq(buf, 1, n)[j] = buf[j]
  <2>1. \A j \in 1 .. n : j \in 1 .. Len(buf)
    BY <1>1
  <2> QED
    BY <1>1, <2>1
<1>5. SubSeq(buf, 1, n) = s
  BY <1>2, <1>3, <1>4, SeqEqual
<1>6. Len(buf) - 1 = n
  BY <1>1
<1> QED
  BY <1>5, <1>6 DEF s

LEMMA PassMaps ==
  ASSUME IInv, StreamInv, Pass, IInv', StreamInv'
  PROVE  Maps
<1>1. PICK k \in 0 .. Len(segm) - 1 :
        IsNext(k) /\ (Connecting(k) \/ Sizing(k) \/ Getting(k) \/ Unhandled(k))
  BY DEF Pass
<1>2. pc = "pass" /\ Phase = "fetch" /\ UNCHANGED <<e, out>>
  BY PhaseNow DEF Pass, Looping
<1>3. segm[k + 1].state \in Waiting /\ ~Done(segm[k + 1])
  BY <1>1, <1>2, FoundType
<1>4. Handled(k)
  BY <1>1, <1>2, <1>3, ConnectingHandled, SizingHandled, GettingHandled DEF Unhandled
<1> DEFINE l == k + 1
<1>5. /\ Planned /\ Len(segm) = NrSegments /\ NrSegments \in Nat \ {0}
      /\ l \in 1 .. NrSegments /\ l - 1 = k
  BY <1>2, LoopingFound DEF Looping
<1>6. Len(segm') = NrSegments /\ \A j \in 1 .. NrSegments : j # l => segm'[j] = segm[j]
  BY <1>4, <1>5 DEF Handled
<1>7. \A j \in 1 .. NrSegments : j # l => Kept(j)' = Kept(j)
  BY <1>5, <1>6 DEF Kept, Done
<1>8. Kept(l) = <<>>
  BY <1>3 DEF Kept
<1>9. pc' = "pass" \/ (pc' \in Stopped /\ (pc' = "exit" => ret' # 0))
  BY <1>1, PassGoesOn
<1>10. CASE segm'[l].status # "DONE"
  <2>1. Kept(l)' = <<>>
    BY <1>10 DEF Kept, Done
  <2>2. Got' = Got
    <3> HIDE DEF l
    <3> QED
      BY <1>2, <1>7, <1>8, <2>1, SameGot
  <2>3. Phase' = Phase \/ Phase' = "failed"
    BY <1>2, <1>9, PhaseNext DEF Looping
  <2> QED
    BY <1>2, <2>2, <2>3, GoesOn
<1>11. CASE segm'[l].status = "DONE"
  <2>1. Getting(k)
    BY <1>1, <1>2, <1>3, <1>11, StillOpen DEF Unhandled
  <2>2. pc' = "pass"
    BY <1>1, <1>2, <1>11, <2>1, GettingOpen
  <2>3. Phase' = "fetch"
    BY <2>2, PhaseNext DEF Looping
  <2>4. Start(k)' = Start(k) /\ Stop(k)' = Stop(k)
    BY <1>2 DEF Start, Stop, NrSegments
  <2> HIDE DEF l
  <2>5. PICK v \in Versions : segm'[l].buf = Slice(v, Start(k), Stop(k)) \o EndMsg
    <3>1. OneVersion(segm[l].buf, Start(l - 1), Stop(l - 1))'
      BY <1>5, <1>6, <1>11 DEF StreamInv, Done
    <3> QED
      BY <1>5, <2>4, <3>1 DEF OneVersion
  <2>6. Start(k) \in Nat /\ Stop(k) \in Nat /\ Start(k) < Stop(k)
    BY <1>5, BytesType
  <2>7. Kept(l)' = Slice(v, Start(k), Stop(k))
    <3>1. Kept(l)' = SubSeq(segm'[l].buf, 1, Len(segm'[l].buf) - 1)
      BY <1>5, <1>6, <1>11 DEF Kept, Done
    <3> QED
      BY <2>5, <2>6, <3>1, CutEnd
  <2>8. Slice(v, Start(k), Stop(k)) # <<>>
    <3>1. Len(Slice(v, Start(k), Stop(k))) = Stop(k) - Start(k)
      BY <2>6 DEF Slice
    <3> QED
      BY <2>6, <3>1
  <2>9. e # NoVersion
    BY <1>5, SockAssumption DEF Planned
  <2>10. UNCHANGED <<Phase, e, out>>
    BY <1>2, <2>3
  <2>11. \E x \in Versions : Kept(l)' = Slice(x, Start(l - 1), Stop(l - 1))
    BY <1>5, <2>7
  <2> QED
    BY <1>2, <1>5, <1>7, <1>8, <2>7, <2>8, <2>9, <2>10, <2>11, ToFetch
<1> QED
  BY <1>10, <1>11
-----------------------------------------------------------------------------
(* The file.                                                               *)
LEMMA Apart ==
  ASSUME NEW a \in Nat, NEW b \in Nat, NEW q \in Nat, a < b
  PROVE  (a + 1) * q <= b * q
<1>1. a + 1 \in Nat /\ a + 1 <= b
  OBVIOUS
<1> QED
  BY <1>1, TimesMonotone

(* A byte belongs to one segment only.                                     *)
LEMMA OwnerIs ==
  ASSUME Planned, Len(segm) = NrSegments, NEW k \in 1 .. NrSegments,
         NEW b \in Int, Start(k - 1) <= b, b < Stop(k - 1)
  PROVE  Owner(b) = k - 1 /\ b \in 0 .. SizeOf[e] - 1
<1> DEFINE n == NrSegments
           size == SizeOf[e]
           q == SegmSize(n, size)
           o == Owner(b)
           j == k - 1
<1>1. Fits(n, size) /\ n \in Nat \ {0} /\ size \in Nat \ {0}
  BY PlanFits DEF Planned
<1>2. /\ q \in Nat \ {0} /\ n * q <= size
      /\ \A x \in 0 .. n - 1 : Start(x) = x * q
      /\ \A x \in 0 .. n - 1 : Stop(x) = IF x < n - 1 THEN (x + 1) * q ELSE size
  BY <1>1, SegmentEnds DEF Start, Stop
<1>3. j \in 0 .. n - 1 /\ j \in Nat /\ Start(j) <= b /\ b < Stop(j)
  BY <1>1
<1> HIDE DEF q, j, n
<1>4. \A x \in 0 .. n - 1 : Stop(x) <= size /\ Start(x) \in Nat
  <2>1. ASSUME NEW x \in 0 .. n - 1
        PROVE  Stop(x) <= size /\ Start(x) \in Nat
    <3>1. (x + 1) * q <= n * q /\ n * q \in Int /\ (x + 1) * q \in Int /\ x * q \in Nat
      <4>1. x + 1 \in Nat /\ x \in Nat /\ x + 1 <= n
        BY <1>1
      <4> QED
        BY <1>1, <1>2, <4>1, TimesMonotone, NextMultiple
    <3>2. Start(x) = x * q /\ (Stop(x) = (x + 1) * q \/ Stop(x) = size)
      BY <1>2
    <3> DEFINE next == (x + 1) * q
               all == n * q
    <3>3. next <= size
      <4>1. next <= all /\ all \in Int /\ next \in Int /\ all <= size
        BY <1>2, <3>1
      <4> HIDE DEF next, all
      <4> QED
        BY <1>1, <4>1
    <3> QED
      BY <1>1, <3>1, <3>2, <3>3
  <2> QED
    BY <2>1
<1>5. b \in 0 .. size - 1
  <2>1. Stop(j) \in Int
    <3>1. (j + 1) * q \in Int
      BY <1>2, <1>3
    <3> QED
      BY <1>1, <1>2, <1>3, <3>1
  <2> QED
    BY <1>1, <1>3, <1>4, <2>1
<1>6. o \in 0 .. n - 1 /\ o \in Nat /\ Start(o) <= b /\ b < Stop(o)
  <2>1. o \in 0 .. n - 1 /\ Start(o) <= b /\ b < Stop(o)
    BY <1>5, OwnerExists DEF n
  <2> QED
    BY <1>1, <2>1
<1> HIDE DEF o, size
<1>7. \A x, y \in 0 .. n - 1 : x < y => Stop(x) <= Start(y) /\ Stop(x) \in Int
  <2>1. ASSUME NEW x \in 0 .. n - 1, NEW y \in 0 .. n - 1, x < y
        PROVE  Stop(x) <= Start(y) /\ Stop(x) \in Int
    <3>1. x \in Nat /\ y \in Nat /\ x < n - 1
      BY <1>1, <2>1
    <3>2. Stop(x) = (x + 1) * q /\ Start(y) = y * q
      BY <1>2, <3>1
    <3> QED
      BY <1>2, <2>1, <3>1, <3>2, Apart
  <2> QED
    BY <2>1
<1>8. o = j
  <2>1. ~(o < j)
    BY <1>3, <1>4, <1>6, <1>7
  <2>2. ~(j < o)
    BY <1>3, <1>4, <1>6, <1>7
  <2> QED
    BY <1>3, <1>6, <2>1, <2>2
<1> QED
  BY <1>5, <1>8 DEF o, j, size

LEMMA PiecesWhole ==
  ASSUME IInv, pc = "assemble"
  PROVE  /\ SizeOf[e] \in Nat /\ Assembled \in Seq(Unit) /\ Len(Assembled) = SizeOf[e]
         /\ e # NoVersion
         /\ \A k \in 1 .. NrSegments :
              /\ Kept(k) # <<>>
              /\ \A j \in DOMAIN Kept(k) :
                   Start(k - 1) + j \in 1 .. SizeOf[e]
                   /\ Assembled[Start(k - 1) + j] = Kept(k)[j]
<1>1. Planned /\ Len(segm) = NrSegments /\ Sound(segm, conn)
  BY LoopingFound DEF Looping
<1>2. /\ NrSegments \in Nat \ {0} /\ SizeOf[e] \in Nat
      /\ \A k \in 1 .. Len(segm) : Done(segm[k])
  BY <1>1, PlanFits DEF IInv, Stage, AllDone, Done, Planned
<1>3. Assembled \in Seq(Unit) /\ Len(Assembled) = SizeOf[e]
  BY <1>2, AssembledType DEF Assembled
<1>4. ASSUME NEW k \in 1 .. NrSegments
      PROVE  /\ Kept(k) # <<>>
             /\ \A j \in DOMAIN Kept(k) :
                  Start(k - 1) + j \in 1 .. SizeOf[e]
                  /\ Assembled[Start(k - 1) + j] = Kept(k)[j]
  <2> DEFINE buf == segm[k].buf
             n == Bytes(k)
             start == Start(k - 1)
             stop == Stop(k - 1)
  <2>1. /\ buf \in Seq(Unit) /\ Len(buf) = n + 1 /\ Done(segm[k]) /\ k <= Len(segm)
    <3>1. k \in 1 .. Len(segm) /\ k <= Len(segm)
      BY <1>1, <1>2
    <3>2. segm[k] \in Segment /\ Done(segm[k]) /\ Len(segm[k].buf) = Bytes(k) + 1
      BY <1>1, <1>2, <3>1 DEF Sound
    <3> QED
      BY <3>1, <3>2 DEF Segment
  <2>2. n \in Nat \ {0} /\ start \in Nat /\ stop \in Nat /\ n = stop - start
    BY <1>1, BytesType DEF Bytes
  <2>3. Kept(k) = SubSeq(buf, 1, Len(buf) - 1)
    BY <2>1 DEF Kept
  <2> HIDE DEF n, buf
  <2>4. Kept(k) = SubSeq(buf, 1, n)
    BY <2>1, <2>2, <2>3
  <2>5. \A j \in 1 .. n : j \in 1 .. Len(buf)
    BY <2>1, <2>2
  <2>6. /\ Kept(k) \in Seq(Unit) /\ Len(Kept(k)) = n
        /\ \A j \in 1 .. n : Kept(k)[j] = buf[j]
    BY <2>1, <2>2, <2>4, <2>5
  <2> HIDE DEF start, stop
  <2>7. ASSUME NEW j \in 1 .. n, NEW b, b = start + j
        PROVE  b \in 1 .. SizeOf[e] /\ Assembled[b] = buf[j]
    <3>1. b - 1 \in Int /\ start <= b - 1 /\ b - 1 < stop
      BY <2>2, <2>7
    <3>2. Owner(b - 1) = k - 1 /\ b - 1 \in 0 .. SizeOf[e] - 1
      BY <1>1, <3>1, OwnerIs DEF start, stop
    <3>3. b \in 1 .. SizeOf[e]
      BY <1>2, <2>2, <2>7, <3>2
    <3>4. Assembled[b] = segm[Owner(b - 1) + 1].buf[b - Start(Owner(b - 1))]
      BY <3>3 DEF Assembled
    <3>5. (k - 1) + 1 = k /\ b - start = j
      BY <1>2, <2>2, <2>7
    <3> QED
      BY <3>2, <3>3, <3>4, <3>5 DEF start, buf
  <2>8. DOMAIN Kept(k) = 1 .. n /\ Kept(k) # <<>>
    BY <2>2, <2>6
  <2> QED
    BY <2>6, <2>7, <2>8 DEF start
<1> QED
  BY <1>1, <1>2, <1>3, <1>4, SockAssumption DEF Planned

LEMMA AssembleMaps ==
  ASSUME IInv, Assemble
  PROVE  Maps
<1>1. pc = "assemble" /\ Phase = "fetch" /\ UNCHANGED <<e, segm>>
  BY PhaseNow DEF Assemble, Looping
<1>2. /\ SizeOf[e] \in Nat /\ Assembled \in Seq(Unit) /\ Len(Assembled) = SizeOf[e]
      /\ e # NoVersion
      /\ \A k \in 1 .. NrSegments :
           /\ Kept(k) # <<>>
           /\ \A j \in DOMAIN Kept(k) :
                Start(k - 1) + j \in 1 .. SizeOf[e]
                /\ Assembled[Start(k - 1) + j] = Kept(k)[j]
  BY <1>1, PiecesWhole
<1>3. Got' = Got /\ Got = [k \in 1 .. NrSegments |-> Kept(k)]
  BY <1>1, <1>2, UnmovedGot DEF Got
<1>4. Download!Complete
  BY <1>1, <1>2, <1>3 DEF Download!Complete, Got
<1> DEFINE file == Assembled
<1>5. ASSUME NEW n \in 0 .. SizeOf[e], out' = SubSeq(file, 1, n)
      PROVE  Download!Written(n)
  <2>1. file \in Seq(Unit) /\ Len(file) = SizeOf[e] /\ SizeOf[e] \in Nat
    BY <1>2
  <2> HIDE DEF file
  <2>2. Len(out') = n /\ \A j \in 1 .. n : out'[j] = file[j]
    BY <1>5, <2>1
  <2>3. ASSUME NEW k \in 1 .. NrSegments, NEW j \in DOMAIN Kept(k), Start(k - 1) + j <= n
        PROVE  out'[Start(k - 1) + j] = Kept(k)[j]
    <3>1. Start(k - 1) + j \in 1 .. SizeOf[e] /\ file[Start(k - 1) + j] = Kept(k)[j]
      BY <1>2 DEF file
    <3>2. Start(k - 1) + j \in 1 .. n
      BY <2>1, <2>3, <3>1
    <3> QED
      BY <2>2, <3>1, <3>2
  <2>4. \A k : Download!From(k, e) = Start(k - 1)
    BY SamePieces
  <2> QED
    BY <1>3, <2>2, <2>3, <2>4 DEF Download!Written, Got
<1>6. CASE out' = Assembled /\ Exit(IF Assembled = Content(e) THEN 0 ELSE 1)
  <2>1. out' = SubSeq(file, 1, SizeOf[e])
    <3>1. file \in Seq(Unit) /\ Len(file) = SizeOf[e] /\ out' = file
      BY <1>2, <1>6
    <3> HIDE DEF file
    <3> QED
      BY <1>2, <3>1
  <2>2. Download!Written(SizeOf[e])
    BY <1>2, <1>5, <2>1
  <2>3. Phase' = IF out' = Content(e) THEN "delivered" ELSE "failed"
    BY <1>6, PhaseNext DEF Exit, Stopped
  <2>4. Download!Deliver
    BY <1>1, <1>3, <1>4, <2>2, <2>3, SamePieces DEF Download!Deliver, Got
  <2> QED
    BY <2>4 DEF Maps, Download!Next
<1>7. CASE Exit(1) /\ \E n \in 0 .. SizeOf[e] : out' = SubSeq(Assembled, 1, n)
  <2>1. \E n \in 0 .. SizeOf[e] : Download!Written(n)
    BY <1>5, <1>7
  <2>2. Phase' = "failed"
    BY <1>7, PhaseNext DEF Exit, Stopped
  <2>3. Download!Fail
    BY <1>1, <1>3, <1>4, <2>1, <2>2 DEF Download!Fail, Got
  <2> QED
    BY <2>3 DEF Maps, Download!Next
<1> QED
  BY <1>6, <1>7 DEF Assemble

-----------------------------------------------------------------------------
(* Every behaviour of the download, with its network, its servers, every   *)
(* failure and every change of files, is one of CgymDownload: each piece   *)
(* is fetched once and from one version, nothing is written before all     *)
(* are there, and code 0 means that the file written is the one described. *)
THEOREM DownloadImplemented == Spec => ImplementsDownload
<1>1. Init => Download!Init
  BY PhaseNow DEF Init, Download!Init, Preparing
<1>2. (IInv /\ StreamInv) /\ (IInv /\ StreamInv)' /\ [Next]_vars =>
        [Download!Next]_<<Phase, e,
           IF e = NoVersion THEN <<>> ELSE [k \in 1 .. NrSegments |-> Kept(k)], out>>
  <2>1. ASSUME IInv, StreamInv, IInv', StreamInv', [Next]_vars
        PROVE  Maps
    BY <2>1, PreparingMaps, OpeningMaps, QuietMaps, PassMaps, AssembleMaps,
       OutsideMaps DEF Next, Client, Terminated
  <2> QED
    BY <2>1 DEF Maps, Got
<1> QED
  BY <1>1, <1>2, Inductive, RepliesInStep, PTL
     DEF Spec, ImplementsDownload, Download!Spec, Download!downloadVars
=============================================================================
