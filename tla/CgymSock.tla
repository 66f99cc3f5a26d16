------------------------------- MODULE CgymSock -------------------------------
(***************************************************************************)
(* The client's socket layer: libcgym/src/sock.c and the two replies of    *)
(* libcgym/src/cgym_get.c, as operators.                                   *)
(*                                                                         *)
(* A cgym_sock_t and the cgym_segment_t that owns it are one record        *)
(* (segment k of cgym_get() never changes its socket), with the fields     *)
(*    fd, state, buf, pos   sockfd, state, buf, pos_recv of the socket     *)
(*    status                the segment's status                           *)
(* and a TCP connection is a record                                        *)
(*    st        "free" (no such descriptor), "opening", "up" or "failed"   *)
(*    srv       the server at the other end                                *)
(*    greeted   the server has accepted it and sent its CGYM line          *)
(*    req       the request the server has not answered yet                *)
(*    flight    units sent by the server that have not arrived             *)
(*    avail     units that arrived and were not read                       *)
(*    fin       the server closed its end                                  *)
(*                                                                         *)
(* The byte stream is cut into units: a word of the protocol, an end of    *)
(* line, the description of a version of the file, or one of its bytes.    *)
(***************************************************************************)
EXTENDS Integers, Sequences

CONSTANTS
  Versions,    \* the contents the file can have; equal MD5s mean equal versions
  NoVersion,   \* no such file
  SizeOf,      \* the size of each version, in bytes
  MaxLine      \* MAX_LINE_LEN + 1, in units: more than a SIZE reply is long

ASSUME SockAssumption ==
  /\ NoVersion \notin Versions
  /\ SizeOf \in [Versions -> Nat]
  /\ MaxLine \in Nat \ 0 .. 3

Unit ==
  [kind : {"CGYM", "OK", "ERR", "CRLF"}, of : {NoVersion}, at : {0}]
    \cup [kind : {"entry"}, of : Versions, at : {0}]
    \cup [kind : {"byte"}, of : Versions, at : Nat]

Word(w)  == [kind |-> w, of |-> NoVersion, at |-> 0]
CRLF     == Word("CRLF")
Entry(v) == [kind |-> "entry", of |-> v, at |-> 0]

(* The bytes of version v from start to stop - 1.                          *)
Slice(v, start, stop) ==
  [k \in 1 .. stop - start |-> [kind |-> "byte", of |-> v, at |-> start + k - 1]]

Content(v) == Slice(v, 0, SizeOf[v])

(* What the server sends (libcgym.h, 14-22; cgymd.c, 118-246).             *)
AckMsg == <<Word("CGYM"), CRLF>>
OkMsg  == <<Word("OK"), CRLF>>
ErrMsg == <<Word("ERR"), CRLF>>
EndMsg == <<CRLF>>

SizeReply(v)          == OkMsg \o <<Entry(v), CRLF>> \o EndMsg
GetReply(v, from, to) == OkMsg \o Slice(v, from, to) \o EndMsg

(* get() fails for a range the file does not have (cgymd_get.c:43-58).     *)
HasRange(v, from, to) == v # NoVersion /\ from < to /\ to <= SizeOf[v]

-----------------------------------------------------------------------------
SockStates == {"IDLE", "CONNECTING", "RECV_HANDSHAKE", "CONNECTED",
               "RECV_SIZE_REPLY", "RECV_SIZE_DATA",
               "RECV_GET_REPLY", "RECV_GET_DATA", "ERR"}
Statuses   == {"IDLE", "STARTED", "DONE"}

(* recv() has something to return: data, end of file or an error.          *)
Eof(c)      == c.st = "failed" \/ (c.fin /\ c.flight = <<>>)
Readable(c) == c.avail # <<>> \/ Eof(c)

(* The return codes 2 (closed) and 3 (recv() failed) are one here: no      *)
(* caller tells them apart.                                                *)
cgym_recv(s, c, len) ==
  LET want == len - s.pos
      n    == IF Len(c.avail) < want THEN Len(c.avail) ELSE want
      got  == SubSeq(s.buf, 1, s.pos) \o SubSeq(c.avail, 1, n)
      rest == [c EXCEPT !.avail = SubSeq(c.avail, n + 1, Len(c.avail))]
  IN  IF n = 0
      THEN [segm |-> s, conn |-> c, rc |-> IF Eof(c) THEN 2 ELSE 1]
      ELSE IF n = want
      THEN [segm |-> [s EXCEPT !.buf = got, !.pos = 0], conn |-> rest, rc |-> 0]
      ELSE [segm |-> [s EXCEPT !.buf = got, !.pos = s.pos + n],
            conn |-> rest, rc |-> 1]

(* What the functions below make of the result of a cgym_recv(); Clear is  *)
(* cgym_sock_clear().                                                      *)
To(r, state)    == [r EXCEPT !.segm.state = state]
Mark(r, status) == [r EXCEPT !.segm.status = status]
Return(r, rc)   == [r EXCEPT !.rc = rc]
Clear(r)        == [r EXCEPT !.segm.buf = <<>>, !.segm.pos = 0]
ClearOnError(r) == IF r.rc > 1 THEN Clear(r) ELSE r

cgym_recv_handshake(s, c) ==
  LET r == cgym_recv(s, c, Len(AckMsg))
  IN  IF r.rc = 0
      THEN IF r.segm.buf = AckMsg THEN Clear(r) ELSE Return(r, 2)
      ELSE IF r.rc > 1 THEN Return(r, 3) ELSE r

(* cgym_sock_connect() on a socket whose connect() was called before.  A   *)
(* failed connection leaves RECV_HANDSHAKE, not ERR: sock.c:241 comes      *)
(* after the error branches.                                               *)
cgym_sock_connect(s, c) ==
  IF s.state = "CONNECTING" /\ c.st = "failed"
  THEN [segm |-> [s EXCEPT !.state = "RECV_HANDSHAKE"], conn |-> c, rc |-> 5]
  ELSE LET r == cgym_recv_handshake([s EXCEPT !.state = "RECV_HANDSHAKE"], c)
       IN  IF r.rc = 0 THEN To(r, "CONNECTED")
           ELSE IF r.rc > 1 THEN Return(To(r, "ERR"), 6)
           ELSE r

-----------------------------------------------------------------------------
(* The reply to SIZE: a status, then the line of the entry, read as part   *)
(* of a longer block that must not fill up (cgym_get.c:87).                *)
SizeStatus(s, c) ==
  LET r == cgym_recv(s, c, Len(OkMsg))
  IN  IF r.rc = 0
      THEN IF r.segm.buf = OkMsg THEN To(r, "RECV_SIZE_DATA")
                                 ELSE Return(To(r, "CONNECTED"), 2)
      ELSE IF r.rc > 1 THEN To(r, "CONNECTED") ELSE r

HasLine(s) == \E k \in 1 .. s.pos : s.buf[k] = CRLF

M_SizeLine(s, c) ==
  LET r == cgym_recv(s, c, MaxLine)
  IN  IF r.rc = 0 THEN Clear(To(r, "CONNECTED")) ELSE r

(* On success the entry is the first unit of the buffer, which is cleared  *)
(* with whatever followed the line.                                        *)
SizeLine(s, c) ==
  LET r == cgym_recv(s, c, MaxLine)
  IN  IF r.rc = 1 /\ HasLine(r.segm)
      THEN IF r.segm.buf[1].kind = "entry"
           THEN Return(Clear(To(r, "CONNECTED")), 0)
           ELSE Return(r, 5)
      ELSE IF r.rc = 0 THEN Return(r, 4) ELSE r

(* The entry that SizeLine(s, c) parses when it returns 0.                 *)
LineEntry(s, c) == cgym_recv(s, c, MaxLine).segm.buf[1].of

(* Through the status, when the socket still waits for it.                 *)
AfterSizeStatus(s, c) ==
  IF s.state = "RECV_SIZE_REPLY" THEN SizeStatus(s, c)
  ELSE [segm |-> s, conn |-> c, rc |-> 0]

cgym_recv_size_reply(s, c) ==
  LET r == AfterSizeStatus(s, c)
  IN  ClearOnError(IF r.segm.state = "RECV_SIZE_DATA"
                   THEN SizeLine(r.segm, r.conn) ELSE r)

SizeReplyEntry(s, c) ==
  LET r == AfterSizeStatus(s, c) IN LineEntry(r.segm, r.conn)

-----------------------------------------------------------------------------
(* The reply to GET: a status, then len bytes and an end of line.          *)
M_GetStatus(s, c) ==
  LET r == cgym_recv(s, c, Len(OkMsg))
  IN  IF r.rc = 0 THEN Mark(To(r, "RECV_GET_DATA"), "STARTED")
      ELSE IF r.rc > 1
           THEN Mark(To(r, "CONNECTED"), "IDLE")
           ELSE r

GetStatus(s, c) ==
  LET r == cgym_recv(s, c, Len(OkMsg))
  IN  IF r.rc = 0
      THEN IF r.segm.buf = OkMsg
           THEN Mark(To(r, "RECV_GET_DATA"), "STARTED")
           ELSE Return(To(r, "CONNECTED"), 2)
      ELSE IF r.rc > 1
           THEN Mark(To(r, "CONNECTED"), "IDLE")
           ELSE r

M_GetData(s, c, len) ==
  LET r == cgym_recv(s, c, len)
  IN  IF r.rc = 0 THEN Mark(To(r, "CONNECTED"), "DONE")
      ELSE IF r.rc > 1
           THEN Return(Mark(r, "IDLE"), 4)
           ELSE r

(* A failure leaves the state RECV_GET_DATA.                               *)
GetData(s, c, len) ==
  LET r == cgym_recv(s, c, len + 1)
  IN  IF r.rc = 0
      THEN IF r.segm.buf[len + 1] = CRLF
           THEN Mark(To(r, "CONNECTED"), "DONE")
           ELSE Return(r, 5)
      ELSE IF r.rc > 1
           THEN Return(Mark(r, "IDLE"), 4)
           ELSE r

AfterGetStatus(s, c) ==
  IF s.state = "RECV_GET_REPLY" THEN GetStatus(s, c)
  ELSE [segm |-> s, conn |-> c, rc |-> 0]

cgym_recv_get_reply(s, c, len) ==
  LET r == AfterGetStatus(s, c)
  IN  ClearOnError(IF r.segm.state = "RECV_GET_DATA"
                   THEN GetData(r.segm, r.conn, len) ELSE r)
=============================================================================
