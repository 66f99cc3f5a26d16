----------------------------- MODULE CgymGetProps -----------------------------
(***************************************************************************)
(* What a download promises, and what it does not keep.                    *)
(***************************************************************************)
EXTENDS CgymGet

Preparing == {"connect", "handshake", "sizeStatus", "sizeLine", "plan"}
Looping   == {"loop", "build", "select", "pass", "assemble"}

TypeOK ==
  /\ pc \in Running \cup Stopped
  /\ ret \in 0 .. 5
  /\ e \in Versions \cup {NoVersion}
  /\ i \in Nat
  /\ segm \in Seq(Segment)
  /\ fdset \subseteq Fds
  /\ slist \in [1 .. NServers + 1 -> Servers \cup {NoServer}]
  /\ serv \in 1 .. NServers + 1
  /\ out \in Seq(Unit)
  /\ conn \in [Fds -> Conn]
  /\ cur \in [Servers -> Versions \cup {NoVersion}]
  /\ whole \in BOOLEAN
  /\ faults \in 0 .. MaxFaults
  /\ edits \in 0 .. MaxEdits

Done(s) == s.status = "DONE"

(* What is kept of a finished segment is one contiguous piece of one       *)
(* version of the file, the piece that was asked for, and its end of line: *)
(* however the stream was cut, whoever failed, and whatever the server's   *)
(* file became in between.                                                 *)
DoneIsOneVersionSlice ==
  \A k \in 0 .. Len(segm) - 1 :
    Done(segm[k + 1]) =>
      \E v \in Versions :
        segm[k + 1].buf = Slice(v, Start(k), Stop(k)) \o EndMsg

(* When no server's file changes during the download, the segments fit     *)
(* together whatever the servers held at first: a mirror with another      *)
(* version of the file never contributes a byte, and the MD5 check of      *)
(* segment.c:197 cannot fail.                                              *)
AssembledMatches ==
  pc = "assemble" /\ edits = 0 => Assembled = Content(e)

(* No bytes are asked from a mirror before its description of the file was *)
(* compared with the first server's (get.c:321-348).                       *)
MirrorAgrees ==
  edits = 0 =>
    \A k \in 1 .. Len(segm) :
      segm[k].state \in {"RECV_GET_REPLY", "RECV_GET_DATA"} =>
        conn[segm[k].fd].srv # NoServer /\ cur[conn[segm[k].fd].srv] = e

(* The descriptor select() reports belongs to one segment, the unfinished  *)
(* one that waits on it: a finished segment's socket still has the number  *)
(* of the descriptor it closed, and the second pass does not look at the   *)
(* status.                                                                 *)
ReadyFdIsLive ==
  pc = "pass" =>
    \A f \in fdset :
      /\ conn[f].st # "free"
      /\ \A k \in 1 .. Len(segm) :
           segm[k].fd = f => ~Done(segm[k]) /\ segm[k].state \in Waiting

(* A finished segment is never touched again.                              *)
DoneIsStable ==
  [][\A k \in 1 .. Len(segm) : Done(segm[k]) => segm'[k] = segm[k]]_vars

(* CgymDownload, of what is kept and written.                              *)
Phase ==
  CASE pc \in Preparing \ {"plan"}  -> "describe"
    [] pc \in {"plan", "init"} \cup Looping -> "fetch"
    [] pc = "exit" /\ ret = 0       -> "delivered"
    [] OTHER                        -> "failed"

Kept(k) == IF k <= Len(segm) /\ Done(segm[k])
           THEN SubSeq(segm[k].buf, 1, Len(segm[k].buf) - 1) ELSE <<>>

Download == INSTANCE CgymDownload WITH
  phase <- Phase, entry <- e, file <- out,
  got <- IF e = NoVersion THEN <<>> ELSE [k \in 1 .. NrSegments |-> Kept(k)]

(* Each step of the client, however it is interleaved with the network,    *)
(* the servers, failures and changes of files, is a step of CgymDownload   *)
(* or none: no piece is lost, fetched twice or made of two versions,       *)
(* nothing is written before all are there, and code 0 is only returned    *)
(* when the file written is the one described.                             *)
ImplementsDownload == Download!Spec

-----------------------------------------------------------------------------
(* An inductive invariant that implies TypeOK and ReadyFdIsLive; it is     *)
(* proved in CgymGetProofs.                                                *)
Bytes(k) == Stop(k - 1) - Start(k - 1)       \* the length of segm[k]

(* pos_recv is inside the buffer and short of what the next cgym_recv() in *)
(* this state asks for; len is the length of the segment.                  *)
PosOK(s, len) ==
  /\ s.pos <= Len(s.buf)
  /\ s.state \in {"CONNECTING", "RECV_HANDSHAKE", "RECV_SIZE_REPLY",
                  "RECV_GET_REPLY"} => s.pos < 2
  /\ s.state = "RECV_SIZE_DATA" => s.pos < MaxLine
  /\ s.state = "RECV_GET_DATA" => s.pos < len + 1
  /\ s.state = "CONNECTED" => s.pos = 0

(* An unfinished segment has a connection, a finished one all its bytes.   *)
SegmOK(k) ==
  /\ PosOK(segm[k], Bytes(k))
  /\ Done(segm[k]) => segm[k].state = "IDLE" /\ Len(segm[k].buf) = Bytes(k) + 1
  /\ ~Done(segm[k]) => conn[segm[k].fd].st # "free"

FdsDistinct ==
  \A j, k \in 1 .. Len(segm) : segm[j].fd = segm[k].fd => j = k

(* Where the first part of cgym_get() has brought segment 0.               *)
Only(state) == Len(segm) = 1 /\ segm[1].state = state /\ ~Done(segm[1])

Planned == e \in Versions /\ Divides(NrSegments)

Stage ==
  /\ pc = "handshake"  => Only("RECV_HANDSHAKE")
  /\ pc = "sizeStatus" => Only("RECV_SIZE_REPLY")
  /\ pc = "sizeLine"   => Only("RECV_SIZE_DATA")
  /\ pc = "plan"       => Only("CONNECTED") /\ e \in Versions
  /\ pc = "init" => /\ Planned
                    /\ i = Len(segm) /\ i <= NrSegments
                    /\ \A k \in 1 .. Len(segm) : ~Done(segm[k])
  /\ pc \in Looping => Planned /\ Len(segm) = NrSegments
  /\ pc = "assemble" => AllDone

(* The sets given to select() and those it returns.                        *)
FdsWaited ==
  pc \in {"build", "pass"} =>
    \A f \in fdset : \E k \in 1 .. Len(segm) :
      segm[k].fd = f /\ ~Done(segm[k]) /\ segm[k].state \in Waiting

IInv ==
  /\ TypeOK
  /\ slist[NServers + 1] = NoServer
  /\ Stage
  /\ pc = "connect" => segm = <<>>
  /\ pc \in Running => FdsDistinct /\ \A k \in 1 .. Len(segm) : SegmOK(k)
  /\ FdsWaited

-----------------------------------------------------------------------------
(* What a segment can still read: the reply that it waits for, from where  *)
(* it is, whatever the network has done to it.  This is the inductive      *)
(* invariant of the content; it implies DoneIsOneVersionSlice,             *)
(* AssembledMatches and MirrorAgrees and is proved in CgymGetProofs.       *)
Stream(s, c) == (SubSeq(s.buf, 1, s.pos) \o c.avail) \o c.flight

Begins(t, m) == Len(t) <= Len(m) /\ \A j \in 1 .. Len(t) : t[j] = m[j]

(* It is not taken for a positive status.                                  *)
NotOk(t) == t # <<>> => t[1] # Word("OK")

(* v was the server's version, and is while no file is changed.            *)
Held(c, v)     == edits = 0 => v = cur[c.srv]
SameAsFirst(c) == edits = 0 => e = cur[c.srv]

AwaitsGreeting(c, t) ==
  c.req = NoReq /\ IF c.greeted THEN Begins(t, AckMsg) ELSE t = <<>>
AwaitsSize(c, t) ==
  \/ c.req = SizeReq /\ t = <<>>
  \/ /\ c.req = NoReq
     /\ \/ NotOk(t)
        \/ \E v \in Versions : Held(c, v) /\ Begins(t, SizeReply(v))
AwaitsEntry(c, t) ==
  /\ c.req = NoReq
  /\ \E v \in Versions : Held(c, v) /\ Begins(t, <<Entry(v), CRLF>> \o EndMsg)
AwaitsGet(c, t, start, stop) ==
  \/ c.req = GetReq(start, stop) /\ NotOk(t)
  \/ /\ c.req = NoReq
     /\ \/ NotOk(t)
        \/ \E v \in Versions : Held(c, v) /\ Begins(t, GetReply(v, start, stop))
AwaitsBytes(c, t, start, stop) ==
  /\ c.req = NoReq
  /\ \E v \in Versions : Held(c, v) /\ Begins(t, Slice(v, start, stop) \o EndMsg)

Greeted(c) == c.greeted => c.st = "up" /\ c.srv \in Servers

Expects(s, c, start, stop) ==
  LET t == Stream(s, c) IN
  /\ Greeted(c)
  /\ s.state \in {"CONNECTING", "RECV_HANDSHAKE"} => AwaitsGreeting(c, t)
  /\ s.state = "RECV_SIZE_REPLY" => c.greeted /\ AwaitsSize(c, t)
  /\ s.state = "RECV_SIZE_DATA"  => c.greeted /\ AwaitsEntry(c, t)
  /\ s.state = "RECV_GET_REPLY"  =>
       c.greeted /\ SameAsFirst(c) /\ AwaitsGet(c, t, start, stop)
  /\ s.state = "RECV_GET_DATA"   =>
       c.greeted /\ SameAsFirst(c) /\ AwaitsBytes(c, t, start, stop)

(* The first connection, between the two requests.                         *)
AtRest(c, t) == c.req = NoReq /\ c.greeted /\ SameAsFirst(c) /\ NotOk(t)

OneVersion(buf, start, stop) ==
  \E v \in Versions : /\ buf = Slice(v, start, stop) \o EndMsg
                      /\ edits = 0 => v = e

StreamInv ==
  /\ \A k \in 1 .. Len(segm) :
       IF Done(segm[k])
       THEN OneVersion(segm[k].buf, Start(k - 1), Stop(k - 1))
       ELSE Expects(segm[k], conn[segm[k].fd], Start(k - 1), Stop(k - 1))
  /\ pc = "plan" => AtRest(conn[segm[1].fd], Stream(segm[1], conn[segm[1].fd]))

-----------------------------------------------------------------------------
AllAgree == \A s, t \in Servers : cur[s] = cur[t] /\ cur[s] # NoVersion

(* Without failures, between mirrors that agree, no server is ever given   *)
(* up and the library never loops or gives up on its own; the only bad     *)
(* ends left are those of a stream cut in an unfortunate place (codes 2    *)
(* and 4).                                                                 *)
NoSpuriousFailure ==
  faults = 0 /\ edits = 0 /\ AllAgree =>
    /\ pc \notin {"spin", "killed"}
    /\ \A s \in Servers : slist[s] = s
    /\ ret \in {0, 2, 4}

-----------------------------------------------------------------------------
(* A download that nothing disturbs.  This is the inductive invariant      *)
(* behind NoSpuriousFailure and NoLeak, proved in CgymHealthyProofs: no    *)
(* connection ends before it is closed, no bytes are asked that the file   *)
(* does not have, every connection but those made for a segment that will  *)
(* be given up belongs to a segment, and, when every reply arrives in one  *)
(* piece, a segment waits for a message of which all is there or nothing.  *)
Undisturbed == faults = 0 /\ edits = 0 /\ AllAgree

(* It is not cut, and asks for bytes that the file has.                    *)
Steady(c) ==
  /\ c.st # "failed" /\ ~c.fin
  /\ c.req.op = "get" => HasRange(e, c.req.from, c.req.to)

OneOf(c, m) == \/ c.avail = m /\ c.flight = <<>>
               \/ c.avail = <<>> /\ c.flight = m
Nothing(c)  == c.avail = <<>> /\ c.flight = <<>>

OnePiece(s, c, start, stop) ==
  /\ s.pos = 0
  /\ \/ /\ s.state \in {"CONNECTING", "RECV_HANDSHAKE"}
        /\ c.req = NoReq /\ IF c.greeted THEN OneOf(c, AckMsg) ELSE Nothing(c)
     \/ /\ s.state = "CONNECTED"
        /\ c.greeted /\ c.req = NoReq /\ Nothing(c)
     \/ /\ s.state = "RECV_SIZE_REPLY" /\ c.greeted
        /\ \/ c.req = SizeReq /\ Nothing(c)
           \/ c.req = NoReq /\ \E v \in Versions : OneOf(c, SizeReply(v))
     \/ /\ s.state = "RECV_SIZE_DATA" /\ c.greeted /\ c.req = NoReq
        /\ c.flight = <<>> /\ \E v \in Versions : c.avail = <<Entry(v), CRLF>> \o EndMsg
     \/ /\ s.state = "RECV_GET_REPLY" /\ c.greeted
        /\ \/ c.req = GetReq(start, stop) /\ Nothing(c)
           \/ c.req = NoReq /\ \E v \in Versions : OneOf(c, GetReply(v, start, stop))

(* Segment k of the sequence, s, with its connection c.                    *)
Fit(k, s, c) ==
  /\ s.state # "ERR"
  /\ ~Done(s) => /\ c.st # "free"
                 /\ whole => OnePiece(s, c, Start(k - 1), Stop(k - 1))

OpenFds(cn) == {f \in Fds : cn[f].st # "free"}
Undone(sg)  == {k \in 1 .. Len(sg) : ~Done(sg[k])}
Live(sg)    == {sg[k].fd : k \in Undone(sg)}
(* "CONNECTED" is not one of the states the loop waits in.                 *)
Stuck(sg)   == {k \in Undone(sg) : sg[k].state = "CONNECTED"}

Calm(sg, cn) ==
  /\ \A f \in Fds : Steady(cn[f])
  /\ \A k \in 1 .. Len(sg) : Fit(k, sg[k], cn[sg[k].fd])
  /\ Cardinality(OpenFds(cn)) <= Len(sg) + Cardinality(Stuck(sg))
  /\ whole => OpenFds(cn) \subseteq Live(sg)

Quiet ==
  /\ pc \in Preparing \ {"plan"} => e = NoVersion
  /\ e \in Versions => \A s \in Servers : cur[s] = e
  /\ \A s \in Servers : slist[s] = s
  /\ Calm(segm, conn)
  /\ pc \in Preparing \cup {"init"} => OpenFds(conn) \subseteq Live(segm)

Healthy == Undisturbed => Quiet

(* There are bytes to fetch, and descriptors for a second connection of    *)
(* each segment; it ends as NoSpuriousFailure says.                        *)
Ample ==
  LET n == ClampSegments(NrSegm, SizeOf[cur[1]]) IN Divides(n) /\ 2 * n <= MaxFd
Fine == pc \notin {"spin", "killed"} /\ ret \in {0, 2, 4}

HealthyEnd == Undisturbed /\ Ample => Fine

(* When every reply arrives in one piece, the open connections are those   *)
(* of the segments that are not finished: each segment closes its own, so  *)
(* that a server gets to the next connection in its queue.                 *)
Open == {f \in Fds : conn[f].st # "free"}
NoLeak ==
  whole /\ pc \notin Preparing =>
    Open = {segm[k].fd : k \in {k \in 1 .. Len(segm) : ~Done(segm[k])}}

(* The download comes to an end.                                           *)
Settles == <>(pc = "exit")

(* When every reply arrives in one piece, the file is downloaded.          *)
WholeDelivers == whole ~> (pc = "exit" /\ ret = 0 /\ out = Content(e))

(* get.c:211-220: a segment is not found in one of these states at the     *)
(* start of the cycle, "care nu ar trebui sa apara la inceputul ciclului". *)
NeverUnhandled ==
  pc = "build" /\ i < NrSegments =>
    Done(segm[i + 1]) \/ segm[i + 1].state \in Waiting \cup {"ERR"}

(* get.c:192, "eroare? trebuie repornit segmentul", and 197, "Incercam sa  *)
(* ne conectam la alt server pentru acest segment": a segment that is      *)
(* found in error and for which a new connection was made is started again.*)
ErrorRestarted ==
  [][pc = "build" /\ i < NrSegments /\ pc' = "build" =>
       (segm[i + 1].state = "ERR" => segm'[i + 1].state # "ERR")]_vars
=============================================================================
