------------------------------- MODULE CgymGet -------------------------------
(***************************************************************************)
(* cgym_get() (cgym/src/get.c), the client's download, with the network    *)
(* and the servers it talks to.                                            *)
(*                                                                         *)
(* The client first gets the file's description (the entry e) over one     *)
(* blocking connection, cuts the file into segments, opens a connection    *)
(* per segment and multiplexes them with select().  Its actions are one    *)
(* per blocking call in the first part, and one per segment handled in     *)
(* each pass of the loop; the network and the servers move between any two.*)
(*                                                                         *)
(* The servers are those of cgymd/, as this client can see them: each      *)
(* serves one connection at a time (accept, then join the thread), greets  *)
(* it, and answers a SIZE or a GET from the file as it is at that moment.  *)
(***************************************************************************)
EXTENDS CgymSock, CgymSegments, FiniteSets

CONSTANTS
  NrSegm,        \* the -n argument
  NServers,      \* the servers are 1 .. NServers, in the order of the arguments
  MaxFd,         \* the descriptors the client can have open
  ConnectModes,  \* what connect() may have done when it returns in cgym_sock_setup()
  Mirrors,       \* what the servers may hold at first
  Deliveries,    \* TRUE: all that is in flight arrives at once; FALSE: a unit at a time
  MaxFaults,     \* bound on the failures of the environment
  MaxEdits       \* bound on the changes of a server's file

Servers   == 1 .. NServers
NoServer  == 0                                  \* the NULL that ends slist
Fds       == 1 .. MaxFd
AllModes  == {"progress", "up", "greeted"}

ASSUME GetAssumption ==
  /\ NrSegm \in Int_t
  /\ \A v \in Versions : SizeOf[v] \in 0 .. INT_MAX
  /\ NServers \in Nat \ {0}
  /\ MaxFd \in Nat \ {0}
  /\ ConnectModes \subseteq AllModes
  /\ Mirrors \subseteq [Servers -> Versions \cup {NoVersion}]
  /\ Deliveries \subseteq BOOLEAN
  /\ MaxFaults \in Nat /\ MaxEdits \in Nat

VARIABLES
  pc,      \* where the client is
  ret,     \* the value cgym_get() returned
  e,       \* the version described by the entry e
  i,       \* the loop counter
  segm,    \* the segments; segm[k + 1] is segm[k] of the code
  fdset,   \* the descriptors in readfds and writefds
  slist,   \* the list of servers, ended by NoServer
  serv,    \* the position in slist of *serv
  out,     \* the file written by cgym_segment_assemble()
  conn,    \* the connection of each descriptor
  cur,     \* the version each server holds
  whole,   \* the member of Deliveries that is the case
  faults,  \* failures so far
  edits    \* changes so far

client  == <<pc, ret, e, i, segm, fdset, slist, serv, out>>
mirror  == <<cur, whole, edits>>
vars    == <<client, conn, mirror, faults>>

Running == {"connect", "handshake", "sizeStatus", "sizeLine", "plan", "init",
            "loop", "build", "select", "pass", "assemble"}
(* returned, killed by a signal, in an endless loop of the library         *)
Stopped == {"exit", "killed", "spin"}

Requests == [op : {"none", "size", "get"}, from : Nat, to : Nat]
NoReq    == [op |-> "none", from |-> 0, to |-> 0]
SizeReq  == [op |-> "size", from |-> 0, to |-> 0]
GetReq(start, stop) == [op |-> "get", from |-> start, to |-> stop]

Conn == [st : {"free", "opening", "up", "failed"}, srv : Servers \cup {NoServer},
         greeted : BOOLEAN, req : Requests, flight : Seq(Unit),
         avail : Seq(Unit), fin : BOOLEAN]

FreeConn == [st |-> "free", srv |-> NoServer, greeted |-> FALSE, req |-> NoReq,
             flight |-> <<>>, avail |-> <<>>, fin |-> FALSE]

NewConn(s, mode) ==
  [FreeConn EXCEPT !.st = IF mode = "progress" THEN "opening" ELSE "up",
                   !.srv = s, !.greeted = (mode = "greeted")]

Segment == [fd : Fds, state : SockStates, buf : Seq(Unit), pos : Nat,
            status : Statuses]

NewSegm(fd, state) ==
  [fd |-> fd, state |-> state, buf |-> <<>>, pos |-> 0, status |-> "IDLE"]

(* nr_segm after get.c:72-75, and the ends of segment k.                   *)
NrSegments == ClampSegments(NrSegm, SizeOf[e])
Start(k)   == SegmStart(k, NrSegments, SizeOf[e])
Stop(k)    == SegmStop(k, NrSegments, SizeOf[e])

Init ==
  /\ pc = "connect" /\ ret = 0 /\ e = NoVersion /\ i = 0
  /\ segm = <<>> /\ fdset = {}
  /\ slist = [p \in 1 .. NServers + 1 |-> IF p \in Servers THEN p ELSE NoServer]
  /\ serv = 1 /\ out = <<>>
  /\ conn = [f \in Fds |-> FreeConn]
  /\ cur \in Mirrors /\ whole \in Deliveries
  /\ faults = 0 /\ edits = 0

Fault    == faults < MaxFaults /\ faults' = faults + 1
NoFault  == faults' = faults
Exit(rc) == pc' = "exit" /\ ret' = rc
Goto(l)  == pc' = l /\ ret' = ret

-----------------------------------------------------------------------------
(* Sending.  A request to a server that closed its end may still be        *)
(* accepted by the kernel (and is lost), fail, or raise SIGPIPE, which     *)
(* nobody handles.                                                         *)
Sent(c, req) == IF c.fin THEN c ELSE [c EXCEPT !.req = req]
SendMayFail(c) == c.fin
OnConn(r, c)   == [r EXCEPT !.conn = c]
Killed == pc' = "killed" /\ ret' = ret

(* cgym_sock_setup(): a new non-blocking socket, connecting to the server  *)
(* at position p of the list sl.  It gets the lowest free descriptor.      *)
FreeFds(cn) == {f \in Fds : cn[f].st = "free"}
IsLowestFree(cn, f) ==
  f \in FreeFds(cn) /\ \A g \in FreeFds(cn) : f <= g

(* connect() can only have been answered by a server that is not serving   *)
(* another connection.                                                     *)
Serving(c, s) == c.st = "up" /\ c.srv = s /\ c.greeted /\ ~c.fin
Idle(cn, s)   == \A f \in Fds : ~Serving(cn[f], s)

Modes(cn, s) ==
  {m \in ConnectModes : m = "greeted" => Idle(cn, s)}

DialledState(mode) ==
  CASE mode = "progress" -> "CONNECTING"
    [] mode = "up"       -> "RECV_HANDSHAKE"
    [] mode = "greeted"  -> "CONNECTED"     \* nobody sends the SIZE request

CanDial(sl, p, cn) == sl[p] # NoServer /\ FreeFds(cn) # {}

(* It returns a socket.                                                    *)
Dialled(sl, p, cn, fd, mode) ==
  /\ CanDial(sl, p, cn)
  /\ IsLowestFree(cn, fd)
  /\ mode \in Modes(cn, sl[p])
  /\ conn' = [cn EXCEPT ![fd] = NewConn(sl[p], mode)]

(* It does not.  fcntl() failed: the download is given up with code 3.     *)
(* Anything else failed (socket(), gethostbyname(), connect(), no server   *)
(* left): cgym_server_remove() or the loop around it never ends, see       *)
(* CgymSetup.                                                              *)
SetupFails(sl, p, cn) ==
  /\ conn' = cn
  /\ \/ ~CanDial(sl, p, cn) /\ NoFault /\ Goto("spin")
     \/ CanDial(sl, p, cn) /\ Fault /\ (Goto("spin") \/ Exit(3))

(* At the NULL that ends the list, serv goes back to its start.            *)
M_Wrap(sl, p) == p
Wrap(sl, p)   == IF sl[p] = NoServer THEN 1 ELSE p

(* Before a GET request or after an error, "incercam sa ne conectam la alt *)
(* server pentru acest segment": segment k, as sg has it, is to get a new  *)
(* connection.  The new socket goes to a local variable and never to the   *)
(* segment: cgym_segment_set_sock() is not called.                         *)
M_Retry(k, sg, sl, cn, next) ==
  LET p == Wrap(sl, serv) IN
  /\ slist' = sl /\ serv' = p + 1
  /\ \/ segm' = sg /\ SetupFails(sl, p, cn)
     \/ \E fd \in Fds, mode \in ConnectModes :
          /\ Dialled(sl, p, cn, fd, mode)
          /\ segm' = [sg EXCEPT ![k + 1] = NewSegm(fd, DialledState(mode))]
          /\ NoFault /\ Goto(next)

M_RetryFirst(k, sg, sl, cn, next) ==
  LET p == Wrap(sl, serv) IN
  /\ slist' = sl /\ serv' = p + 1
  /\ \/ segm' = sg /\ SetupFails(sl, p, cn)
     \/ \E fd \in Fds, mode \in ConnectModes :
          /\ Dialled(sl, p, cn, fd, mode)
          /\ segm' = [sg EXCEPT ![1] = NewSegm(fd, DialledState(mode))]
          /\ NoFault /\ Goto(next)

Retry(k, sg, sl, cn, next) ==
  LET p == Wrap(sl, serv) IN
  /\ segm' = sg /\ slist' = sl /\ serv' = p + 1
  /\ \/ SetupFails(sl, p, cn)
     \/ /\ \E fd \in Fds, mode \in ConnectModes : Dialled(sl, p, cn, fd, mode)
        /\ NoFault /\ Goto(next)

-----------------------------------------------------------------------------
(* The first connection, which blocks.  A short read is final here: the    *)
(* functions say 1 for "incomplete" and cgym_get() gives up on any code    *)
(* but 0.                                                                  *)

(* cgym_sock_create() and the connect() of cgym_sock_connect(): codes 1    *)
(* and 2 when they fail.                                                   *)
Connect ==
  /\ pc = "connect"
  /\ \/ /\ segm' = <<NewSegm(1, "RECV_HANDSHAKE")>>
        /\ conn' = [conn EXCEPT ![1] = NewConn(slist[1], "up")]
        /\ NoFault /\ Goto("handshake")
     \/ /\ Fault /\ (Exit(1) \/ Exit(2))
        /\ UNCHANGED <<segm, conn>>
  /\ UNCHANGED <<e, i, fdset, slist, serv, out, mirror>>

first == conn[segm[1].fd]
First(r) ==
  /\ segm' = <<r.segm>>
  /\ conn' = [conn EXCEPT ![r.segm.fd] = r.conn]

(* The handshake, then the SIZE request.                                   *)
Handshake ==
  /\ pc = "handshake" /\ Readable(first)
  /\ LET r == cgym_sock_connect(segm[1], first)
     IN  \/ r.rc # 0 /\ First(r) /\ Exit(2)
         \/ /\ r.rc = 0
            /\ First(OnConn(To(r, "RECV_SIZE_REPLY"), Sent(r.conn, SizeReq)))
            /\ Goto("sizeStatus")
         \/ /\ r.rc = 0 /\ SendMayFail(r.conn)
            /\ First(r) /\ (Exit(3) \/ Killed)
  /\ UNCHANGED <<e, i, fdset, slist, serv, out, mirror, faults>>

ReadSizeStatus ==
  /\ pc = "sizeStatus" /\ Readable(first)
  /\ LET r == SizeStatus(segm[1], first)
     IN  First(r) /\ IF r.rc = 0 THEN Goto("sizeLine") ELSE Exit(4)
  /\ UNCHANGED <<e, i, fdset, slist, serv, out, mirror, faults>>

ReadSizeLine ==
  /\ pc = "sizeLine" /\ Readable(first)
  /\ LET r == SizeLine(segm[1], first)
     IN  /\ First(r)
         /\ \/ r.rc = 0 /\ e' = LineEntry(segm[1], first) /\ Goto("plan")
            \/ r.rc # 0 /\ e' = e /\ Exit(4)
  /\ UNCHANGED <<i, fdset, slist, serv, out, mirror, faults>>

-----------------------------------------------------------------------------
(* The segments.                                                           *)

(* The division of get.c:83.                                               *)
DivideByZero ==
  /\ pc = "plan" /\ ~Divides(NrSegments)
  /\ Killed
  /\ UNCHANGED <<e, i, segm, fdset, slist, serv, out, conn, mirror, faults>>

(* Segment 0 takes the first connection, which stops blocking, and asks    *)
(* for its bytes.  When it cannot, a replacement is set up and dropped.    *)
InitFirst ==
  /\ pc = "plan" /\ Divides(NrSegments)
  /\ i' = 1
  /\ LET s == segm[1]
         p == Wrap(slist, 2)                        \* serv = servers + 1
         asked == [first EXCEPT !.req = GetReq(Start(0), Stop(0))]
     IN  \/ /\ segm' = <<[s EXCEPT !.state = "RECV_GET_REPLY"]>>
            /\ conn' = [conn EXCEPT ![s.fd] = IF first.fin THEN @ ELSE asked]
            /\ serv' = 2 /\ NoFault /\ Goto("init")
         \/ /\ SendMayFail(first) /\ segm' = segm
            /\ \/ serv' = 2 /\ conn' = conn /\ NoFault /\ Killed
               \/ serv' = p /\ SetupFails(slist, p, conn)
               \/ /\ serv' = p /\ NoFault /\ Goto("init")
                  /\ \E fd \in Fds, mode \in ConnectModes :
                        Dialled(slist, p, conn, fd, mode)
         \/ /\ Fault /\ Exit(2)                     \* fcntl()
            /\ serv' = 2 /\ UNCHANGED <<segm, conn>>
  /\ UNCHANGED <<e, fdset, slist, out, mirror>>

(* Each of the others connects to the next server of the list.             *)
InitSegment ==
  /\ pc = "init" /\ i < NrSegments
  /\ i' = i + 1
  /\ LET p == Wrap(slist, serv)
     IN  /\ serv' = p + 1
         /\ \/ SetupFails(slist, p, conn) /\ segm' = segm
            \/ \E fd \in Fds, mode \in ConnectModes :
                 /\ Dialled(slist, p, conn, fd, mode)
                 /\ segm' = Append(segm, NewSegm(fd, DialledState(mode)))
                 /\ NoFault /\ Goto("init")
  /\ UNCHANGED <<e, fdset, slist, out, mirror>>

InitDone ==
  /\ pc = "init" /\ i >= NrSegments
  /\ Goto("loop") /\ i' = 0
  /\ UNCHANGED <<e, segm, fdset, slist, serv, out, conn, mirror, faults>>

-----------------------------------------------------------------------------
(* while (!cgym_segment_done(segm))                                        *)
AllDone == \A k \in 1 .. Len(segm) : segm[k].status = "DONE"

Loop ==
  /\ pc = "loop"
  /\ fdset' = {} /\ i' = 0
  /\ Goto(IF AllDone THEN "assemble" ELSE "build")
  /\ UNCHANGED <<e, segm, slist, serv, out, conn, mirror, faults>>

Waiting == {"CONNECTING", "RECV_HANDSHAKE", "RECV_SIZE_REPLY",
            "RECV_SIZE_DATA", "RECV_GET_REPLY", "RECV_GET_DATA"}

(* The first pass puts segment i's descriptor in a set for select().       *)
BuildSets ==
  /\ pc = "build" /\ i < NrSegments
  /\ i' = i + 1
  /\ LET s == segm[i + 1]
         keep == UNCHANGED <<segm, slist, serv, conn, faults>>
     IN  \/ s.status = "DONE" /\ keep /\ Goto("build") /\ fdset' = fdset
         \/ /\ s.status # "DONE" /\ s.state \in Waiting
            /\ fdset' = fdset \cup {s.fd}
            /\ keep /\ Goto("build")
         \/ /\ s.status # "DONE" /\ s.state = "ERR"
            /\ Retry(i, segm, slist, conn, "build") /\ fdset' = fdset
         \/ /\ s.status # "DONE" /\ s.state \notin Waiting \cup {"ERR"}
            /\ keep /\ Exit(2) /\ fdset' = fdset  \* "Unhandled state"
  /\ UNCHANGED <<e, out, mirror>>

(* connect() has ended, or recv() would not block.                         *)
Ready(s, c) == IF s.state = "CONNECTING" THEN c.st # "opening" ELSE Readable(c)

ReadyFds == {segm[k].fd : k \in {k \in 1 .. Len(segm) :
                /\ segm[k].fd \in fdset
                /\ Ready(segm[k], conn[segm[k].fd])}}

(* It waits without a timeout.                                             *)
Select ==
  /\ pc = "build" /\ i >= NrSegments
  /\ \/ ReadyFds # {} /\ fdset' = ReadyFds /\ NoFault /\ Goto("pass")
     \/ fdset' = fdset /\ Fault /\ Exit(2)
  /\ UNCHANGED <<e, i, segm, slist, serv, out, conn, mirror>>

-----------------------------------------------------------------------------
(* The second pass handles the segments with a descriptor in the set, in   *)
(* their order.                                                            *)
IsNext(k) ==
  /\ segm[k + 1].fd \in fdset
  /\ \A j \in 0 .. k - 1 : segm[j + 1].fd \notin fdset

(* Segment k is now r.segm, its connection r.conn.                         *)
Segm(k, r) == [segm EXCEPT ![k + 1] = r.segm]
Conns(r)   == [conn EXCEPT ![r.segm.fd] = r.conn]
Keep(k, r) == /\ segm' = Segm(k, r) /\ conn' = Conns(r)
              /\ UNCHANGED <<slist, serv>> /\ NoFault

(* A request goes out on segment k and the state becomes state, or it      *)
(* fails, or kills the client.                                             *)
SendRequest(k, r, req, state) ==
  \/ Keep(k, OnConn(To(r, state), Sent(r.conn, req))) /\ Goto("pass")
  \/ SendMayFail(r.conn) /\ Keep(k, r) /\ Killed
  \/ SendMayFail(r.conn) /\ Retry(k, Segm(k, r), slist, Conns(r), "pass")

Connecting(k) ==
  /\ segm[k + 1].state \in {"CONNECTING", "RECV_HANDSHAKE"}
  /\ \E r \in {cgym_sock_connect(segm[k + 1], conn[segm[k + 1].fd])} :
         \/ r.rc = 1 /\ Keep(k, r) /\ Goto("pass")
         \/ r.rc > 1 /\ Retry(k, Segm(k, r), slist, Conns(r), "pass")
         \/ r.rc = 0 /\ SendRequest(k, r, SizeReq, "RECV_SIZE_REPLY")

(* cgym_server_remove(p) copies the next entry over entry p until that is  *)
(* NULL, without moving on: it ends only when p is the last one.           *)
RemoveEnds(p) == slist[p] # NoServer => slist[p + 1] = NoServer

(* The server has another file.  What is removed from the list is *serv,   *)
(* the server to be used next.                                             *)
Mismatch(k, r) ==
  \/ ~RemoveEnds(serv) /\ Keep(k, r) /\ Goto("spin")
  \/ /\ RemoveEnds(serv)
     /\ Retry(k, Segm(k, r), [slist EXCEPT ![serv] = NoServer], Conns(r), "pass")

M_SameFile(v) == v # NoVersion /\ SizeOf[v] = SizeOf[e]
SameFile(v) == v = e

Sizing(k) ==
  /\ segm[k + 1].state \in {"RECV_SIZE_REPLY", "RECV_SIZE_DATA"}
  /\ LET s == segm[k + 1]
         c == conn[s.fd]
     IN \E r \in {cgym_recv_size_reply(s, c)} :
         \/ r.rc = 1 /\ Keep(k, r) /\ Goto("pass")
         \/ r.rc > 1 /\ Retry(k, Segm(k, r), slist, Conns(r), "pass")
         \/ /\ r.rc = 0 /\ SameFile(SizeReplyEntry(s, c))
            /\ SendRequest(k, r, GetReq(Start(k), Stop(k)), "RECV_GET_REPLY")
         \/ r.rc = 0 /\ ~SameFile(SizeReplyEntry(s, c)) /\ Mismatch(k, r)

(* A complete segment closes its connection; the number of the descriptor  *)
(* stays in the socket.                                                    *)
M_Closed(r) == r
Closed(r) == OnConn(To(r, "IDLE"), FreeConn)

Getting(k) ==
  /\ segm[k + 1].state \in {"RECV_GET_REPLY", "RECV_GET_DATA"}
  /\ \E r \in {cgym_recv_get_reply(segm[k + 1], conn[segm[k + 1].fd],
                                    Stop(k) - Start(k))} :
         \/ r.rc = 1 /\ Keep(k, r) /\ Goto("pass")
         \/ r.rc > 1 /\ Retry(k, Segm(k, r), slist, Conns(r), "pass")
         \/ r.rc = 0 /\ Keep(k, Closed(r)) /\ Goto("pass")

Unhandled(k) ==
  /\ segm[k + 1].state \notin Waiting
  /\ Exit(2) /\ UNCHANGED <<segm, conn, slist, serv, faults>>

Pass ==
  /\ pc = "pass" /\ fdset # {}
  /\ \E k \in 0 .. Len(segm) - 1 :
       /\ IsNext(k)
       /\ fdset' = fdset \ {segm[k + 1].fd}
       /\ Connecting(k) \/ Sizing(k) \/ Getting(k) \/ Unhandled(k)
  /\ UNCHANGED <<e, i, out, mirror>>

PassDone ==
  /\ pc = "pass" /\ fdset = {}
  /\ Goto("loop")
  /\ UNCHANGED <<e, i, segm, fdset, slist, serv, out, conn, mirror, faults>>

-----------------------------------------------------------------------------
(* cgym_segment_assemble(): each segment is written at its place, then the *)
(* MD5 of the result is compared with the entry's.                         *)
Owner(b)  == CHOOSE k \in 0 .. Len(segm) - 1 : Start(k) <= b /\ b < Stop(k)
Assembled == [b \in 1 .. SizeOf[e] |->
                LET k == Owner(b - 1) IN segm[k + 1].buf[b - Start(k)]]

(* A failing call leaves what was written before it.                       *)
M_Assemble ==
  /\ pc = "assemble"
  /\ \/ out' = Assembled /\ Exit(0) /\ NoFault
     \/ /\ \E n \in 0 .. SizeOf[e] : out' = SubSeq(Assembled, 1, n)
        /\ Fault /\ Exit(1)
  /\ UNCHANGED <<e, i, segm, fdset, slist, serv, conn, mirror>>

Assemble ==
  /\ pc = "assemble"
  /\ \/ /\ out' = Assembled
        /\ Exit(IF Assembled = Content(e) THEN 0 ELSE 1) /\ NoFault
     \/ /\ \E n \in 0 .. SizeOf[e] : out' = SubSeq(Assembled, 1, n)
        /\ Fault /\ Exit(1)
  /\ UNCHANGED <<e, i, segm, fdset, slist, serv, conn, mirror>>

Client ==
  \/ Connect \/ Handshake \/ ReadSizeStatus \/ ReadSizeLine
  \/ DivideByZero \/ InitFirst \/ InitSegment \/ InitDone
  \/ Loop \/ BuildSets \/ Select \/ Pass \/ PassDone \/ Assemble

-----------------------------------------------------------------------------
(* The network and the servers.  Nothing they do after the client stopped  *)
(* is of interest.                                                         *)
Update(f, c) == conn' = [conn EXCEPT ![f] = c]

Establish(f) ==
  /\ conn[f].st = "opening"
  /\ Update(f, [conn[f] EXCEPT !.st = "up"]) /\ NoFault

Refuse(f) ==
  /\ conn[f].st = "opening" /\ Fault
  /\ Update(f, [conn[f] EXCEPT !.st = "failed"])

(* accept() and the greeting: one connection at a time.                    *)
Accept(s, f) ==
  /\ conn[f].st = "up" /\ conn[f].srv = s /\ ~conn[f].greeted /\ ~conn[f].fin
  /\ Idle(conn, s)
  /\ Update(f, [conn[f] EXCEPT !.greeted = TRUE, !.flight = @ \o AckMsg])
  /\ NoFault

(* An absent file, or a range that it does not have, is answered with ERR, *)
(* and the thread exits.                                                   *)
Answer(s, f) ==
  /\ Serving(conn[f], s) /\ conn[f].req.op # "none"
  /\ LET c  == conn[f]
         v  == cur[s]
         rq == c.req
         reply(msg, end) ==
           [c EXCEPT !.req = NoReq, !.flight = @ \o msg, !.fin = end]
     IN  Update(f, IF rq.op = "size"
                   THEN IF v # NoVersion THEN reply(SizeReply(v), FALSE)
                                         ELSE reply(ErrMsg, TRUE)
                   ELSE IF HasRange(v, rq.from, rq.to)
                        THEN reply(GetReply(v, rq.from, rq.to), FALSE)
                        ELSE reply(ErrMsg, TRUE))
  /\ NoFault

Deliver(f) ==
  /\ conn[f].flight # <<>>
  /\ LET n == IF whole THEN Len(conn[f].flight) ELSE 1
     IN  Update(f, [conn[f] EXCEPT
           !.avail = @ \o SubSeq(conn[f].flight, 1, n),
           !.flight = SubSeq(conn[f].flight, n + 1, Len(conn[f].flight))])
  /\ NoFault

(* The connection is cut: what was in flight is lost.                      *)
Drop(f) ==
  /\ conn[f].st = "up" /\ ~conn[f].fin /\ Fault
  /\ Update(f, [conn[f] EXCEPT !.fin = TRUE, !.flight = <<>>])

Network ==
  /\ pc \in Running
  /\ \E f \in Fds : \/ Establish(f) \/ Deliver(f)
                     \/ \E s \in Servers : Accept(s, f) \/ Answer(s, f)
  /\ UNCHANGED <<client, mirror>>

Disturb ==
  /\ pc \in Running
  /\ \E f \in Fds : Refuse(f) \/ Drop(f)
  /\ UNCHANGED <<client, mirror>>

(* A server's file is replaced or removed.                                 *)
Edit ==
  /\ pc \in Running
  /\ edits < MaxEdits /\ edits' = edits + 1
  /\ \E s \in Servers, v \in Versions \cup {NoVersion} :
       v # cur[s] /\ cur' = [cur EXCEPT ![s] = v]
  /\ UNCHANGED <<client, conn, whole, faults>>

Terminated == pc \in Stopped /\ UNCHANGED vars

Next == Client \/ Network \/ Disturb \/ Edit \/ Terminated

Spec == Init /\ [][Next]_vars

(* While the client can run, the kernel can carry something or a free      *)
(* server can accept or answer, one of these happens.  Nothing makes a     *)
(* fault or an edit happen.                                                *)
Fairness == WF_vars(Network \/ Client)

FairSpec == Spec /\ Fairness
=============================================================================
