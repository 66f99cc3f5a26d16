--------------------------- MODULE CgymServerProps ---------------------------
(***************************************************************************)
(* What the server promises: CgymServer implements CgymService, and serves *)
(* everyone.                                                               *)
(***************************************************************************)
EXTENDS CgymServer

TypeOK ==
  /\ link \in [Clients -> {"away", "up", "gone"}]
  /\ \A c \in Clients : Len(lines[c]) <= MaxLines[c]
  /\ closed \subseteq Clients /\ spoilt \subseteq Clients
  /\ pc \in {"accept", "send", "read", "exec", "md5", "list", "dead"}
  /\ serving \in Clients \cup {NoClient}
  /\ serving = NoClient <=> pc \in {"accept", "dead"}
  /\ serving \notin closed
  /\ Len(job.args) <= 3 /\ job.stat \in Versions \cup {NoVersion}
  /\ job.todo # <<>> <=> pc = "send"
  /\ \A k \in DOMAIN job.todo : job.todo[k].msg # <<>>
  /\ job.after \in {"read", "exec", "exit", "abort"}
  /\ moved \in BOOLEAN /\ home \in Homes
  /\ store \in Stores

-----------------------------------------------------------------------------
(* CgymService, of what was sent and is about to be sent.                  *)
Asks == {Meaning(l) : l \in {l \in UNION {Lines[c] : c \in Clients} : Speaks(l)}}

Kept(c, s)  == IF c \in spoilt THEN <<>> ELSE s
Unread(c)   == Cardinality(Positions(in[c], "LF"))
Answering(c) == c = serving /\ pc \in {"exec", "md5", "list"}
Owed(c)     == IF c = serving THEN FlattenSeq([k \in DOMAIN job.todo |-> job.todo[k].msg])
                              ELSE <<>>

Service == INSTANCE CgymService WITH
  Requests <- Asks,
  alive    <- Running,
  current  <- serving,
  ending   <- (pc = "send" /\ job.after = "exit"),
  accepted <- {c \in Clients : link[c] # "away" /\ c \notin ToSet(backlog)},
  left     <- {c \in Clients : link[c] = "gone"},
  excused  <- spoilt,
  asked    <- [c \in Clients |-> Kept(c, [k \in DOMAIN lines[c] |-> Meaning(lines[c][k])])],
  answered <- [c \in Clients |->
                 IF c \in spoilt THEN 0
                 ELSE Len(lines[c]) - Unread(c) - (IF Answering(c) THEN 1 ELSE 0)],
  answers  <- [c \in Clients |-> Kept(c, out[c] \o Owed(c))],
  lost     <- (home = "relative" /\ moved /\ pc # "list")

(* Every step of the server is one of CgymService or of no interest to it: *)
(* however sends, edits, partial lines and other clients come in between,  *)
(* a client that speaks the protocol and stays for its replies gets one    *)
(* whole and true reply for each request, in order, and no such client     *)
(* ends the process.                                                       *)
ImplementsService == Service!Spec

(* Who is connected is greeted or its connection is closed, if those       *)
(* before it leave at some time: no client, by what it sends, by not       *)
(* reading or by leaving at any moment, keeps the next one out for ever.   *)
EveryoneServed ==
  \A c \in Clients : link[c] = "up" ~> (out[c] # <<>> \/ c \in closed)

(* What a client sent is read, or its connection closed: the server does   *)
(* not stop at half an answer or at half a line.                           *)
EveryLineRead ==
  \A c \in Clients : in[c] # <<>> ~> (in[c] = <<>> \/ c \in closed)

(* The client as CgymSock has it, with a connection on which all that the  *)
(* server sent after the greeting has arrived.                             *)
Arrived(c) ==
  [st |-> "up", srv |-> 1, greeted |-> TRUE, req |-> 0, flight |-> <<>>,
   avail |-> SubSeq(out[c], Len(AckMsg) + 1, Len(out[c])), fin |-> c \in closed]
Waits == [fd |-> 1, state |-> "RECV_GET_REPLY", buf |-> <<>>, pos |-> 0,
          status |-> "IDLE"]

(* What was sent twice after a partial send is not taken for the bytes     *)
(* asked: the client finds no end of line where it expects it, unless the  *)
(* file has one there, and then the MD5 of the whole is wrong              *)
(* (segment.c:196).                                                        *)
PartNotTaken ==
  \A c \in Clients :
    lines[c] # <<>> /\ Speaks(lines[c][1]) /\ lines[c][1][1] = "GET"
      /\ IsPrefix(AckMsg, out[c]) =>
    LET m == Meaning(lines[c][1])
        r == cgym_recv_get_reply(Waits, Arrived(c), m.to - m.from)
    IN  r.rc = 0 => \E v \in Versions :
                      r.segm.buf = Slice(v, m.from, m.to) \o EndMsg

(* libcgym.h:8, "lungimea maxima a numelui unui fisier": the name of a     *)
(* file can have MAX_LINE_LEN characters.  A SIZE of one is read as it was *)
(* sent.                                                                   *)
NamesReadWhole ==
  pc = "exec" /\ serving \notin {c \in Clients : link[c] = "gone"}
    /\ (\A k \in DOMAIN lines[serving] :
          /\ lines[serving][k][1] = "SIZE" /\ Spaces(lines[serving][k], {2})
          /\ Len(lines[serving][k]) - 2 \in 1 .. MAX_LINE_LEN)
  => \E k \in DOMAIN lines[serving] :
       /\ job.command = <<"SIZE">>
       /\ job.args = <<NameFrom(lines[serving][k], 3)>>
=============================================================================
