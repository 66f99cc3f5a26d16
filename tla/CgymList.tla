------------------------------- MODULE CgymList -------------------------------
(***************************************************************************)
(* Programs "cgym list DIRECTORY server" (cgym/src/list.c,                 *)
(* libcgym/src/cgym_list.c) and the server they are all run with: the      *)
(* clients of CgymServer are these programs.                               *)
(***************************************************************************)
EXTENDS CgymServer

(* The only lines these clients send.                                      *)
ASSUME ListAssumption ==
  \A c \in Clients : \A l \in Lines[c] : IsPrefix(<<"LIST", "SP">>, l)

VARIABLES
  prog,      \* the programs
  seen       \* a history: the files there have been since the program asked,
             \* or, as long as it has not, since the beginning

(* Each program:                                                           *)
(*   pc      the call it is in, "exit" or "killed"                         *)
(*   request its request                                                   *)
(*   got     how much of what the server sent it has read                  *)
(*   entr    the line it is reading                                        *)
(*   head    the entries it has found                                      *)
(*   ended   what ended cgym_recv_list_reply(): "no", "end" of the list,   *)
(*           "eof" or error of recv(), "ERR"                               *)
(*   ret     what it returned                                              *)
(*   status  the exit status                                               *)
listVars == <<vars, prog, seen>>

Path(c) == NameFrom(prog[c].request, 3)

ListInit ==
  /\ Init
  /\ prog \in [Clients -> [pc : {"connect"}, got : {0}, entr : {<<>>}, head : {<<>>},
                           ended : {"no"}, ret : {0}, status : {0},
                           request : UNION {Lines[c] : c \in Clients}]]
  /\ \A c \in Clients : prog[c].request \in Lines[c]
  /\ seen = [c \in Clients |-> {store}]

(* What was seen before c asked is of no interest to c.                    *)
Asking(c) == lines'[c] # lines[c]
Seen ==
  seen' = [c \in Clients |-> (IF Asking(c) THEN {} ELSE seen[c]) \cup {store'}]

-----------------------------------------------------------------------------
At(c, label)  == prog[c].pc = label
Become(c, p)  == prog' = [prog EXCEPT ![c] = p]
Goto(c, label) == Become(c, [prog[c] EXCEPT !.pc = label])

(* A program that ends closes its connection, if it has one.               *)
Ends(c, p) ==
  /\ Become(c, p)
  /\ link' = [link EXCEPT ![c] = "gone"]
  /\ spoilt' = IF link[c] # "up" \/ Settled(c) THEN spoilt ELSE spoilt \cup {c}
  /\ UNCHANGED <<lines, in, backlog, out, closed, server, disk, troubles>>

Exit(c, p, status) == Ends(c, [p EXCEPT !.pc = "exit", !.status = status])
Killed(c)          == Ends(c, [prog[c] EXCEPT !.pc = "killed"])

(* What recv() can return: some of what was sent, nothing at end of file.  *)
AtEof(c) == prog[c].got = Len(out[c]) /\ c \in closed
Pending(c, n) ==
  [st |-> "up", srv |-> 1, greeted |-> TRUE, req |-> 0, flight |-> <<>>,
   avail |-> SubSeq(out[c], prog[c].got + 1, prog[c].got + n), fin |-> c \in closed]
NewSock == [fd |-> 1, state |-> "RECV_HANDSHAKE", buf |-> <<>>, pos |-> 0,
            status |-> "IDLE"]

(* cgym_sock_connect() with a socket that blocks: "eroare la connect", and *)
(* the program ends as if all were well.                                   *)
Connect(c) ==
  /\ At(c, "connect")
  /\ \/ Dial(c) /\ Goto(c, "handshake")
     \/ ~Running /\ Exit(c, prog[c], 0)

(* One recv(): a greeting that comes in two parts is "incomplet".          *)
Handshake(c) ==
  /\ At(c, "handshake")
  /\ LET left == Len(out[c]) - prog[c].got
     IN  \E n \in (IF AtEof(c) THEN {0} ELSE {}) \cup 1 .. left :
           LET r == cgym_sock_connect(NewSock, Pending(c, n))
           IN  IF r.rc = 0
               THEN /\ Become(c, [prog[c] EXCEPT !.pc = "send",
                                    !.got = @ + n - Len(r.conn.avail)])
                    /\ UNCHANGED vars
               ELSE Exit(c, prog[c], 0)

(* cgym_send_list_req(); its result is not looked at.  To a server that    *)
(* was stopped the request is lost, or raises SIGPIPE.                     *)
SendRequest(c) ==
  /\ At(c, "send")
  /\ \/ Send(c, prog[c].request) /\ Goto(c, "recv")
     \/ c \in closed /\ Goto(c, "recv") /\ UNCHANGED vars
     \/ c \in closed /\ Killed(c)

-----------------------------------------------------------------------------
(* cgym_recv_list_reply(), byte by byte.  A line with two entries in it    *)
(* has the name of neither; one whose MD5 was never set may lack a field.  *)
Garbled == [kind |-> "garbled", name |-> <<>>, of |-> NoVersion]
Parsed(entr) == IF Len(entr) = 1 THEN entr[1] ELSE Garbled

M_EndOfList(entr) == TRUE
EndOfList(entr)   == entr = <<>>

M_NextLine(p) == p
NextLine(p)   == [p EXCEPT !.entr = <<>>]

M_Stored(p) == NextLine([p EXCEPT !.head = <<Parsed(p.entr)>> \o @])
Stored(p)   == NextLine([p EXCEPT !.head = Append(@, Parsed(p.entr))])

Receive(c) ==
  /\ At(c, "recv") /\ prog[c].got < Len(out[c])
  /\ LET x == out[c][prog[c].got + 1]
         p == [prog[c] EXCEPT !.got = @ + 1]
     IN  \/ /\ x # CRLF
            /\ Become(c, [p EXCEPT !.entr = Append(@, x)]) /\ UNCHANGED vars
         \/ /\ x = CRLF /\ EndOfList(p.entr)
            /\ Become(c, [p EXCEPT !.pc = "print", !.ended = "end"]) /\ UNCHANGED vars
         \/ /\ x = CRLF /\ ~EndOfList(p.entr)
            /\ \/ /\ p.entr[1] = Word("ERR")
                  /\ Exit(c, [p EXCEPT !.ended = "ERR"], 1)
               \/ /\ p.entr[1] = Word("OK")
                  /\ Become(c, NextLine(p)) /\ UNCHANGED vars
               \/ /\ p.entr[1].kind \in {"file", "dir", "mixed"}
                  /\ Become(c, Stored(p)) /\ UNCHANGED vars
               \/ /\ p.entr[1].kind = "mixed" /\ p.entr[1].of = NoVersion
                  /\ Become(c, NextLine(p)) /\ UNCHANGED vars

M_ReceiveEof(c) == At(c, "recv") /\ AtEof(c) /\ UNCHANGED listVars

ReceiveEof(c) ==
  /\ At(c, "recv") /\ AtEof(c)
  /\ Become(c, [prog[c] EXCEPT !.pc = "print", !.ended = "eof"])
  /\ UNCHANGED vars

(* head[siz] = NULL, without a head when there was no entry; it returns 0  *)
(* and the entries are printed.                                            *)
ShowList(c) ==
  /\ At(c, "print")
  /\ IF prog[c].head = <<>> THEN Killed(c)                \* SIGSEGV
                            ELSE Exit(c, [prog[c] EXCEPT !.ret = 0], 0)

Program(c) == \/ Connect(c) \/ Handshake(c) \/ SendRequest(c)
              \/ Receive(c) \/ ReceiveEof(c) \/ ShowList(c)

(* The server is stopped from outside, in the middle of what it does.      *)
Stopped ==
  /\ Running /\ Trouble /\ Crash
  /\ UNCHANGED <<peers, out, moved, disk, spoilt>>

Over == \A c \in Clients : prog[c].pc \in {"exit", "killed"}

Serves  == Server /\ UNCHANGED prog /\ Seen
Runs(c) == Program(c) /\ Seen

ListNext ==
  \/ Serves
  \/ (Edit \/ Stopped) /\ UNCHANGED prog /\ Seen
  \/ \E c \in Clients : Runs(c)
  \/ Over /\ UNCHANGED listVars

ListSpec == ListInit /\ [][ListNext]_listVars

ListFairness ==
  WF_listVars(Serves) /\ \A c \in Clients : WF_listVars(Runs(c))

ListFairSpec == ListSpec /\ ListFairness

-----------------------------------------------------------------------------
(* The true listings of what it asked since it asked.  There is no listing *)
(* of what is not a directory.                                             *)
Listings(c) ==
  {Listing(st, dir) : st \in seen[c], dir \in {Denoted(Path(c))} \cap Dirs}

(* The entries printed are the first of a listing that was true at some    *)
(* moment since the request was sent, and all of them when the end of the  *)
(* list was read, whatever the other programs did meanwhile, unless the    *)
(* request was not one of the protocol, a send was partial or the files    *)
(* changed under the listing.                                              *)
ListingShown ==
  \A c \in Clients \ spoilt :
    /\ prog[c].pc = "exit" /\ prog[c].ended \in {"end", "eof"}
    /\ prog[c].ended = "end" \/ prog[c].head # <<>>
    =>
      \E items \in Listings(c) :
        /\ IsPrefix(prog[c].head, items)
        /\ prog[c].ended = "end" => prog[c].head = items

(* A program is only killed for an empty directory, or when the server has *)
(* ended.                                                                  *)
KilledWithCause ==
  \A c \in Clients \ spoilt :
    prog[c].pc = "killed" => ~Running \/ <<>> \in Listings(c)

(* No file of the directory asked for keeps its MD5 from the server.       *)
Opens(c) ==
  LET dir == Denoted(Path(c))
  IN  dir \in Dirs =>
        \A base \in ToSet(ReadDir[dir]) : Join(dir, base) \notin Unreadable

(* Programs that ask for names libcgym can send of directories whose files *)
(* can be opened, and come and go as they like, do not end the server:     *)
(* nobody leaves it in the middle of a reply.                              *)
ServerSurvives ==
  troubles = 0 /\ (\A c \in Clients : Speaks(prog[c].request) /\ Opens(c)) => Running

(* Every program ends, with the server or without it, however many wait    *)
(* for it and whatever they ask.  This is what CgymServer's fairness takes *)
(* for granted of its clients.                                             *)
EveryListEnds == \A c \in Clients : <>(prog[c].pc \in {"exit", "killed"})

(* cgym_list.c:44-47, "returneaza: 0 la succes, 1 la incomplet, 2 la       *)
(* eroare": when the connection ends before the list does it does not      *)
(* return 0.                                                               *)
ListErrorReported ==
  \A c \in Clients : prog[c].pc = "exit" /\ prog[c].ended = "eof" => prog[c].ret # 0
=============================================================================
