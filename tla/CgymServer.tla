------------------------------ MODULE CgymServer ------------------------------
(***************************************************************************)
(* The server, cgymd/: main() accepts a connection, runs client_handler()  *)
(* for it in a thread and joins that thread before it accepts another      *)
(* (cgymd.c:68-81); the handler reads commands and answers them from the   *)
(* files below the home directory.                                         *)
(*                                                                         *)
(* One action is one call that may block or whose result another program   *)
(* can change: accept(), readline(), each send(), the stat() and the MD5   *)
(* of SIZE and of each entry of LIST, the reading of GET.  A client is one *)
(* connection; what it does is up to it.                                   *)
(***************************************************************************)
EXTENDS CgymFiles, CgymLine, FiniteSets

CONSTANTS
  Clients, NoClient,
  Lines,        \* what each client may send, without the end of line
  Torn,         \* those it may leave in the middle of
  Numerals,     \* the number a symbol stands for
  Homes,        \* how the home directory was given: "absolute", "relative"
  Initial,      \* the files the server may start with
  MaxLines,     \* bound on the lines of each client
  MaxTroubles   \* bound on partial sends, changes of a file and failures of
                \* pthread_create() together

ASSUME ServerAssumption ==
  /\ NoClient \notin Clients
  /\ Homes \subseteq {"absolute", "relative"}
  /\ Initial \subseteq Stores
  /\ "/" \in Symbols /\ "junk" \in Symbols
  /\ Dirs \subseteq Seq(Symbols) /\ ReadDir \in [Dirs -> Seq(Seq(Symbols))]
  /\ \A c \in Clients : \A line \in Lines[c] :
       /\ line \in Seq(Symbols)
       /\ ~\E p \in 1 .. Len(line) - 1 : line[p] = "/" /\ line[p + 1] = "/"
  /\ Torn \subseteq Seq(Symbols)
  /\ Numerals \in [DOMAIN Numerals -> Nat]
  /\ MaxLines \in [Clients -> Nat] /\ MaxTroubles \in Nat

VARIABLES
  link,      \* each client: "away", "up" (connected) or "gone" (it closed)
  lines,     \* the lines it sent
  in,        \* what it sent and the server did not read
  out,       \* what the server sent to it
  closed,    \* the connections the server closed
  backlog,   \* the connections that wait for accept()
  pc,        \* where the server is; "dead" when the process has ended
  serving,   \* the client of the thread
  job,       \* the variables of client_handler()
  home,      \* the member of Homes that is the case
  moved,     \* LIST has changed the working directory
  store,     \* the files
  spoilt,    \* the clients the promises of CgymService do not cover
  troubles   \* how many there were

peers  == <<link, lines, in, backlog>>
server == <<pc, serving, job, moved>>
disk   == <<home, store>>
vars   == <<peers, out, closed, server, disk, spoilt, troubles>>

Running == pc # "dead"

(* command, arg1 to arg3 (those that are not NULL), what stat() has found, *)
(* what list() has still to look at and has found, the messages still to   *)
(* be sent and where the handler goes then.                                *)
Idle == [command |-> <<>>, args |-> <<>>, stat |-> NoVersion,
         names |-> <<>>, items |-> <<>>, todo |-> <<>>, after |-> "read"]

Trouble == troubles < MaxTroubles /\ troubles' = troubles + 1

Init ==
  /\ link = [c \in Clients |-> "away"]
  /\ lines = [c \in Clients |-> <<>>]
  /\ in = [c \in Clients |-> <<>>] /\ out = [c \in Clients |-> <<>>]
  /\ closed = {} /\ backlog = <<>>
  /\ pc = "accept" /\ serving = NoClient /\ job = Idle
  /\ home \in Homes /\ moved = FALSE
  /\ store \in Initial
  /\ spoilt = {}
  /\ troubles = 0

-----------------------------------------------------------------------------
(* What libcgym sends: a command and its arguments, one space between two, *)
(* and neither a space nor an end of line in a name; short enough for      *)
(* readline().                                                             *)
NameFrom(line, p) == SubSeq(line, p, Len(line))
Numeral(line, p)  == p \in DOMAIN line /\ line[p] \in DOMAIN Numerals
Spaces(line, S)   == Positions(line, "SP") = S

(* A directory whose last name has one letter is listed without the "/"    *)
(* after it (cgymd_list.c:28).                                             *)
OneLetter(name) == Len(name) > 1 /\ name[Len(name) - 1] = "/" /\ name[Len(name)] # "/"

IsName(line, p) == p \in DOMAIN line /\ line[p] = "/"

Speaks(line) ==
  /\ line # <<>> /\ Len(line) < MaxStored
  /\ Positions(line, "CR") = {} /\ Positions(line, "LF") = {}
  /\ \/ line = <<"QUIT">>
     \/ line[1] = "SIZE" /\ Spaces(line, {2}) /\ IsName(line, 3)
     \/ line[1] = "LIST" /\ Spaces(line, {2}) /\ IsName(line, 3)
                         /\ ~OneLetter(NameFrom(line, 3))
     \/ line[1] = "GET" /\ Spaces(line, {2, 4, 6}) /\ IsName(line, 7)
                        /\ Numeral(line, 3) /\ Numeral(line, 5)

Meaning(line) ==
  CASE line[1] = "QUIT" -> Request("quit", <<>>, 0, 0)
    [] line[1] = "SIZE" -> Request("size", NameFrom(line, 3), 0, 0)
    [] line[1] = "LIST" -> Request("list", NameFrom(line, 3), 0, 0)
    [] line[1] = "GET"  -> Request("get", NameFrom(line, 7),
                                   Numerals[line[3]], Numerals[line[5]])

-----------------------------------------------------------------------------
(* The clients.                                                            *)
Dial(c) ==
  /\ Running
  /\ link[c] = "away"
  /\ link' = [link EXCEPT ![c] = "up"]
  /\ backlog' = Append(backlog, c)
  /\ UNCHANGED <<lines, in, out, closed, server, disk, spoilt, troubles>>

(* A line, once it was greeted.                                            *)
CanSend(c) == out[c] # <<>> /\ c \notin closed /\ Len(lines[c]) < MaxLines[c]

Send(c, line) ==
  /\ Running
  /\ link[c] = "up" /\ CanSend(c)
  /\ lines' = [lines EXCEPT ![c] = Append(@, line)]
  /\ in' = [in EXCEPT ![c] = @ \o line \o <<"CR", "LF">>]
  /\ spoilt' = IF Speaks(line) THEN spoilt ELSE spoilt \cup {c}
  /\ UNCHANGED <<link, backlog, out, closed, server, disk, troubles>>

(* It leaves: in good order when there is nothing it still could be sent,  *)
(* or early, or in the middle of a line.                                   *)
Settled(c) == c \in closed \/ (serving = c /\ pc = "read" /\ in[c] = <<>>)

Leave(c) ==
  /\ Running
  /\ link[c] = "up"
  /\ link' = [link EXCEPT ![c] = "gone"]
  /\ \/ in' = in /\ spoilt' = IF Settled(c) THEN spoilt ELSE spoilt \cup {c}
     \/ /\ CanSend(c)
        /\ \E line \in Torn : in' = [in EXCEPT ![c] = @ \o line]
        /\ spoilt' = spoilt \cup {c}
  /\ UNCHANGED <<lines, backlog, out, closed, server, disk, troubles>>

Client(c) == Dial(c) \/ Leave(c) \/ \E line \in Lines[c] : Send(c, line)

-----------------------------------------------------------------------------
(* The thread closes the connection and ends, and is joined.               *)
EndThread ==
  /\ closed' = closed \cup {serving}
  /\ pc' = "accept" /\ serving' = NoClient /\ job' = Idle

(* A signal ends the process, and all connections with it.                 *)
Crash ==
  /\ closed' = Clients
  /\ pc' = "dead" /\ serving' = NoClient /\ job' = Idle

Stay(label, j) == pc' = label /\ job' = j /\ UNCHANGED <<closed, serving>>

(* The messages j.todo are sent next; then it goes on at j.after.          *)
Sending(j, todo, after) ==
  Stay("send", [j EXCEPT !.todo = todo, !.after = after])

Message(m) == [msg |-> m, retried |-> TRUE]       \* by cgymd_send()
Plain(m)   == [msg |-> m, retried |-> FALSE]      \* by send(), cgymd.c:235

Accept ==
  /\ pc = "accept" /\ backlog # <<>>
  /\ backlog' = Tail(backlog)
  /\ pc' = "send" /\ serving' = Head(backlog)
  /\ job' = [Idle EXCEPT !.todo = <<Message(AckMsg)>>]
  /\ UNCHANGED <<link, lines, in, out, closed, moved, spoilt, troubles>>

(* pthread_create() fails, and pthread_join() is called with a thread that *)
(* is undefined or was joined before.                                      *)
AcceptFails ==
  /\ pc = "accept" /\ backlog # <<>> /\ Trouble
  /\ backlog' = Tail(backlog) /\ spoilt' = spoilt \cup {Head(backlog)}
  /\ \/ closed' = closed \cup {Head(backlog)} /\ UNCHANGED <<pc, serving, job>>
     \/ Crash
  /\ UNCHANGED <<link, lines, in, out, moved>>

-----------------------------------------------------------------------------
(* cgymd_send() and the loop around it.                                    *)
M_SendNext ==
  LET rest == Tail(job.todo)
  IN  IF rest # <<>> THEN Sending(job, rest, job.after)
      ELSE IF job.after = "exit" THEN EndThread
      ELSE IF job.after = "abort" THEN Crash
      ELSE Stay(job.after, job)

SendNext ==
  LET rest == Tail(job.todo)
  IN  IF rest # <<>> THEN Sending(job, rest, job.after)
      ELSE IF job.after = "exit" THEN EndThread
      ELSE IF job.after = "abort" THEN Crash
      ELSE Stay(job.after, [job EXCEPT !.todo = <<>>])

Emit(msg) == out' = [out EXCEPT ![serving] = @ \o msg]

Transmit ==
  /\ pc = "send" /\ link[serving] = "up"
  /\ Emit(Head(job.todo).msg) /\ SendNext
  /\ UNCHANGED <<peers, moved, spoilt, troubles>>

M_Again(m, n) == [m EXCEPT !.msg = SubSeq(@, 1, Len(@) - n)]

(* What the loop sends after a part of n units of m was sent: k is local   *)
(* to cgymd_send(), so all of it.                                          *)
Again(m, n) == m

(* A part is sent.  The loop calls cgymd_send() again; the OK of a GET is  *)
(* left as it is.                                                          *)
TransmitPart ==
  /\ pc = "send" /\ link[serving] = "up" /\ Trouble
  /\ LET m == Head(job.todo)
     IN  \E n \in 1 .. Len(m.msg) - 1 :
          /\ Emit(SubSeq(m.msg, 1, n))
          /\ IF m.retried
             THEN Sending(job, <<Again(m, n)>> \o Tail(job.todo), job.after)
             ELSE SendNext
  /\ spoilt' = spoilt \cup {serving}
  /\ UNCHANGED <<peers, moved>>

M_TransmitInVain ==
  /\ pc = "send" /\ link[serving] = "gone"
  /\ UNCHANGED <<peers, out, closed, server, spoilt, troubles>>

(* The client is gone.  The kernel takes the message and loses it, or says *)
(* so, which only the plain send() looks at, or raises SIGPIPE.            *)
TransmitInVain ==
  /\ pc = "send" /\ link[serving] = "gone"
  /\ \/ SendNext
     \/ ~Head(job.todo).retried /\ EndThread
     \/ Crash
  /\ UNCHANGED <<peers, out, moved, spoilt, troubles>>

-----------------------------------------------------------------------------
(* readline() and the words of the line.  Words that are read past the end *)
(* of the buffer can be anything, one of them is enough.  Every word after *)
(* the fourth is answered with ERR before the command is looked at.        *)
Read ==
  /\ pc = "read"
  /\ \E r \in readline(in[serving], link[serving] = "gone") :
       /\ in' = [in EXCEPT ![serving] = r.rest]
       /\ \/ ~r.ok /\ EndThread
          \/ /\ r.ok
             /\ LET split == Words(r.str)
                    junk  == IF split.past THEN {<<>>, << <<"junk">> >>} ELSE {<<>>}
                IN \E words \in {split.words \o x : x \in junk} :
                     LET n     == Len(words)
                         j     == [job EXCEPT
                                     !.command = IF n = 0 THEN @ ELSE words[1],
                                     !.args = SubSeq(words, 2, IF n < 4 THEN n ELSE 4)]
                         extra == [k \in 1 .. n - 4 |-> Message(ErrMsg)]
                     IN  IF n > 4 THEN Sending(j, extra, "exec")
                                  ELSE Stay("exec", j)
  /\ UNCHANGED <<link, lines, backlog, out, moved, spoilt, troubles>>

(* A relative home directory is not found from another working directory.  *)
Reachable == home = "absolute" \/ ~moved

(* What stat() finds, and fopen().                                         *)
Lookup(name) == IF Reachable THEN Held(store, name) ELSE NoVersion
Fopen(name)  == IF Reachable THEN Opened(store, name) ELSE NoVersion

M_Fail == Sending(job, <<Message(ErrMsg)>>, "read")

(* ERR, and pthread_exit().                                                *)
Fail == Sending(job, <<Message(ErrMsg)>>, "exit")

(* The command is compared in upper case (cgymd.c:89-91); of the symbols   *)
(* only the upper case ones are commands.  An argument that is missing is  *)
(* NULL, whose strlen() is taken.                                          *)
Is(word, nargs) == job.command = <<word>> /\ Len(job.args) >= nargs
Lacks(word, nargs) == job.command = <<word>> /\ Len(job.args) < nargs

(* size(): stat(), then the MD5 of the file.                               *)
Size ==
  /\ Is("SIZE", 1) /\ moved' = moved
  /\ LET v == Lookup(job.args[1])
     IN  IF v = NoVersion THEN Fail ELSE Stay("md5", [job EXCEPT !.stat = v])

(* get(): two numbers, and the bytes between them.                         *)
IsNumber(word) == Len(word) = 1 /\ word[1] \in DOMAIN Numerals

Get ==
  /\ Is("GET", 3) /\ moved' = moved
  /\ LET v    == Fopen(job.args[3])
         from == Numerals[job.args[1][1]]
         to   == Numerals[job.args[2][1]]
     IN  IF IsNumber(job.args[1]) /\ IsNumber(job.args[2]) /\ HasRange(v, from, to)
         THEN Sending(job, <<Plain(OkMsg), Message(Slice(v, from, to)),
                             Message(EndMsg)>>, "read")
         ELSE Fail

(* list(): strrchr() looks for a "/", opendir() for the directory, and     *)
(* chdir() goes there.                                                     *)
HasSlash(name) == \E p \in DOMAIN name : name[p] = "/"

List ==
  /\ Is("LIST", 1) /\ HasSlash(job.args[1])
  /\ LET dir == Denoted(job.args[1])
     IN  IF Reachable /\ dir \in Dirs
         THEN /\ moved' = TRUE
              /\ Stay("list", [job EXCEPT
                   !.stat = NoVersion, !.names = ReadDir[dir], !.items = <<>>])
         ELSE moved' = moved /\ Fail

(* command was never set in this thread: it is what the memory holds, at   *)
(* times the command of an earlier thread.                                 *)
Unset == job.command = <<>> /\ moved' = moved /\ (Crash \/ EndThread \/ Stay("read", job))

Unknown == /\ job.command \notin {<<>>, <<"SIZE">>, <<"GET">>, <<"LIST">>, <<"QUIT">>}
           /\ moved' = moved /\ Stay("read", job)

(* Nothing more is promised to who has the server look at a file that it   *)
(* finds and cannot open.                                                  *)
Excuses(name) == spoilt' = IF name \in Unreadable THEN spoilt \cup {serving} ELSE spoilt

Execute ==
  /\ pc = "exec"
  /\ \/ Size \/ Get \/ List \/ Unset \/ Unknown
     \/ Is("QUIT", 0) /\ EndThread /\ moved' = moved
     \/ /\ \/ Lacks("SIZE", 1) \/ Lacks("GET", 3) \/ Lacks("LIST", 1)
           \/ Is("LIST", 1) /\ ~HasSlash(job.args[1])
        /\ Crash /\ moved' = moved
  /\ IF pc' = "md5" THEN Excuses(job.args[1]) ELSE spoilt' = spoilt
  /\ UNCHANGED <<peers, out, troubles>>

(* The size is that of what stat() has seen, the MD5 that of the file now. *)
(* Of one that fopen() does not find or open there is none, and strlen()   *)
(* is taken of a pointer that was never set: it ends the process, or the   *)
(* MD5 is any string.                                                      *)
EntryOf(seen, now) ==
  IF now # NoVersion /\ SizeOf[seen] = SizeOf[now] THEN Entry(now)
  ELSE [kind |-> "mixed", of |-> now, at |-> SizeOf[seen]]

Md5 ==
  /\ pc = "md5"
  /\ LET now == Fopen(job.args[1])
     IN  \/ Sending(job, <<Message(OkMsg),
                           Message(<<EntryOf(job.stat, now), CRLF>>),
                           Message(EndMsg)>>, "read")
         \/ now = NoVersion /\ Crash
  /\ UNCHANGED <<peers, out, moved, spoilt, troubles>>

(* The next entry of readdir() goes to the front of the list: a directory  *)
(* when stat() has found it, a file when its MD5 was computed too.         *)
LastSlash(name) == CHOOSE p \in DOMAIN name :
  name[p] = "/" /\ \A q \in p + 1 .. Len(name) : name[q] # "/"

DirName(name) ==
  IF Len(name) - LastSlash(name) + 1 > 2 THEN Append(name, "/") ELSE name

NextName  == Join(Denoted(job.args[1]), Head(job.names))
NextShown == DirName(job.args[1]) \o Head(job.names)

Listed(items) ==
  Stay("list", [job EXCEPT !.stat = NoVersion, !.names = Tail(@), !.items = items \o @])

ListEntry ==
  /\ pc = "list" /\ job.names # <<>> /\ job.stat = NoVersion
  /\ LET v == Held(store, NextName)
     IN  IF v # NoVersion
         THEN Stay("list", [job EXCEPT !.stat = v]) /\ Excuses(NextName)
         ELSE Listed(Shown(store, NextName, NextShown)) /\ spoilt' = spoilt
  /\ UNCHANGED <<peers, out, moved, troubles>>

ItemOf(shown, seen, now) ==
  IF now # NoVersion /\ SizeOf[seen] = SizeOf[now] THEN FileItem(shown, now)
  ELSE [kind |-> "mixed", name |-> shown, of |-> now]

ListMd5 ==
  /\ pc = "list" /\ job.stat # NoVersion
  /\ Listed(<<ItemOf(NextShown, job.stat, Opened(store, NextName))>>)
  /\ UNCHANGED <<peers, out, moved, spoilt, troubles>>

(* All the lines are sent, or those before one whose MD5 was never set.    *)
ListDone ==
  /\ pc = "list" /\ job.names = <<>>
  /\ LET items == job.items
         lineOf == [k \in DOMAIN items |-> Message(ListLine(items[k]))]
     IN  \/ Sending(job, <<Message(OkMsg)>> \o lineOf \o <<Message(EndMsg)>>, "read")
         \/ \E k \in DOMAIN items :
              /\ items[k].kind = "mixed" /\ items[k].of = NoVersion
              /\ Sending(job, <<Message(OkMsg)>> \o SubSeq(lineOf, 1, k - 1), "abort")
  /\ UNCHANGED <<peers, out, moved, spoilt, troubles>>

Server ==
  /\ \/ Accept \/ AcceptFails \/ Read \/ Execute \/ Md5
     \/ ListEntry \/ ListMd5 \/ ListDone
     \/ Transmit \/ TransmitPart \/ TransmitInVain
  /\ UNCHANGED disk

-----------------------------------------------------------------------------
(* A file is replaced, written or removed.                                 *)
Edit ==
  /\ Running /\ Trouble
  /\ \E n \in FileNames, v \in Versions \cup {NoVersion} :
       v # store[n] /\ store' = [store EXCEPT ![n] = v]
  /\ spoilt' = IF pc \in {"md5", "list"} THEN spoilt \cup {serving} ELSE spoilt
  /\ UNCHANGED <<peers, out, closed, server, home>>

(* Nothing that happens after the process ended is of interest.            *)
Next ==
  \/ Server \/ Edit \/ \E c \in Clients : Client(c)
  \/ ~Running /\ UNCHANGED vars

Spec == Init /\ [][Next]_vars

(* The server goes on while it can, and no client stays connected for ever *)
(* (libcgym's programs end).                                               *)
Fairness == WF_vars(Server) /\ \A c \in Clients : WF_vars(Leave(c))

FairSpec == Spec /\ Fairness
=============================================================================
