------------------------------ MODULE CgymSetup ------------------------------
(***************************************************************************)
(* cgym_sock_setup() (libcgym/src/cgym_get.c:329-366) and                  *)
(* cgym_server_remove() (libcgym/src/server.c:66-72), step by step: the    *)
(* loop that is to find a server the client can connect to.  CgymGet has   *)
(* it as one step, in Dialled and SetupFails.                              *)
(***************************************************************************)
EXTENDS Integers

CONSTANT NServers

ASSUME SetupAssumption == NServers \in Nat \ {0}

Servers  == 1 .. NServers
NoServer == 0

VARIABLES
  pc,        \* "create", "block", "connect", "remove", "returned" or "failed"
  slist,     \* the list of servers, ended by NoServer
  curr,      \* the position curr points to
  sock,      \* the server of the socket just created, NoServer for NULL
  up,        \* the servers for which gethostbyname() and connect() succeed
  sockets,   \* socket() succeeds
  asked      \* the server at curr when the function was called

vars == <<pc, slist, curr, sock, up, sockets, asked>>
world == <<up, sockets, asked, curr>>

(* The list may have lost its last servers; the callers never pass the     *)
(* position of its end, unless it is empty.                                *)
Init ==
  /\ pc = "create" /\ sock = NoServer
  /\ \E left \in 0 .. NServers :
       /\ slist = [p \in 1 .. NServers + 1 |-> IF p <= left THEN p ELSE NoServer]
       /\ curr \in IF left = 0 THEN {1} ELSE 1 .. left
  /\ up \in SUBSET Servers
  /\ sockets \in BOOLEAN
  /\ asked = slist[curr]

(* cgym_sock_create()                                                      *)
Create ==
  /\ pc = "create"
  /\ \/ /\ slist[curr] # NoServer /\ sockets
        /\ sock' = slist[curr] /\ pc' = "block"
     \/ /\ slist[curr] = NoServer \/ ~sockets
        /\ sock' = NoServer /\ pc' = "remove"
  /\ UNCHANGED <<slist, world>>

(* cgym_sock_setblocking(): "eroare mai grava", the function returns NULL. *)
SetNonblocking ==
  /\ pc = "block"
  /\ \/ pc' = "connect" /\ sock' = sock
     \/ pc' = "failed" /\ sock' = NoServer
  /\ UNCHANGED <<slist, world>>

(* "trecem la serverul urmator": on to the next server.                    *)
M_ConnectUnchecked ==
  /\ pc = "connect"
  /\ pc' = "returned"
  /\ UNCHANGED <<slist, sock, world>>

M_ConnectNotDone ==
  /\ pc = "connect"
  /\ pc' = IF sock \in up THEN "create" ELSE "remove"
  /\ UNCHANGED <<slist, sock, world>>

Connect ==
  /\ pc = "connect"
  /\ \/ sock \in up /\ pc' = "returned" /\ sock' = sock
     \/ sock \notin up /\ pc' = "remove" /\ sock' = NoServer
  /\ UNCHANGED <<slist, world>>

M_Remove ==
  /\ pc = "remove"
  /\ slist' = [p \in 1 .. NServers + 1 |->
                 IF p > curr /\ p <= NServers THEN slist[p + 1] ELSE slist[p]]
  /\ pc' = "create"
  /\ UNCHANGED <<sock, world>>

M_RemovePointer ==
  /\ pc = "remove"
  /\ \/ /\ slist[curr] = NoServer /\ pc' = "create" /\ slist' = slist
     \/ /\ slist[curr] # NoServer /\ pc' = pc
        /\ slist' = [slist EXCEPT ![curr] = curr + 1]
  /\ UNCHANGED <<sock, world>>

(* One turn of the loop that copies the next entry of the list over the   *)
(* one at curr until that is NULL.  It does not move on.                   *)
Remove ==
  /\ pc = "remove"
  /\ \/ /\ slist[curr] = NoServer /\ pc' = "create" /\ slist' = slist
     \/ /\ slist[curr] # NoServer /\ pc' = pc
        /\ slist' = [slist EXCEPT ![curr] = slist[curr + 1]]
  /\ UNCHANGED <<sock, world>>

Step == Create \/ SetNonblocking \/ Connect \/ Remove

Terminated == pc \in {"returned", "failed"} /\ UNCHANGED vars

Next == Step \/ Terminated

Spec == Init /\ [][Next]_vars /\ WF_vars(Step)

-----------------------------------------------------------------------------
TypeOK ==
  /\ pc \in {"create", "block", "connect", "remove", "returned", "failed"}
  /\ slist \in [1 .. NServers + 1 -> Servers \cup {NoServer}]
  /\ curr \in Servers
  /\ sock \in Servers \cup {NoServer}
  /\ up \subseteq Servers /\ sockets \in BOOLEAN
  /\ asked \in Servers \cup {NoServer}

(* The only server a socket is ever returned for is the one the caller     *)
(* pointed to, and it is one that answers: for all the loop around it, no  *)
(* call ends with the socket of another server.  CgymGet's Dialled relies  *)
(* on it.                                                                  *)
OnlyTheFirstChoice ==
  pc = "returned" => sock = asked /\ asked \in up /\ slist[curr] = asked

(* While sockets can be created, no server that answers is lost from the   *)
(* list: only the one that failed is overwritten.                          *)
NoUpServerLost ==
  [][sockets => \A s \in up : (\E p \in DOMAIN slist : slist[p] = s)
                      => \E p \in DOMAIN slist' : slist'[p] = s]_vars

(* When the caller's choice answers, the function returns.                 *)
UpServerReturned ==
  sockets /\ asked \in up ~> pc \in {"returned", "failed"}

(* cgym_get.c:359, "trecem la serverul urmator": when a server does not    *)
(* answer the next one is tried, so that the function returns if a later   *)
(* server answers.                                                         *)
NextServerTried ==
  (/\ pc = "create" /\ sockets
   /\ \E p \in curr .. NServers : slist[p] \in up)
     ~> pc \in {"returned", "failed"}
=============================================================================
