---------------------------- MODULE CgymSetupProofs ----------------------------
(***************************************************************************)
(* cgym_sock_setup() for any list of servers: the socket it returns is of  *)
(* the caller's choice, and no server that answers is lost from the list.  *)
(***************************************************************************)
EXTENDS CgymSetup, TLAPS

(* The entry at curr is the caller's choice until it is removed, and then  *)
(* the loop that removes it only ends at the end of the list; so the       *)
(* socket is of the caller's choice or of nobody.                          *)
Choice == pc \in {"create", "block", "connect"} => slist[curr] \in {asked, NoServer}

Socket == pc \in {"block", "connect"} => sock = slist[curr] /\ sock # NoServer

(* What is being overwritten does not answer, or is there twice.           *)
Overwritten ==
  pc = "remove" /\ sockets =>
    slist[curr] \notin up \/ slist[curr] = slist[curr + 1]

SetupInv ==
  /\ TypeOK
  /\ slist[NServers + 1] = NoServer
  /\ Choice
  /\ Socket
  /\ Overwritten
  /\ OnlyTheFirstChoice

LEMMA Positions ==
  /\ NServers + 1 \in 1 .. NServers + 1 /\ NServers + 1 \notin Servers
  /\ NoServer \notin Servers
  /\ \A p \in Servers : p \in 1 .. NServers + 1 /\ p + 1 \in 1 .. NServers + 1 /\ p # p + 1
  BY SetupAssumption DEF Servers, NoServer

LEMMA SetupInit ==
  ASSUME Init
  PROVE  SetupInv
<1>1. PICK left \in 0 .. NServers :
        /\ slist = [p \in 1 .. NServers + 1 |-> IF p <= left THEN p ELSE NoServer]
        /\ curr \in IF left = 0 THEN {1} ELSE 1 .. left
  BY DEF Init
<1>2. left \in Nat /\ left <= NServers /\ NServers \in Nat \ {0}
  BY SetupAssumption
<1>3. curr \in Servers
  BY <1>1, <1>2 DEF Servers
<1>4. slist \in [1 .. NServers + 1 -> Servers \cup {NoServer}]
  BY <1>1, <1>2 DEF Servers
<1>5. slist[NServers + 1] = NoServer
  BY <1>1, <1>2, Positions
<1>6. asked = slist[curr] /\ pc = "create"
  BY DEF Init
<1>7. asked \in Servers \cup {NoServer}
  BY <1>3, <1>4, <1>6, Positions
<1>8. TypeOK
  BY <1>3, <1>4, <1>7 DEF Init, TypeOK
<1> QED
  BY <1>5, <1>6, <1>8 DEF SetupInv, Choice, Socket, Overwritten, OnlyTheFirstChoice

LEMMA CreateKeeps ==
  ASSUME SetupInv, Create
  PROVE  SetupInv'
<1>1. slist[curr] \in Servers \cup {NoServer}
  BY Positions DEF SetupInv, TypeOK
<1>2. TypeOK'
  BY <1>1 DEF SetupInv, TypeOK, Create, world
<1>3. slist[curr] # NoServer \/ slist[curr] \notin up
  BY Positions DEF SetupInv, TypeOK
<1> QED
  BY <1>1, <1>2, <1>3 DEF SetupInv, Choice, Socket, Overwritten, OnlyTheFirstChoice,
                          Create, world

LEMMA SetNonblockingKeeps ==
  ASSUME SetupInv, SetNonblocking
  PROVE  SetupInv'
<1>1. TypeOK'
  BY DEF SetupInv, TypeOK, SetNonblocking, world
<1> QED
  BY <1>1 DEF SetupInv, Choice, Socket, Overwritten, OnlyTheFirstChoice,
              SetNonblocking, world

LEMMA ConnectKeeps ==
  ASSUME SetupInv, Connect
  PROVE  SetupInv'
<1>1. TypeOK'
  BY DEF SetupInv, TypeOK, Connect, world
<1> QED
  BY <1>1 DEF SetupInv, Choice, Socket, Overwritten, OnlyTheFirstChoice,
              Connect, world

LEMMA RemoveKeeps ==
  ASSUME SetupInv, Remove
  PROVE  SetupInv'
<1>1. /\ curr \in 1 .. NServers + 1 /\ curr + 1 \in 1 .. NServers + 1
      /\ curr # curr + 1 /\ curr # NServers + 1
  BY Positions DEF SetupInv, TypeOK
<1>2. slist' \in [1 .. NServers + 1 -> Servers \cup {NoServer}]
  BY <1>1 DEF SetupInv, TypeOK, Remove
<1>3. TypeOK'
  BY <1>2 DEF SetupInv, TypeOK, Remove, world
<1>4. slist'[NServers + 1] = NoServer
  BY <1>1, Positions DEF SetupInv, TypeOK, Remove
<1>5. Overwritten'
  BY <1>1 DEF SetupInv, TypeOK, Overwritten, Remove, world
<1> QED
  BY <1>3, <1>4, <1>5 DEF SetupInv, Choice, Socket, OnlyTheFirstChoice, Remove, world

(* The invariant of the function's loop.                                   *)
THEOREM SetupInductive == Spec => []SetupInv
<1>1. Init => SetupInv
  BY SetupInit
<1>2. SetupInv /\ [Next]_vars => SetupInv'
  <2>1. ASSUME SetupInv, UNCHANGED vars
        PROVE  SetupInv'
    BY <2>1 DEF vars, SetupInv, TypeOK, Choice, Socket, Overwritten,
                OnlyTheFirstChoice
  <2> QED
    BY <2>1, CreateKeeps, SetNonblockingKeeps, ConnectKeeps, RemoveKeeps
       DEF Next, Step, Terminated
<1> QED
  BY <1>1, <1>2, PTL DEF Spec

(* The cursor stays in the list and what is written into the list are      *)
(* servers or its end (server.c:66-72), for every length of the list.      *)
THEOREM SetupTypeOK == Spec => []TypeOK
<1>1. SetupInv => TypeOK
  BY DEF SetupInv
<1> QED
  BY <1>1, SetupInductive, PTL

(* Whatever the length of the list, which servers answer and where the     *)
(* caller points, cgym_get.c:329-366 never returns a socket of a server    *)
(* other than the one pointed to.                                          *)
THEOREM FirstChoiceOrNone == Spec => []OnlyTheFirstChoice
<1>1. SetupInv => OnlyTheFirstChoice
  BY DEF SetupInv
<1> QED
  BY <1>1, SetupInductive, PTL

LEMMA UpServerStays ==
  ASSUME SetupInv, [Next]_vars, sockets, NEW s \in up,
         NEW p \in DOMAIN slist, slist[p] = s
  PROVE  \E q \in DOMAIN slist' : slist'[q] = s
<1>1. slist \in [1 .. NServers + 1 -> Servers \cup {NoServer}] /\ curr \in Servers
  BY DEF SetupInv, TypeOK
<1>2. CASE slist' = slist
  BY <1>2
<1>3. CASE pc = "remove" /\ slist' = [slist EXCEPT ![curr] = slist[curr + 1]]
  <2>1. slist[curr] \notin up \/ slist[curr] = slist[curr + 1]
    BY <1>3 DEF SetupInv, Overwritten
  <2>2. CASE p # curr
    BY <1>1, <1>3, <2>2
  <2>3. CASE p = curr
    <3>1. slist'[curr] = slist[curr + 1] /\ curr \in DOMAIN slist'
      BY <1>1, <1>3, <2>3
    <3> QED
      BY <2>1, <2>3, <3>1
  <2> QED
    BY <2>2, <2>3
<1> QED
  BY <1>2, <1>3 DEF Next, Step, Terminated, Create, SetNonblocking, Connect, Remove, vars

(* Nor is a server that answers ever removed by server.c:66-72.            *)
THEOREM UpServersStay == Spec => NoUpServerLost
<1>1. SetupInv /\ [Next]_vars =>
        [sockets => \A s \in up : (\E p \in DOMAIN slist : slist[p] = s)
                       => \E p \in DOMAIN slist' : slist'[p] = s]_vars
  BY UpServerStays
<1> QED
  BY <1>1, SetupInductive, PTL DEF Spec, NoUpServerLost
=============================================================================
