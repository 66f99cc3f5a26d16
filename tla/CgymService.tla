----------------------------- MODULE CgymService -----------------------------
(***************************************************************************)
(* What a server of cgymd/ promises to the programs that talk to it as     *)
(* libcgym does, without saying how: it serves them one at a time, answers *)
(* their requests in order, each with one whole reply that was true of its *)
(* files at one moment, closes a connection only when it has answered ERR, *)
(* was told to or was left, and dies of nobody but those it has excused    *)
(* itself from serving.  CgymServer implements it; the servers of CgymGet  *)
(* are this one, with the files of a download.                             *)
(***************************************************************************)
EXTENDS CgymFiles, FiniteSets

CONSTANTS
  Clients, NoClient,
  Requests           \* what the clients may ask

VARIABLES
  alive,     \* the server runs
  current,   \* the client it serves
  ending,    \* it is about to close that connection
  accepted,  \* the clients it has accepted
  left,      \* the clients that closed their end
  excused,   \* the clients to which nothing is promised any more
  asked,     \* the requests of each of the others
  answered,  \* how many of them were answered
  answers,   \* what was sent to it
  store,     \* the server's files
  lost       \* the server has lost its home directory

serviceVars == <<alive, current, ending, accepted, left, excused,
                 asked, answered, answers, store, lost>>
requests == <<asked, answered, answers>>
files    == <<store, lost>>
clients  == <<left, excused, requests>>

NoRequests == [c \in Clients |-> <<>>]

Init ==
  /\ alive = TRUE /\ current = NoClient /\ ending = FALSE
  /\ accepted = {} /\ left = {} /\ excused = {}
  /\ asked = NoRequests /\ answered = [c \in Clients |-> 0]
  /\ answers = NoRequests
  /\ store \in Stores /\ lost = FALSE

(* Nothing more is kept of an excused client.                              *)
Excuse(c) ==
  /\ excused' = excused \cup {c}
  /\ asked' = [asked EXCEPT ![c] = <<>>]
  /\ answered' = [answered EXCEPT ![c] = 0]
  /\ answers' = [answers EXCEPT ![c] = <<>>]

Say(c, msg) ==
  /\ excused' = excused
  /\ answers' = IF c \in excused THEN answers
                ELSE [answers EXCEPT ![c] = @ \o msg]

Accept(c) ==
  /\ alive /\ current = NoClient /\ c \notin accepted
  /\ accepted' = accepted \cup {c} /\ current' = c
  /\ Say(c, AckMsg)
  /\ UNCHANGED <<alive, ending, left, asked, answered, files>>

(* It was accepted and could not be served; the server may not survive it. *)
Refuse(c) ==
  /\ alive /\ current = NoClient /\ c \notin accepted
  /\ accepted' = accepted \cup {c}
  /\ alive' \in BOOLEAN
  /\ Excuse(c)
  /\ UNCHANGED <<current, ending, left, files>>

Ask(c, r) ==
  /\ alive /\ c \notin left \cup excused
  /\ asked' = [asked EXCEPT ![c] = Append(@, r)]
  /\ UNCHANGED <<alive, current, ending, accepted, left, excused,
                 answered, answers, files>>

(* A LIST may cost the server its home directory; afterwards it finds      *)
(* nothing.                                                                *)
Answer(c) ==
  /\ alive /\ c = current /\ ~ending /\ c \notin excused
  /\ answered[c] < Len(asked[c])
  /\ answered' = [answered EXCEPT ![c] = @ + 1]
  /\ LET r   == asked[c][answered[c] + 1]
         msg == IF lost THEN ErrMsg ELSE Reply(r, store)
     IN  \/ /\ r.op = "quit"
            /\ current' = NoClient
            /\ UNCHANGED <<ending, lost, answers>>
         \/ /\ r.op # "quit"
            /\ answers' = [answers EXCEPT ![c] = @ \o msg]
            /\ ending' = (msg = ErrMsg)
            /\ lost' \in IF r.op = "list" /\ msg # ErrMsg THEN {lost, TRUE} ELSE {lost}
            /\ UNCHANGED current
  /\ UNCHANGED <<alive, accepted, left, excused, asked, store>>

(* It may be on its way to answering an excused client, and lose its home. *)
Misserve(c) ==
  /\ alive /\ c = current /\ c \in excused
  /\ ending' \in BOOLEAN
  /\ lost' \in {lost, TRUE}
  /\ UNCHANGED <<alive, current, accepted, clients, store>>

Close(c) ==
  /\ alive /\ c = current /\ (ending \/ c \in left \cup excused)
  /\ current' = NoClient /\ ending' = FALSE
  /\ UNCHANGED <<alive, accepted, clients, files>>

Leave(c) ==
  /\ alive /\ c \notin left
  /\ left' = left \cup {c}
  /\ \/ UNCHANGED <<excused, requests>>
     \/ Excuse(c)
  /\ UNCHANGED <<alive, current, ending, accepted, files>>

(* A client that does not speak the protocol, or to which the server did   *)
(* not.                                                                    *)
Offend(c) ==
  /\ alive /\ Excuse(c)
  /\ UNCHANGED <<alive, current, ending, accepted, left, files>>

(* A change of the files while an answer is made may spoil the answer.     *)
Edit ==
  /\ alive
  /\ store' \in Stores
  /\ \/ UNCHANGED <<excused, requests>>
     \/ current # NoClient /\ answered[current] < Len(asked[current]) /\ Excuse(current)
  /\ UNCHANGED <<alive, current, ending, accepted, left, lost>>

Die ==
  /\ alive /\ current \in excused
  /\ alive' = FALSE /\ current' = NoClient /\ ending' = FALSE
  /\ UNCHANGED <<accepted, clients, files>>

Next ==
  \/ \E c \in Clients : \/ Accept(c) \/ Refuse(c) \/ Answer(c) \/ Misserve(c)
                        \/ Close(c) \/ Leave(c) \/ Offend(c)
                        \/ \E r \in Requests : Ask(c, r)
  \/ Edit \/ Die

Spec == Init /\ [][Next]_serviceVars
=============================================================================
