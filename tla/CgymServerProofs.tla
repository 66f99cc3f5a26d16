-------------------------- MODULE CgymServerProofs --------------------------
(***************************************************************************)
(* CgymServer keeps its types and implements CgymService, for any clients, *)
(* lines, files, directories and failures.  The inductive invariant says   *)
(* that what a client sent and the server has not read are its last lines, *)
(* and that the job is what the line that is answered asks for.            *)
(* What was sent to a client after a GET, in whole or in parts, is either  *)
(* the beginning of a reply that is too short to be taken for one, or      *)
(* decided: no reply, or the bytes that were asked for.                    *)
(***************************************************************************)
EXTENDS CgymLineProofs

(***************************************************************************)
(* The inductive invariant.                                                *)
(***************************************************************************)
Jobs == [command : Seq(Symbols), args : Seq(Seq(Symbols)), stat : Versions \cup {NoVersion},
         names : Seq(Seq(Symbols)), items : Seq(Shows), todo : Seq(Messages),
         after : {"read", "exec", "exit", "abort"}]

(* What list() looks at, and how much of it it has looked at.              *)
Bases(j)  == ReadDir[Denoted(j.args[1])]
Looked(j) == Len(Bases(j)) - Len(j.names)

Lists(j) ==
  /\ j.args # <<>> /\ Denoted(j.args[1]) \in Dirs
  /\ Looked(j) \in 0 .. Len(Bases(j))
  /\ j.names = SubSeq(Bases(j), Looked(j) + 1, Len(Bases(j)))
  /\ j.stat # NoVersion => j.names # <<>>

JobOk(j, label) ==
  /\ j \in Jobs /\ Len(j.args) <= 3
  /\ j.todo # <<>> <=> label = "send"
  /\ j.todo # <<>> => j.todo[Len(j.todo)].retried
  /\ label = "md5" => j.stat \in Versions
  /\ label = "list" => Lists(j)

PeersOk ==
  /\ link \in [Clients -> {"away", "up", "gone"}]
  /\ lines \in [Clients -> Seq(Seq(Symbols))]
  /\ \A c \in Clients : Len(lines[c]) <= MaxLines[c]
  /\ in \in [Clients -> Seq(Symbols)] /\ backlog \in Seq(Clients)
  /\ spoilt \subseteq Clients

Labels == {"accept", "send", "read", "exec", "md5", "list", "dead"}

ServerOk ==
  /\ out \in [Clients -> Seq(Units)] /\ closed \subseteq Clients
  /\ pc \in Labels
  /\ serving \in Clients \cup {NoClient}
  /\ serving = NoClient <=> pc \in {"accept", "dead"}
  /\ moved \in BOOLEAN /\ home \in Homes /\ store \in Stores

(* A client that nothing was sent to.                                      *)
Quiet(c) == in[c] = <<>> /\ out[c] = <<>> /\ lines[c] = <<>> /\ c \notin closed /\ c # serving

Connected ==
  /\ \A c \in Clients : link[c] = "away" => Quiet(c) /\ c \notin ToSet(backlog)
  /\ \A c \in ToSet(backlog) : Quiet(c)
  /\ \A i, k \in 1 .. Len(backlog) : backlog[i] = backlog[k] => i = k
  /\ serving \notin closed

-----------------------------------------------------------------------------
LEMMA IdleOk == \A label \in Labels \ {"send", "md5", "list"} : JobOk(Idle, label)
<1>1. /\ <<>> \in Seq(Symbols) /\ <<>> \in Seq(Seq(Symbols)) /\ <<>> \in Seq(Shows)
      /\ <<>> \in Seq(Messages)
  BY EmptySeq
<1>2. Idle \in Jobs
  BY <1>1 DEF Idle, Jobs
<1>3. Idle.args = <<>> /\ Idle.todo = <<>> /\ Len(<<>>) <= 3
  BY DEF Idle
<1> QED
  BY <1>2, <1>3 DEF JobOk

(* The job with other messages to be sent.                                 *)
Goes(j, todo, after) == [j EXCEPT !.todo = todo, !.after = after]

LEMMA SendingOk ==
  ASSUME NEW j \in Jobs, Len(j.args) <= 3, NEW todo \in Seq(Messages), todo # <<>>,
         todo[Len(todo)].retried, NEW after \in {"read", "exec", "exit", "abort"}
  PROVE  /\ JobOk(Goes(j, todo, after), "send")
         /\ Goes(j, todo, after).todo = todo /\ Goes(j, todo, after).after = after
         /\ Goes(j, todo, after).command = j.command
         /\ Goes(j, todo, after).args = j.args
<1> DEFINE s == Goes(j, todo, after)
<1>1. s \in Jobs
  BY DEF Jobs, Goes
<1>2. s.todo = todo /\ s.after = after /\ s.command = j.command /\ s.args = j.args
  BY DEF Jobs, Goes
<1> HIDE DEF s
<1>3. JobOk(s, "send")
  BY <1>1, <1>2 DEF JobOk
<1> QED
  BY <1>2, <1>3 DEF s

LEMMA OneMessage ==
  ASSUME NEW m \in Seq(Units) \ {<<>>}
  PROVE  /\ <<Message(m)>> \in Seq(Messages) /\ <<Message(m)>> # <<>>
         /\ <<Message(m)>>[Len(<<Message(m)>>)].retried
         /\ Owes(<<Message(m)>>) = m
<1> DEFINE x == Message(m)
<1>1. x \in Messages /\ x.msg = m /\ x.retried
  BY MessageType
<1> HIDE DEF x
<1>2. <<x>> \in Seq(Messages) /\ Len(<<x>>) = 1 /\ <<x>>[1] = x /\ <<x>> # <<>>
  BY <1>1
<1>3. Owes(<<x>>) = m
  BY <1>1, OwesOne
<1>4. <<x>>[Len(<<x>>)].retried
  BY <1>1, <1>2
<1> QED
  BY <1>2, <1>3, <1>4 DEF x

(* The rest of some messages.                                              *)
LEMMA RestOk ==
  ASSUME NEW todo \in Seq(Messages), todo # <<>>, todo[Len(todo)].retried,
         Tail(todo) # <<>>
  PROVE  Tail(todo) \in Seq(Messages) /\ Tail(todo)[Len(Tail(todo))].retried
<1> DEFINE t == Tail(todo)
           n == Len(todo)
<1>1. /\ t \in Seq(Messages) /\ Len(t) = n - 1 /\ n \in Nat \ {0}
      /\ \A i \in 1 .. Len(t) : t[i] = todo[i + 1]
  BY HeadTailProperties, EmptySeq
<1>2. Len(t) \in Nat \ {0}
  BY <1>1, EmptySeq
<1> HIDE DEF t, n
<1>3. t[n - 1] = todo[(n - 1) + 1] /\ (n - 1) + 1 = n
  BY <1>1, <1>2
<1> QED
  BY <1>1, <1>3 DEF t, n

(* SendNext: the ways it goes on.                                          *)
LEMMA SendNextCases ==
  ASSUME JobOk(job, "send"), SendNext
  PROVE  \/ /\ Tail(job.todo) # <<>>
            /\ pc' = "send" /\ job' = [job EXCEPT !.todo = Tail(job.todo), !.after = job.after]
            /\ closed' = closed /\ serving' = serving
            /\ JobOk(job', pc') /\ job'.todo = Tail(job.todo) /\ job'.after = job.after
         \/ /\ Tail(job.todo) = <<>> /\ job.after = "exit"
            /\ EndThread
         \/ Tail(job.todo) = <<>> /\ job.after = "abort" /\ Crash
         \/ /\ Tail(job.todo) = <<>> /\ job.after \in {"read", "exec"}
            /\ pc' = job.after /\ job' = [job EXCEPT !.todo = <<>>]
            /\ closed' = closed /\ serving' = serving
            /\ JobOk(job', pc') /\ job'.todo = <<>>
<1> DEFINE rest == Tail(job.todo)
<1>1. /\ job \in Jobs /\ Len(job.args) <= 3 /\ job.todo # <<>>
      /\ job.todo[Len(job.todo)].retried
  BY DEF JobOk
<1>2. job.todo \in Seq(Messages) /\ job.after \in {"read", "exec", "exit", "abort"}
  BY <1>1 DEF Jobs
<1>3. CASE rest # <<>>
  <2>1. pc' = "send" /\ job' = [job EXCEPT !.todo = rest, !.after = job.after]
        /\ closed' = closed /\ serving' = serving
    BY <1>3 DEF SendNext, Sending, Stay
  <2>2. rest \in Seq(Messages) /\ rest[Len(rest)].retried
    BY <1>1, <1>2, <1>3, RestOk
  <2> HIDE DEF rest
  <2>3. /\ JobOk(Goes(job, rest, job.after), "send")
        /\ Goes(job, rest, job.after).todo = rest
        /\ Goes(job, rest, job.after).after = job.after
    BY <1>1, <1>2, <1>3, <2>2, SendingOk
  <2>4. job' = Goes(job, rest, job.after)
    BY <2>1 DEF Goes
  <2> QED
    BY <1>3, <2>1, <2>3, <2>4 DEF rest
<1>4. CASE rest = <<>> /\ job.after = "exit"
  BY <1>4 DEF SendNext
<1>6. CASE rest = <<>> /\ job.after = "abort"
  BY <1>6 DEF SendNext
<1>5. CASE rest = <<>> /\ job.after \notin {"exit", "abort"}
  <2>1. pc' = job.after /\ job' = [job EXCEPT !.todo = <<>>]
        /\ closed' = closed /\ serving' = serving
    BY <1>5 DEF SendNext, Stay
  <2>2. job.after \in {"read", "exec"}
    BY <1>2, <1>5
  <2>3. <<>> \in Seq(Messages)
    BY EmptySeq
  <2>4. job' \in Jobs /\ job'.todo = <<>> /\ job'.args = job.args
    BY <1>1, <2>1, <2>3 DEF Jobs
  <2>5. JobOk(job', pc')
    BY <1>1, <2>1, <2>2, <2>4 DEF JobOk
  <2> QED
    BY <1>5, <2>1, <2>2, <2>4, <2>5
<1> QED
  BY <1>3, <1>4, <1>5, <1>6

(* Read: the words become the command and its arguments.                   *)
LEMMA ReadCases ==
  ASSUME PeersOk, ServerOk, JobOk(job, pc), Read
  PROVE  \E r \in readline(in[serving], link[serving] = "gone") :
           /\ in' = [in EXCEPT ![serving] = r.rest] /\ r.rest \in Seq(Symbols)
           /\ \/ ~r.ok /\ EndThread
              \/ /\ r.ok /\ closed' = closed /\ serving' = serving
                 /\ \/ pc' = "exec" /\ JobOk(job', "exec")
                    \/ pc' = "send" /\ JobOk(job', "send") /\ job'.after = "exec"
                 /\ \E x \in {<<>>, << <<"junk">> >>} :
                      LET words == Words(r.str).words \o x
                      IN  /\ ~Words(r.str).past => x = <<>>
                          /\ Len(words) \in 1 .. 4 =>
                               /\ pc' = "exec"
                               /\ job'.command = words[1]
                               /\ job'.args = SubSeq(words, 2, Len(words))
<1>1. pc = "read" /\ serving \in Clients /\ in[serving] \in Seq(Symbols)
  BY DEF Read, ServerOk, PeersOk
<1>2. PICK r \in readline(in[serving], link[serving] = "gone") :
        /\ in' = [in EXCEPT ![serving] = r.rest]
        /\ \/ ~r.ok /\ EndThread
           \/ /\ r.ok
              /\ LET split == Words(r.str)
                     junk  == IF split.past THEN {<<>>, << <<"junk">> >>} ELSE {<<>>}
                 IN \E words \in {split.words \o x : x \in junk} :
                      LET n     == Len(words)
                          j     == [job EXCEPT
                                      !.command = IF n = 0 THEN @ ELSE words[1],
                                      !.args = SubSeq(words, 2, IF n < 4 THEN n ELSE 4)]
                          extra == [k \in 1 .. n - 4 |-> Message(ErrMsg)]
                      IN  IF n > 4 THEN Sending(j, extra, "exec")
                                   ELSE Stay("exec", j)
  BY DEF Read
<1>3. r.str \in Seq(Symbols) /\ r.rest \in Seq(Symbols)
  BY <1>1, ReadType
<1>4. CASE ~r.ok /\ EndThread
  BY <1>2, <1>3, <1>4
<1>5. CASE r.ok /\ ~(~r.ok /\ EndThread)
  <2> DEFINE split == Words(r.str)
  <2>1. PICK x \in IF split.past THEN {<<>>, << <<"junk">> >>} ELSE {<<>>} :
          LET words == split.words \o x
              n     == Len(words)
              j     == [job EXCEPT
                          !.command = IF n = 0 THEN @ ELSE words[1],
                          !.args = SubSeq(words, 2, IF n < 4 THEN n ELSE 4)]
              extra == [k \in 1 .. n - 4 |-> Message(ErrMsg)]
          IN  IF n > 4 THEN Sending(j, extra, "exec") ELSE Stay("exec", j)
    BY <1>2, <1>5
  <2> DEFINE words == split.words \o x
             n     == Len(words)
             cmd   == IF n = 0 THEN job.command ELSE words[1]
             m     == IF n < 4 THEN n ELSE 4
             args  == SubSeq(words, 2, m)
             j     == [job EXCEPT !.command = cmd, !.args = args]
             extra == [k \in 1 .. n - 4 |-> Message(ErrMsg)]
  <2>2. /\ x \in {<<>>, << <<"junk">> >>} /\ (~split.past => x = <<>>)
        /\ IF n > 4 THEN Sending(j, extra, "exec") ELSE Stay("exec", j)
    BY <2>1
  <2>3. split.words \in Seq(Seq(Symbols))
    BY <1>3, WordsType
  <2>4. x \in Seq(Seq(Symbols))
    <3>1. <<"junk">> \in Seq(Symbols)
      BY ServerAssumption
    <3> DEFINE a == <<"junk">>
    <3> HIDE DEF a
    <3>2. <<a>> \in Seq(Seq(Symbols)) /\ <<>> \in Seq(Seq(Symbols))
      BY <3>1 DEF a
    <3> QED
      BY <2>2, <3>2 DEF a
  <2>5. words \in Seq(Seq(Symbols)) /\ n \in Nat
    BY <2>3, <2>4, ConcatProperties, LenProperties
  <2> HIDE DEF split
  <2> HIDE DEF words
  <2>6. m \in Int /\ 2 \in Int /\ m <= n /\ m <= 4
    BY <2>5
  <2>7. \A i \in 2 .. m : words[i] \in Seq(Symbols)
    BY <2>5, <2>6, ElementOfSeq
  <2> HIDE DEF n, m
  <2>8. args \in Seq(Seq(Symbols)) /\ Len(args) = IF 2 <= m THEN m - 2 + 1 ELSE 0
    BY <2>6, <2>7, SubSeqProperties
  <2> HIDE DEF args
  <2>9. Len(args) <= 3
    BY <2>6, <2>8
  <2>10. job \in Jobs /\ job.todo = <<>>
    BY <1>1 DEF JobOk
  <2>11. cmd \in Seq(Symbols)
    <3>1. CASE n = 0
      BY <2>10, <3>1 DEF Jobs
    <3>2. CASE n # 0
      <4>1. 1 \in 1 .. Len(words)
        BY <2>5, <3>2 DEF n
      <4>2. words[1] \in Seq(Symbols)
        BY <2>5, <4>1, ElementOfSeq
      <4> QED
        BY <3>2, <4>2
    <3> QED
      BY <3>1, <3>2
  <2> HIDE DEF cmd
  <2>12. /\ j \in Jobs /\ j.command = cmd /\ j.args = args /\ j.todo = <<>>
    BY <2>8, <2>10, <2>11 DEF Jobs
  <2> HIDE DEF j
  <2>13. CASE n > 4
    <3>1. Sending(j, extra, "exec")
      BY <2>2, <2>13
    <3>2. extra \in Seq(Messages) /\ Len(extra) = n - 4 /\ extra # <<>> /\ extra[n - 4].retried
      <4>1. Message(ErrMsg) \in Messages /\ Message(ErrMsg).retried
        BY UnitsType, MessageType
      <4>2. n - 4 \in Nat /\ n - 4 \in 1 .. n - 4
        BY <2>5, <2>13
      <4>3. extra \in Seq(Messages) /\ Len(extra) = n - 4 /\ extra[n - 4] = Message(ErrMsg)
        BY <4>1, <4>2
      <4> HIDE DEF extra
      <4>4. extra # <<>>
        BY <4>2, <4>3
      <4> QED
        BY <4>1, <4>3, <4>4
    <3> HIDE DEF extra
    <3>3. /\ pc' = "send" /\ job' = [j EXCEPT !.todo = extra, !.after = "exec"]
          /\ closed' = closed /\ serving' = serving
      BY <3>1 DEF Sending, Stay
    <3>6. JobOk(Goes(j, extra, "exec"), "send") /\ Goes(j, extra, "exec").after = "exec"
      BY <2>9, <2>12, <3>2, SendingOk
    <3>4. JobOk(job', "send") /\ job'.after = "exec"
      BY <3>3, <3>6 DEF Goes
    <3>5. n \notin 1 .. 4
      BY <2>13
    <3> QED
      BY <1>2, <1>3, <1>5, <2>2, <3>3, <3>4, <3>5 DEF n, words, split
  <2>14. CASE ~(n > 4)
    <3>1. Stay("exec", j)
      BY <2>2, <2>14
    <3>2. pc' = "exec" /\ job' = j /\ closed' = closed /\ serving' = serving
      BY <3>1 DEF Stay
    <3>3. JobOk(job', "exec")
      BY <2>9, <2>12, <3>2 DEF JobOk
    <3>4. ASSUME n \in 1 .. 4
          PROVE  job'.command = words[1] /\ job'.args = SubSeq(words, 2, n)
      <4>1. m = n
        BY <3>4 DEF m
      <4> QED
        BY <2>12, <3>2, <3>4, <4>1 DEF cmd, args
    <3> QED
      BY <1>2, <1>3, <1>5, <2>2, <3>2, <3>3, <3>4 DEF n, words, split
  <2> QED
    BY <2>13, <2>14
<1> QED
  BY <1>2, <1>4, <1>5

(***************************************************************************)
(* What each step of the thread comes to.                                  *)
(***************************************************************************)
Remains == closed' = closed /\ serving' = serving

(* It goes on to send a reply, and to next after it.                       *)
Replying(reply, next) ==
  /\ Remains /\ pc' = "send" /\ JobOk(job', "send")
  /\ Owes(job'.todo) = reply /\ job'.after = next

LEMMA ReplyingOf ==
  ASSUME NEW j \in Jobs, Len(j.args) <= 3, NEW todo \in Seq(Messages), todo # <<>>,
         todo[Len(todo)].retried, NEW after \in {"read", "exec", "exit", "abort"},
         Sending(j, todo, after)
  PROVE  Replying(Owes(todo), after)
<1>1. pc' = "send" /\ job' = Goes(j, todo, after) /\ closed' = closed /\ serving' = serving
  BY DEF Sending, Stay, Goes
<1>2. /\ JobOk(Goes(j, todo, after), "send") /\ Goes(j, todo, after).todo = todo
      /\ Goes(j, todo, after).after = after
  BY SendingOk
<1> QED
  BY <1>1, <1>2 DEF Replying, Remains

LEMMA FailReplies ==
  ASSUME JobOk(job, "exec"), Fail
  PROVE  Replying(ErrMsg, "exit")
<1>1. job \in Jobs /\ Len(job.args) <= 3
  BY DEF JobOk
<1> DEFINE todo == <<Message(ErrMsg)>>
<1>2. /\ todo \in Seq(Messages) /\ todo # <<>> /\ todo[Len(todo)].retried
      /\ Owes(todo) = ErrMsg
  BY UnitsType, OneMessage
<1>3. Sending(job, todo, "exit")
  BY DEF Fail
<1> HIDE DEF todo
<1>4. Replying(Owes(todo), "exit")
  BY <1>1, <1>2, <1>3, ReplyingOf
<1> QED
  BY <1>2, <1>4

LEMMA ShowsItems ==
  ASSUME NEW items \in Seq(Items) PROVE items \in Seq(Shows)
<1>1. Len(items) \in Nat /\ items \in [1 .. Len(items) -> Items]
  OBVIOUS
<1>2. Items \subseteq Shows
  BY DEF Shows
<1>3. items \in [1 .. Len(items) -> Shows]
  BY <1>1, <1>2
<1> QED
  BY <1>1, <1>3

(* OK and some of the lines of a list.                                     *)
LEMMA FirstLines ==
  ASSUME NEW items \in Seq(Shows), NEW k \in DOMAIN items, NEW lineOf, NEW todo,
         lineOf = [i \in DOMAIN items |-> Message(ListLine(items[i]))],
         todo = <<Message(OkMsg)>> \o SubSeq(lineOf, 1, k - 1)
  PROVE  todo \in Seq(Messages) /\ todo # <<>> /\ todo[Len(todo)].retried
<1> DEFINE n == Len(items)
           ok == Message(OkMsg)
           h == <<ok>>
           u == SubSeq(lineOf, 1, k - 1)
<1>1. n \in Nat /\ DOMAIN items = 1 .. n
  BY LenProperties
<1>2. ASSUME NEW i \in 1 .. n
      PROVE  Message(ListLine(items[i])) \in Messages /\ Message(ListLine(items[i])).retried
  BY ElementOfSeq, ListLineType, MessageType
<1>3. ok \in Messages /\ ok.retried
  BY UnitsType, MessageType
<1>4. \A i \in 1 .. n : lineOf[i] \in Messages /\ lineOf[i].retried
  BY <1>1, <1>2
<1>5. k \in 1 .. n
  BY <1>1
<1> HIDE DEF n, ok
<1> DEFINE m == k - 1
<1>6. m \in Int /\ m \in 0 .. n - 1 /\ \A i \in 1 .. m : i \in 1 .. n
  BY <1>1, <1>5
<1>7. \A i \in 1 .. m : lineOf[i] \in Messages
  BY <1>4, <1>6
<1>8. u = SubSeq(lineOf, 1, m)
  OBVIOUS
<1> HIDE DEF m, u
<1>9. /\ u \in Seq(Messages) /\ Len(u) = (IF 1 <= m THEN m - 1 + 1 ELSE 0)
      /\ \A i \in 1 .. m - 1 + 1 : u[i] = lineOf[1 + i - 1]
  BY <1>6, <1>7, <1>8, SubSeqProperties
<1>10. Len(u) = m /\ \A i \in 1 .. m : u[i] = lineOf[i]
  <2>1. m - 1 + 1 = m /\ \A i \in Nat : 1 + i - 1 = i
    BY <1>6
  <2>2. Len(u) = m
    BY <1>6, <1>9
  <2>3. ASSUME NEW i \in 1 .. m PROVE u[i] = lineOf[i]
    <3>1. i \in Nat /\ i \in 1 .. m - 1 + 1 /\ 1 + i - 1 = i
      BY <1>6, <2>1
    <3>2. u[i] = lineOf[1 + i - 1]
      BY <1>9, <3>1
    <3> QED
      BY <3>1, <3>2
  <2> QED
    BY <2>2, <2>3
<1>11. h \in Seq(Messages) /\ Len(h) = 1 /\ h[1] = ok
  BY <1>3
<1> HIDE DEF h
<1>12. /\ todo \in Seq(Messages) /\ Len(todo) = 1 + m
       /\ \A i \in 1 .. 1 + m : todo[i] = IF i <= 1 THEN h[i] ELSE u[i - 1]
  <2>1. todo = h \o u
    BY <1>8 DEF h, ok, m
  <2>2. /\ h \o u \in Seq(Messages) /\ Len(h \o u) = Len(h) + Len(u)
        /\ \A i \in 1 .. Len(h) + Len(u) :
             (h \o u)[i] = IF i <= Len(h) THEN h[i] ELSE u[i - Len(h)]
    BY <1>9, <1>11, ConcatProperties
  <2> QED
    BY <1>10, <1>11, <2>1, <2>2
<1>13. todo[1 + m].retried
  <2>1. CASE m = 0
    BY <1>3, <1>11, <1>12, <2>1
  <2>2. CASE m # 0
    <3>1. 1 + m \in 1 .. 1 + m /\ ~(1 + m <= 1) /\ 1 + m - 1 = m /\ m \in 1 .. m /\ m \in 1 .. n
      BY <1>6, <2>2
    <3>2. todo[1 + m] = u[m] /\ u[m] = lineOf[m]
      BY <1>10, <1>12, <3>1
    <3> QED
      BY <1>4, <3>1, <3>2
  <2> QED
    BY <2>1, <2>2
<1>14. todo # <<>>
  BY <1>6, <1>12, EmptySeq
<1> QED
  BY <1>12, <1>13, <1>14

LEMMA HeldType ==
  ASSUME NEW st \in Stores, NEW name
  PROVE  Held(st, name) \in Versions \cup {NoVersion}
BY DEF Held, Stores

LEMMA LookupType ==
  ASSUME store \in Stores, NEW name
  PROVE  Lookup(name) \in Versions \cup {NoVersion}
BY HeldType DEF Lookup

LEMMA FopenType ==
  ASSUME store \in Stores, NEW name
  PROVE  /\ Fopen(name) \in Versions \cup {NoVersion}
         /\ Opened(store, name) \in Versions \cup {NoVersion}
         /\ name \notin Unreadable => Fopen(name) = Lookup(name)
BY HeldType DEF Fopen, Opened, Lookup

LEMMA SizeCases ==
  ASSUME ServerOk, JobOk(job, "exec"), Size
  PROVE  LET v == Lookup(job.args[1])
         IN  \/ v = NoVersion /\ Replying(ErrMsg, "exit")
             \/ /\ v # NoVersion /\ Remains /\ pc' = "md5" /\ JobOk(job', "md5")
                /\ job'.stat = v /\ job'.command = job.command /\ job'.args = job.args
                /\ job'.todo = job.todo
<1> DEFINE v == Lookup(job.args[1])
<1>1. v \in Versions \cup {NoVersion}
  BY LookupType DEF ServerOk
<1>2. job \in Jobs /\ Len(job.args) <= 3
  BY DEF JobOk
<1>3. IF v = NoVersion THEN Fail ELSE Stay("md5", [job EXCEPT !.stat = v])
  BY DEF Size
<1> HIDE DEF v
<1>4. CASE v = NoVersion
  BY <1>3, <1>4, FailReplies DEF v
<1>5. CASE v # NoVersion
  <2>1. Remains /\ pc' = "md5" /\ job' = [job EXCEPT !.stat = v]
    BY <1>3, <1>5 DEF Stay, Remains
  <2>2. /\ job' \in Jobs /\ job'.stat = v /\ job'.args = job.args
        /\ job'.command = job.command /\ job'.todo = job.todo
    BY <1>1, <1>2, <2>1 DEF Jobs
  <2>3. job.todo = <<>>
    BY DEF JobOk
  <2>4. JobOk(job', "md5")
    BY <1>1, <1>2, <1>5, <2>2, <2>3 DEF JobOk
  <2> QED
    BY <1>5, <2>1, <2>2, <2>4 DEF v
<1> QED
  BY <1>4, <1>5

(* What is asked of the file by a GET.                                     *)
Ranged(v, from, to) ==
  /\ IsNumber(from) /\ IsNumber(to)
  /\ HasRange(v, Numerals[from[1]], Numerals[to[1]])

LEMMA GetCases ==
  ASSUME ServerOk, JobOk(job, "exec"), Get
  PROVE  LET v    == Fopen(job.args[3])
             from == job.args[1]
             to   == job.args[2]
         IN  \/ /\ Ranged(v, from, to)
                /\ Replying(GetReply(v, Numerals[from[1]], Numerals[to[1]]), "read")
             \/ ~Ranged(v, from, to) /\ Replying(ErrMsg, "exit")
<1> DEFINE v    == Fopen(job.args[3])
           from == job.args[1]
           to   == job.args[2]
           a    == Numerals[from[1]]
           b    == Numerals[to[1]]
<1>1. v \in Versions \cup {NoVersion}
  BY FopenType DEF ServerOk
<1>2. job \in Jobs /\ Len(job.args) <= 3
  BY DEF JobOk
<1>3. IF Ranged(v, from, to)
      THEN Sending(job, <<Plain(OkMsg), Message(Slice(v, a, b)), Message(EndMsg)>>, "read")
      ELSE Fail
  BY DEF Get, Ranged
<1> HIDE DEF v
<1>4. CASE ~Ranged(v, from, to)
  BY <1>3, <1>4, FailReplies DEF v
<1>5. CASE Ranged(v, from, to)
  <2>1. a \in Nat /\ b \in Nat
    BY <1>5, ServerAssumption DEF Ranged, IsNumber
  <2>2. v \in Versions /\ a < b
    BY <1>1, <1>5 DEF Ranged, HasRange
  <2>3. Slice(v, a, b) \in Seq(Units) \ {<<>>}
    BY <2>1, <2>2, SliceType
  <2> DEFINE s == Slice(v, a, b)
  <2> HIDE DEF s, from, to, a, b
  <2>4. /\ Plain(OkMsg) \in Messages /\ Plain(OkMsg).msg = OkMsg
        /\ Message(s) \in Messages /\ Message(s).msg = s
        /\ Message(EndMsg) \in Messages /\ Message(EndMsg).msg = EndMsg
        /\ Message(EndMsg).retried
    BY <2>3, UnitsType, MessageType DEF s
  <2> DEFINE x == Plain(OkMsg)
             y == Message(s)
             z == Message(EndMsg)
             todo == <<x, y, z>>
  <2>5. Sending(job, todo, "read")
    BY <1>3, <1>5 DEF s
  <2> HIDE DEF x, y, z
  <2>6. /\ todo \in Seq(Messages) /\ todo # <<>> /\ todo[Len(todo)].retried
        /\ Owes(todo) = (x.msg \o y.msg) \o z.msg
    BY <2>4, OwesThree DEF x, y, z
  <2>7. Owes(todo) = GetReply(v, a, b)
    BY <2>4, <2>6 DEF x, y, z, s, GetReply
  <2> HIDE DEF todo
  <2>8. Replying(Owes(todo), "read")
    BY <1>2, <2>5, <2>6, ReplyingOf
  <2> QED
    BY <1>5, <2>7, <2>8 DEF v, from, to, a, b
<1> QED
  BY <1>4, <1>5

LEMMA ListCases ==
  ASSUME ServerOk, JobOk(job, "exec"), List
  PROVE  LET dir == Denoted(job.args[1])
         IN  \/ /\ Reachable /\ dir \in Dirs /\ moved' = TRUE
                /\ Remains /\ pc' = "list" /\ JobOk(job', "list")
                /\ job'.names = ReadDir[dir] /\ job'.items = <<>>
                /\ job'.stat = NoVersion
                /\ job'.command = job.command /\ job'.args = job.args
                /\ job'.todo = job.todo
             \/ /\ ~(Reachable /\ dir \in Dirs) /\ moved' = moved
                /\ Replying(ErrMsg, "exit")
<1> DEFINE dir == Denoted(job.args[1])
<1>3. IF Reachable /\ dir \in Dirs
      THEN /\ moved' = TRUE
           /\ Stay("list", [job EXCEPT !.stat = NoVersion, !.names = ReadDir[dir],
                                       !.items = <<>>])
      ELSE moved' = moved /\ Fail
  BY DEF List
<1> HIDE DEF dir
<1>4. CASE ~(Reachable /\ dir \in Dirs)
  BY <1>3, <1>4, FailReplies DEF dir
<1>5. CASE Reachable /\ dir \in Dirs
  <2>1. Remains /\ pc' = "list" /\ moved' = TRUE
        /\ job' = [[[job EXCEPT !.stat = NoVersion] EXCEPT !.names = ReadDir[dir]]
                    EXCEPT !.items = <<>>]
    BY <1>3, <1>5 DEF Stay, Remains
  <2>2. ReadDir[dir] \in Seq(Seq(Symbols)) /\ Len(ReadDir[dir]) \in Nat
    BY <1>5, BasesType
  <2>3. <<>> \in Seq(Shows)
    BY EmptySeq
  <2>4. job \in Jobs /\ Len(job.args) <= 3
    BY DEF JobOk
  <2>5. /\ job' \in Jobs /\ job'.names = ReadDir[dir] /\ job'.items = <<>> /\ job'.stat = NoVersion
        /\ job'.args = job.args /\ job'.command = job.command /\ job'.todo = job.todo
    BY <2>1, <2>2, <2>3, <2>4 DEF Jobs
  <2>6. job.todo = <<>> /\ job.args # <<>>
    <3>1. Len(job.args) >= 1
      BY DEF List, Is
    <3>2. Len(<<>>) = 0
      OBVIOUS
    <3>3. job.args # <<>>
      BY <3>1, <3>2
    <3>4. job.todo = <<>>
      BY DEF JobOk
    <3> QED
      BY <3>3, <3>4
  <2>7. Lists(job')
    <3>1. Bases(job') = ReadDir[dir] /\ Looked(job') = 0
      BY <2>2, <2>5 DEF Bases, Looked, dir
    <3>2. SubSeq(ReadDir[dir], 1, Len(ReadDir[dir])) = ReadDir[dir]
      BY <2>2, SubSeqFull
    <3> QED
      BY <1>5, <2>2, <2>5, <2>6, <3>1, <3>2 DEF Lists, dir
  <2>8. JobOk(job', "list")
    BY <2>4, <2>5, <2>6, <2>7 DEF JobOk
  <2> QED
    BY <1>5, <2>1, <2>5, <2>8 DEF dir
<1> QED
  BY <1>4, <1>5

-----------------------------------------------------------------------------
LEMMA Md5Cases ==
  ASSUME ServerOk, JobOk(job, "md5"), Md5
  PROVE  LET now == Fopen(job.args[1])
         IN  \/ Replying((OkMsg \o <<EntryOf(job.stat, now), CRLF>>) \o EndMsg, "read")
             \/ now = NoVersion /\ Crash
<1> DEFINE now == Fopen(job.args[1])
           line == <<EntryOf(job.stat, now), CRLF>>
<1>1. now \in Versions \cup {NoVersion}
  BY FopenType DEF ServerOk
<1>2. job \in Jobs /\ Len(job.args) <= 3 /\ job.stat \in Versions
  BY DEF JobOk
<1>3. \/ Sending(job, <<Message(OkMsg), Message(line), Message(EndMsg)>>, "read")
      \/ now = NoVersion /\ Crash
  BY DEF Md5
<1> HIDE DEF now
<1>4. line \in Seq(Units) \ {<<>>}
  BY <1>1, <1>2, EntryLine
<1> HIDE DEF line
<1>5. CASE Sending(job, <<Message(OkMsg), Message(line), Message(EndMsg)>>, "read")
  <2> DEFINE x == Message(OkMsg)
             y == Message(line)
             z == Message(EndMsg)
             todo == <<x, y, z>>
  <2>1. /\ x \in Messages /\ x.msg = OkMsg /\ y \in Messages /\ y.msg = line
        /\ z \in Messages /\ z.msg = EndMsg /\ z.retried
    BY <1>4, UnitsType, MessageType
  <2>2. Sending(job, todo, "read")
    BY <1>5
  <2> HIDE DEF x, y, z
  <2>3. /\ todo \in Seq(Messages) /\ todo # <<>> /\ todo[Len(todo)].retried
        /\ Owes(todo) = (x.msg \o y.msg) \o z.msg
    BY <2>1, OwesThree
  <2>4. Owes(todo) = (OkMsg \o line) \o EndMsg
    BY <2>1, <2>3
  <2> HIDE DEF todo
  <2>5. Replying(Owes(todo), "read")
    BY <1>2, <2>2, <2>3, ReplyingOf
  <2> QED
    BY <2>4, <2>5 DEF line, now
<1> QED
  BY <1>3, <1>5 DEF now

(* The next entry of the directory that is listed.                         *)
LEMMA NextOk ==
  ASSUME JobOk(job, "list"), job.names # <<>>
  PROVE  LET dir  == Denoted(job.args[1])
             k    == Looked(job) + 1
             base == ReadDir[dir][k]
             n    == Len(ReadDir[dir])
         IN  /\ k \in 1 .. n /\ Head(job.names) = base /\ NextName = Join(dir, base)
             /\ NextShown = DirName(job.args[1]) \o base
             /\ NextName \in Entries /\ NextShown \in Seq(Symbols)
             /\ job.names \in Seq(Seq(Symbols))
             /\ Len(job.names) = n - Looked(job)
             /\ \A m \in 1 .. n - Looked(job) :
                  job.names[m] = ReadDir[dir][Looked(job) + m]
<1> DEFINE dir   == Denoted(job.args[1])
           bases == ReadDir[dir]
           n     == Len(bases)
           i     == Looked(job)
           base  == bases[i + 1]
           shown == DirName(job.args[1]) \o base
<1>1. /\ job \in Jobs /\ Len(job.args) <= 3 /\ job.args # <<>> /\ dir \in Dirs
      /\ i \in 0 .. n /\ job.names = SubSeq(bases, i + 1, n)
  BY DEF JobOk, Lists, Bases
<1>2. bases \in Seq(Seq(Symbols)) /\ n \in Nat
  BY <1>1, BasesType
<1>3. job.names # <<>>
  OBVIOUS
<1> HIDE DEF n, i
<1>4. Len(job.names) = n - i /\ \A k \in 1 .. n - i : job.names[k] = bases[i + k]
  <2>1. \A k \in i + 1 .. n : bases[k] \in Seq(Symbols)
    <3>1. \A k \in 1 .. n : bases[k] \in Seq(Symbols)
      BY <1>2, ElementOfSeq DEF n
    <3> QED
      BY <1>1, <1>2, <3>1
  <2> HIDE DEF bases
  <2> DEFINE m == i + 1
  <2>2. m \in Int /\ n \in Int
    BY <1>1, <1>2
  <2>3. \A k \in m .. n : bases[k] \in Seq(Symbols)
    BY <2>1
  <2> HIDE DEF m
  <2>4. /\ Len(SubSeq(bases, m, n)) = (IF m <= n THEN n - m + 1 ELSE 0)
        /\ \A k \in 1 .. n - m + 1 : SubSeq(bases, m, n)[k] = bases[m + k - 1]
    BY <2>2, <2>3, SubSeqProperties
  <2>5. Len(job.names) = (IF m <= n THEN n - m + 1 ELSE 0)
        /\ \A k \in 1 .. n - m + 1 : job.names[k] = bases[m + k - 1]
    BY <1>1, <2>4 DEF m
  <2>6. n - m + 1 = n - i /\ \A k \in Nat : m + k - 1 = i + k
    BY <1>1, <1>2 DEF m
  <2>7. Len(job.names) = n - i
    BY <1>1, <1>2, <2>5, <2>6 DEF m
  <2> QED
    BY <1>2, <2>5, <2>6, <2>7
<1>5. job.names \in Seq(Seq(Symbols))
  BY <1>1 DEF Jobs
<1>6. Len(job.names) # 0
  BY <1>3, <1>5, EmptySeq
<1>7. i + 1 \in 1 .. n /\ Head(job.names) = base
  <2>1. i + 1 \in 1 .. n /\ 1 \in 1 .. n - i
    BY <1>1, <1>2, <1>4, <1>6
  <2>2. job.names[1] = bases[i + 1]
    BY <1>4, <2>1
  <2>3. Head(job.names) = job.names[1]
    BY <1>3, <1>5, HeadTailProperties
  <2> QED
    BY <2>1, <2>2, <2>3
<1>8. base \in Seq(Symbols) /\ Join(dir, base) \in Entries
  BY <1>1, <1>7, BasesType DEF n
<1>9. shown \in Seq(Symbols)
  <2>1. 1 \in 1 .. Len(job.args)
    <3>1. job.args \in Seq(Seq(Symbols))
      BY <1>1 DEF Jobs
    <3>2. Len(job.args) \in Nat /\ Len(job.args) # 0
      BY <1>1, <3>1, EmptySeq
    <3> QED
      BY <3>2
  <2>2. job.args[1] \in Seq(Symbols)
    BY <1>1, <2>1, ElementOfSeq DEF Jobs
  <2>3. DirName(job.args[1]) \in Seq(Symbols)
    <3>1. "/" \in Symbols
      BY ServerAssumption
    <3>2. Append(job.args[1], "/") \in Seq(Symbols)
      BY <2>2, <3>1, AppendProperties
    <3> QED
      BY <2>2, <3>2 DEF DirName
  <2> QED
    BY <1>8, <2>3, ConcatProperties
<1>10. NextName = Join(dir, base) /\ NextShown = shown
  BY <1>7 DEF NextName, NextShown
<1> QED
  BY <1>4, <1>5, <1>7, <1>8, <1>9, <1>10 DEF n, i

(* How much of a directory was looked at: one more.                        *)
LEMMA ListedCases ==
  ASSUME ServerOk, JobOk(job, "list"), job.names # <<>>, NEW item \in Seq(Shows),
         Listed(item)
  PROVE  /\ Remains /\ pc' = "list" /\ JobOk(job', "list") /\ job'.todo = job.todo
         /\ job'.command = job.command /\ job'.args = job.args /\ job'.stat = NoVersion
         /\ Looked(job') = Looked(job) + 1 /\ job'.items = item \o job.items
<1> DEFINE dir   == Denoted(job.args[1])
           bases == ReadDir[dir]
           n     == Len(bases)
           i     == Looked(job)
           rest  == Tail(job.names)
<1>1. /\ job \in Jobs /\ Len(job.args) <= 3 /\ job.args # <<>> /\ dir \in Dirs
      /\ i \in 0 .. n /\ job.names = SubSeq(bases, i + 1, n) /\ job.todo = <<>>
  BY DEF JobOk, Lists, Bases
<1>2. bases \in Seq(Seq(Symbols)) /\ n \in Nat
  BY <1>1, BasesType
<1>3. job.names # <<>>
  OBVIOUS
<1>4. /\ Len(job.names) = n - i /\ \A k \in 1 .. n - i : job.names[k] = bases[i + k]
      /\ i + 1 \in 1 .. n /\ job.names \in Seq(Seq(Symbols))
  BY NextOk
<1>5. job.names \in Seq(Seq(Symbols))
  BY <1>4
<1>7. i + 1 \in 1 .. n
  BY <1>4
<1> HIDE DEF n, i
<1>11. Remains /\ pc' = "list"
       /\ job' = [[[job EXCEPT !.stat = NoVersion] EXCEPT !.names = rest]
                    EXCEPT !.items = item \o job.items]
  BY DEF Listed, Stay, Remains
<1>12. /\ rest \in Seq(Seq(Symbols)) /\ Len(rest) = n - i - 1
       /\ \A k \in 1 .. n - i - 1 : rest[k] = bases[i + 1 + k]
  <2>1. /\ rest \in Seq(Seq(Symbols)) /\ Len(rest) = Len(job.names) - 1
        /\ \A k \in 1 .. Len(rest) : rest[k] = job.names[k + 1]
    BY <1>3, <1>5, HeadTailProperties
  <2>2. \A k \in 1 .. n - i - 1 : k + 1 \in 1 .. n - i /\ i + 1 + k = i + (k + 1)
    BY <1>1, <1>2
  <2> HIDE DEF rest, bases
  <2>3. Len(rest) = n - i - 1
    BY <1>4, <2>1
  <2>4. ASSUME NEW k \in 1 .. n - i - 1 PROVE rest[k] = bases[i + 1 + k]
    BY <1>4, <2>1, <2>2, <2>3
  <2> QED
    BY <2>1, <2>3, <2>4
<1>13. item \o job.items \in Seq(Shows)
  <2>1. job.items \in Seq(Shows)
    BY <1>1 DEF Jobs
  <2> QED
    BY <2>1, ConcatProperties
<1> HIDE DEF rest
<1>14. /\ job' \in Jobs /\ job'.names = rest /\ job'.items = item \o job.items
       /\ job'.args = job.args /\ job'.command = job.command /\ job'.todo = job.todo
       /\ job'.stat = NoVersion
  BY <1>1, <1>11, <1>12, <1>13 DEF Jobs
<1>15. Bases(job') = bases /\ Looked(job') = i + 1
  <2>1. Bases(job') = bases /\ job'.names = rest
    BY <1>14 DEF Bases
  <2>2. Looked(job') = Len(bases) - Len(rest)
    BY <2>1 DEF Looked
  <2>3. Len(bases) = n
    BY DEF n
  <2> HIDE DEF bases
  <2> QED
    BY <1>1, <1>2, <1>12, <2>1, <2>2, <2>3
<1>16. rest = SubSeq(bases, (i + 1) + 1, n)
  <2> DEFINE m == (i + 1) + 1
             u == SubSeq(bases, m, n)
  <2>1. \A k \in m .. n : bases[k] \in Seq(Symbols)
    <3>1. \A k \in 1 .. n : bases[k] \in Seq(Symbols)
      BY <1>2, ElementOfSeq DEF n
    <3>2. \A k \in m .. n : k \in 1 .. n
      BY <1>1, <1>2
    <3> QED
      BY <3>1, <3>2
  <2>2. m \in Int /\ n \in Int /\ m = i + 2
    BY <1>1, <1>2
  <2> HIDE DEF m, bases
  <2>3. /\ u \in Seq(Seq(Symbols)) /\ Len(u) = (IF m <= n THEN n - m + 1 ELSE 0)
        /\ \A k \in 1 .. n - m + 1 : u[k] = bases[m + k - 1]
    BY <2>1, <2>2, SubSeqProperties
  <2>4. n - m + 1 = n - i - 1 /\ \A k \in Nat : m + k - 1 = i + 1 + k
    BY <1>1, <1>2, <2>2
  <2> HIDE DEF u
  <2>5. Len(u) = n - i - 1
    BY <1>2, <1>7, <1>1, <2>2, <2>3, <2>4
  <2>6. ASSUME NEW k \in 1 .. Len(rest) PROVE rest[k] = u[k]
    <3>1. k \in 1 .. n - i - 1 /\ k \in 1 .. n - m + 1 /\ k \in Nat
      BY <1>12, <2>4
    <3>2. m + k - 1 = i + 1 + k
      BY <2>4, <3>1
    <3>3. rest[k] = bases[i + 1 + k]
      BY <1>12, <3>1
    <3>4. u[k] = bases[m + k - 1]
      BY <2>3, <3>1
    <3> QED
      BY <3>2, <3>3, <3>4
  <2>7. rest = u
    BY <1>12, <2>3, <2>5, <2>6, SeqEqual
  <2> QED
    BY <2>7 DEF u, m
<1>17. Lists(job')
  <2>1. i + 1 \in 0 .. Len(bases) /\ Len(bases) = n
    BY <1>7 DEF n
  <2>2. job'.names = SubSeq(Bases(job'), Looked(job') + 1, Len(Bases(job')))
    BY <1>14, <1>15, <1>16, <2>1
  <2>3. Denoted(job'.args[1]) \in Dirs /\ job'.args # <<>>
    BY <1>1, <1>14
  <2> HIDE DEF bases
  <2>4. Looked(job') \in 0 .. Len(Bases(job'))
    BY <1>15, <2>1
  <2> QED
    BY <1>14, <2>2, <2>3, <2>4 DEF Lists
<1>18. JobOk(job', "list")
  BY <1>1, <1>14, <1>17 DEF JobOk
<1> QED
  BY <1>11, <1>14, <1>15, <1>18 DEF i

(* stat() finds a file, or there is no MD5 to compute.                     *)
LEMMA ListEntryCases ==
  ASSUME ServerOk, JobOk(job, "list"), ListEntry
  PROVE  /\ job.names # <<>> /\ job.stat = NoVersion
         /\ Remains /\ pc' = "list" /\ JobOk(job', "list") /\ job'.todo = job.todo
         /\ job'.command = job.command /\ job'.args = job.args
         /\ \/ /\ Held(store, NextName) # NoVersion /\ Excuses(NextName)
               /\ job'.stat = Held(store, NextName)
               /\ job'.names = job.names /\ job'.items = job.items
               /\ Looked(job') = Looked(job)
            \/ /\ Held(store, NextName) = NoVersion /\ spoilt' = spoilt
               /\ job'.stat = NoVersion /\ Looked(job') = Looked(job) + 1
               /\ job'.items = Shown(store, NextName, NextShown) \o job.items
<1> DEFINE v == Held(store, NextName)
           item == Shown(store, NextName, NextShown)
<1>1. job.names # <<>> /\ job.stat = NoVersion
  BY DEF ListEntry
<1>2. CASE v # NoVersion
  <2>1. v \in Versions
    BY <1>2, HeldType DEF ServerOk
  <2>2. Remains /\ pc' = "list" /\ job' = [job EXCEPT !.stat = v] /\ Excuses(NextName)
    BY <1>2 DEF ListEntry, Stay, Remains
  <2>3. job \in Jobs /\ Len(job.args) <= 3 /\ job.todo = <<>> /\ Lists(job)
    BY DEF JobOk
  <2> HIDE DEF v
  <2>4. /\ job' \in Jobs /\ job'.stat = v /\ job'.names = job.names
        /\ job'.items = job.items /\ job'.args = job.args
        /\ job'.command = job.command /\ job'.todo = job.todo
    BY <2>1, <2>2, <2>3 DEF Jobs
  <2>5. Bases(job') = Bases(job) /\ Looked(job') = Looked(job)
    BY <2>4 DEF Bases, Looked
  <2>6. Lists(job')
    BY <1>1, <2>3, <2>4, <2>5 DEF Lists
  <2>7. JobOk(job', "list")
    BY <2>3, <2>4, <2>6 DEF JobOk
  <2> QED
    BY <1>1, <1>2, <2>2, <2>4, <2>5, <2>7 DEF v
<1>3. CASE v = NoVersion
  <2>1. Listed(item) /\ spoilt' = spoilt
    BY <1>3 DEF ListEntry
  <2>2. item \in Seq(Items)
    BY <1>1, NextOk, ShownType DEF ServerOk
  <2>3. item \in Seq(Shows)
    BY <2>2, ShowsItems
  <2> HIDE DEF item
  <2>4. /\ Remains /\ pc' = "list" /\ JobOk(job', "list") /\ job'.todo = job.todo
        /\ job'.command = job.command /\ job'.args = job.args /\ job'.stat = NoVersion
        /\ Looked(job') = Looked(job) + 1 /\ job'.items = item \o job.items
    BY <1>1, <2>1, <2>3, ListedCases
  <2> QED
    BY <1>1, <1>3, <2>1, <2>4 DEF item
<1> QED
  BY <1>2, <1>3

LEMMA ListMd5Cases ==
  ASSUME ServerOk, JobOk(job, "list"), ListMd5
  PROVE  /\ job.names # <<>> /\ job.stat # NoVersion /\ spoilt' = spoilt
         /\ Remains /\ pc' = "list" /\ JobOk(job', "list") /\ job'.todo = job.todo
         /\ job'.command = job.command /\ job'.args = job.args /\ job'.stat = NoVersion
         /\ Looked(job') = Looked(job) + 1
         /\ job'.items = <<ItemOf(NextShown, job.stat, Opened(store, NextName))>>
                            \o job.items
<1> DEFINE now == Opened(store, NextName)
           x == ItemOf(NextShown, job.stat, now)
<1>1. job.stat # NoVersion /\ job.names # <<>> /\ spoilt' = spoilt
  BY DEF ListMd5, JobOk, Lists
<1>2. NextShown \in Seq(Symbols)
  BY <1>1, NextOk
<1>3. now \in Versions \cup {NoVersion}
  BY FopenType DEF ServerOk
<1>4. Listed(<<x>>)
  BY DEF ListMd5
<1> HIDE DEF now
<1>5. x \in Shows
  <2>1. FileItem(NextShown, now) \in Items
    BY <1>2, <1>3 DEF FileItem, Items
  <2>2. [kind |-> "mixed", name |-> NextShown, of |-> now] \in Mixed
    BY <1>2, <1>3 DEF Mixed
  <2> QED
    BY <2>1, <2>2 DEF ItemOf, Shows
<1> HIDE DEF x
<1>6. <<x>> \in Seq(Shows)
  BY <1>5
<1> DEFINE item == <<x>>
<1> HIDE DEF item
<1>7. item \in Seq(Shows) /\ Listed(item)
  BY <1>4, <1>6 DEF item
<1>8. /\ Remains /\ pc' = "list" /\ JobOk(job', "list") /\ job'.todo = job.todo
      /\ job'.command = job.command /\ job'.args = job.args /\ job'.stat = NoVersion
      /\ Looked(job') = Looked(job) + 1 /\ job'.items = item \o job.items
  BY <1>1, <1>7, ListedCases
<1> QED
  BY <1>1, <1>8 DEF item, x, now

(* All that was listed is sent, or what is before one that has no MD5.     *)
LEMMA ListDoneCases ==
  ASSUME ServerOk, JobOk(job, "list"), ListDone
  PROVE  /\ Looked(job) = Len(Bases(job))
         /\ \/ Replying(ListReply(job.items), "read")
            \/ /\ \E k \in DOMAIN job.items : job.items[k].kind = "mixed"
               /\ \E reply : Replying(reply, "abort")
<1> DEFINE lineOf == [k \in DOMAIN job.items |-> Message(ListLine(job.items[k]))]
           todo == <<Message(OkMsg)>> \o lineOf \o <<Message(EndMsg)>>
<1>1. job \in Jobs /\ Len(job.args) <= 3 /\ job.items \in Seq(Shows)
  BY DEF JobOk, Jobs
<1>2. /\ todo \in Seq(Messages) /\ todo # <<>> /\ todo[Len(todo)].retried
      /\ Owes(todo) = ListReply(job.items)
  BY <1>1, OwesList
<1>3. /\ job.names = <<>>
      /\ \/ Sending(job, todo, "read")
         \/ \E k \in DOMAIN job.items :
              /\ job.items[k].kind = "mixed"
              /\ Sending(job, <<Message(OkMsg)>> \o SubSeq(lineOf, 1, k - 1), "abort")
  BY DEF ListDone
<1> HIDE DEF todo, lineOf
<1>4. ASSUME Sending(job, todo, "read") PROVE Replying(ListReply(job.items), "read")
  <2>1. Replying(Owes(todo), "read")
    BY <1>1, <1>2, <1>4, ReplyingOf
  <2>2. /\ Remains /\ pc' = "send" /\ JobOk(job', "send")
        /\ Owes(job'.todo) = Owes(todo) /\ job'.after = "read"
    BY <2>1 DEF Replying
  <2>3. Owes(job'.todo) = ListReply(job.items)
    BY <1>2, <2>2
  <2> QED
    BY <2>2, <2>3 DEF Replying
<1>6. ASSUME NEW k \in DOMAIN job.items, job.items[k].kind = "mixed",
             Sending(job, <<Message(OkMsg)>> \o SubSeq(lineOf, 1, k - 1), "abort")
      PROVE  \E reply : Replying(reply, "abort")
  <2> DEFINE part == <<Message(OkMsg)>> \o SubSeq(lineOf, 1, k - 1)
  <2>1. part \in Seq(Messages) /\ part # <<>> /\ part[Len(part)].retried
    BY <1>1, FirstLines DEF lineOf
  <2>2. Sending(job, part, "abort")
    BY <1>6
  <2> HIDE DEF part
  <2>3. Replying(Owes(part), "abort")
    BY <1>1, <2>1, <2>2, ReplyingOf
  <2> QED
    BY <2>3
<1>5. Looked(job) = Len(Bases(job))
  <2>1. Looked(job) = Len(Bases(job)) - Len(job.names) /\ Denoted(job.args[1]) \in Dirs
    BY DEF JobOk, Lists, Looked
  <2>2. Len(Bases(job)) \in Nat
    BY <2>1, BasesType DEF Bases
  <2> QED
    BY <1>3, <2>1, <2>2
<1> QED
  BY <1>3, <1>4, <1>5, <1>6

-----------------------------------------------------------------------------
(* What the types need: the server's part of the invariant.                *)
Base == PeersOk /\ ServerOk /\ JobOk(job, pc) /\ (Running => Connected)

LEMMA BaseInit == Init => Base
<1> SUFFICES ASSUME Init PROVE Base
  OBVIOUS
<1>1. <<>> \in Seq(Symbols) /\ <<>> \in Seq(Seq(Symbols)) /\ <<>> \in Seq(Clients)
      /\ <<>> \in Seq(Units) /\ Len(<<>>) = 0
  BY EmptySeq
<1>2. PeersOk
  BY <1>1, ServerAssumption DEF Init, PeersOk
<1>3. ServerOk
  BY <1>1, ServerAssumption DEF Init, ServerOk, Labels
<1>4. JobOk(job, pc)
  BY IdleOk DEF Init, Labels
<1>5. ToSet(backlog) = {}
  BY DEF Init, ToSet
<1>6. Connected
  BY <1>1, <1>5, ServerAssumption DEF Init, Connected, Quiet
<1> QED
  BY <1>2, <1>3, <1>4, <1>6 DEF Base

LEMMA BaseStutters == Base /\ UNCHANGED vars => Base'
<1> SUFFICES ASSUME Base, UNCHANGED vars PROVE Base'
  OBVIOUS
<1>1. /\ link' = link /\ lines' = lines /\ in' = in /\ backlog' = backlog /\ out' = out
      /\ closed' = closed /\ pc' = pc /\ serving' = serving /\ job' = job
      /\ moved' = moved /\ home' = home /\ store' = store /\ spoilt' = spoilt
  BY DEF vars, peers, server, disk
<1>2. PeersOk' /\ ServerOk'
  BY <1>1 DEF Base, PeersOk, ServerOk
<1>3. JobOk(job', pc')
  BY <1>1 DEF Base
<1>4. Running' <=> Running
  BY <1>1 DEF Running
<1>5. Connected => Connected'
  BY <1>1 DEF Connected, Quiet
<1> QED
  BY <1>2, <1>3, <1>4, <1>5 DEF Base

(* How a step of the thread leaves its control, and the rest.              *)
Busy  == {"send", "read", "exec", "md5", "list"}
Moves == EndThread \/ Crash \/ (Remains /\ pc' \in Busy /\ JobOk(job', pc'))

Frame ==
  /\ UNCHANGED <<link, lines, backlog>> /\ UNCHANGED disk
  /\ \E s \in Seq(Symbols) : in' = [in EXCEPT ![serving] = s]
  /\ \E s \in Seq(Units) : out' = [out EXCEPT ![serving] = s]
  /\ moved' \in BOOLEAN /\ spoilt' \in SUBSET Clients

LEMMA ReplyingMoves ==
  ASSUME NEW reply, NEW next, Replying(reply, next) PROVE Moves
BY DEF Replying, Moves, Busy

LEMMA ThreadKeeps ==
  ASSUME Base, pc \in Busy, Moves, Frame
  PROVE  Base'
<1>1. serving \in Clients /\ Running /\ Connected
  BY DEF Base, ServerOk, Labels, Busy, Running
<1>2. /\ link' = link /\ lines' = lines /\ backlog' = backlog /\ home' = home
      /\ store' = store /\ moved' \in BOOLEAN /\ spoilt' \subseteq Clients
  BY DEF Frame, disk
<1>3. /\ in' \in [Clients -> Seq(Symbols)] /\ out' \in [Clients -> Seq(Units)]
      /\ \A c \in Clients \ {serving} : in'[c] = in[c] /\ out'[c] = out[c]
  BY DEF Frame, Base, PeersOk, ServerOk
<1>4. PeersOk'
  BY <1>2, <1>3 DEF Base, PeersOk
<1>5. CASE EndThread
  <2>1. closed' = closed \cup {serving} /\ pc' = "accept" /\ serving' = NoClient /\ job' = Idle
    BY <1>5 DEF EndThread
  <2>2. ServerOk'
    BY <1>1, <1>2, <1>3, <2>1 DEF Base, ServerOk, Labels
  <2>3. JobOk(job', pc')
    BY <2>1, IdleOk DEF Labels
  <2>4. Connected'
    <3>1. ASSUME NEW c \in Clients, Quiet(c) PROVE Quiet(c)'
      <4>1. c # serving /\ c # NoClient
        BY <3>1, ServerAssumption DEF Quiet
      <4> QED
        BY <1>2, <1>3, <2>1, <3>1, <4>1 DEF Quiet
    <3>2. ToSet(backlog) \subseteq Clients
      BY DEF Base, PeersOk, ToSet
    <3>3. serving' \notin closed'
      BY <1>1, <2>1, ServerAssumption DEF Base, ServerOk
    <3> QED
      BY <1>1, <1>2, <3>1, <3>2, <3>3 DEF Connected
  <2> QED
    BY <1>4, <2>2, <2>3, <2>4 DEF Base
<1>6. CASE Crash
  <2>1. closed' = Clients /\ pc' = "dead" /\ serving' = NoClient /\ job' = Idle
    BY <1>6 DEF Crash
  <2>2. ServerOk'
    BY <1>1, <1>2, <1>3, <2>1 DEF Base, ServerOk, Labels
  <2>3. JobOk(job', pc')
    BY <2>1, IdleOk DEF Labels
  <2>4. ~Running'
    BY <2>1 DEF Running
  <2> QED
    BY <1>4, <2>2, <2>3, <2>4 DEF Base
<1>7. CASE Remains /\ pc' \in Busy /\ JobOk(job', pc')
  <2>1. closed' = closed /\ serving' = serving
    BY <1>7 DEF Remains
  <2>2. ServerOk'
    BY <1>1, <1>2, <1>3, <1>7, <2>1, ServerAssumption DEF Base, ServerOk, Labels, Busy
  <2>4. Connected'
    <3>1. ASSUME NEW c \in Clients, Quiet(c) PROVE Quiet(c)'
      <4>1. c # serving
        BY <3>1 DEF Quiet
      <4> QED
        BY <1>2, <1>3, <2>1, <3>1, <4>1 DEF Quiet
    <3>2. ToSet(backlog) \subseteq Clients
      BY DEF Base, PeersOk, ToSet
    <3> QED
      BY <1>1, <1>2, <2>1, <3>1, <3>2 DEF Connected
  <2> QED
    BY <1>4, <1>7, <2>2, <2>4 DEF Base
<1> QED
  BY <1>5, <1>6, <1>7 DEF Moves

(* Frames in which neither in nor out changes, or out only.                *)
LEMMA SilentFrame ==
  ASSUME Base, pc \in Busy, UNCHANGED <<peers, out, disk>>, moved' \in BOOLEAN,
         spoilt' = spoilt \/ \E name : Excuses(name)
  PROVE  Frame
<1>1. serving \in Clients
  BY DEF Base, ServerOk, Labels, Busy
<1>2. /\ in[serving] \in Seq(Symbols) /\ in' = [in EXCEPT ![serving] = in[serving]]
      /\ out[serving] \in Seq(Units) /\ out' = [out EXCEPT ![serving] = out[serving]]
  BY <1>1 DEF Base, PeersOk, ServerOk, peers
<1>3. spoilt' \in SUBSET Clients
  BY <1>1 DEF Base, PeersOk, Excuses
<1> QED
  BY <1>2, <1>3 DEF Frame, peers

LEMMA EmitFrame ==
  ASSUME Base, pc \in Busy, UNCHANGED <<peers, disk, moved>>,
         NEW m \in Seq(Units), Emit(m), spoilt' \in SUBSET Clients
  PROVE  Frame
<1>1. serving \in Clients
  BY DEF Base, ServerOk, Labels, Busy
<1>2. /\ in[serving] \in Seq(Symbols) /\ in' = [in EXCEPT ![serving] = in[serving]]
      /\ out[serving] \in Seq(Units)
  BY <1>1 DEF Base, PeersOk, ServerOk, peers
<1>3. out[serving] \o m \in Seq(Units) /\ out' = [out EXCEPT ![serving] = out[serving] \o m]
  BY <1>2, ConcatProperties DEF Emit
<1>4. moved' \in BOOLEAN
  BY DEF Base, ServerOk
<1> QED
  BY <1>2, <1>3, <1>4 DEF Frame, peers

LEMMA ReadKeeps ==
  ASSUME Base, Read, UNCHANGED disk
  PROVE  Base'
<1>1. pc \in Busy
  BY DEF Read, Busy
<1>2. PICK r \in readline(in[serving], link[serving] = "gone") :
           /\ in' = [in EXCEPT ![serving] = r.rest] /\ r.rest \in Seq(Symbols)
           /\ \/ ~r.ok /\ EndThread
              \/ /\ r.ok /\ closed' = closed /\ serving' = serving
                 /\ \/ pc' = "exec" /\ JobOk(job', "exec")
                    \/ pc' = "send" /\ JobOk(job', "send") /\ job'.after = "exec"
  BY ReadCases DEF Base
<1>3. Moves
  BY <1>2 DEF Moves, Busy, Remains
<1>4. serving \in Clients
  BY <1>1 DEF Base, ServerOk, Labels, Busy
<1>5. out[serving] \in Seq(Units) /\ out' = [out EXCEPT ![serving] = out[serving]]
  BY <1>4 DEF Base, ServerOk, Read
<1>6. Frame
  BY <1>2, <1>5 DEF Frame, Read, Base, ServerOk, PeersOk
<1> QED
  BY <1>1, <1>3, <1>6, ThreadKeeps

LEMMA ExecuteMoves ==
  ASSUME Base, Execute
  PROVE  Moves /\ moved' \in BOOLEAN
<1>1. ServerOk /\ JobOk(job, "exec") /\ moved \in BOOLEAN /\ job \in Jobs
  BY DEF Execute, Base, ServerOk, JobOk
<1>2. CASE Size
  <2>1. moved' = moved
    BY <1>2 DEF Size
  <2>2. Moves
    BY <1>1, <1>2, SizeCases, ReplyingMoves DEF Moves, Busy
  <2> QED
    BY <1>1, <2>1, <2>2
<1>3. CASE Get
  <2>1. moved' = moved
    BY <1>3 DEF Get
  <2>2. Moves
    BY <1>1, <1>3, GetCases, ReplyingMoves
  <2> QED
    BY <1>1, <2>1, <2>2
<1>4. CASE List
  <2>2. Moves /\ moved' \in BOOLEAN
    BY <1>1, <1>4, ListCases, ReplyingMoves DEF Moves, Busy
  <2> QED
    BY <2>2
<1>5. ASSUME Stay("read", job) PROVE Moves
  <2>1. JobOk(job, "read")
    BY <1>1 DEF JobOk
  <2> QED
    BY <1>5, <2>1 DEF Stay, Moves, Busy, Remains
<1>6. CASE Unset \/ Unknown
  <2>1. Moves
    BY <1>5, <1>6 DEF Unset, Unknown, Moves
  <2>2. moved' = moved
    BY <1>6 DEF Unset, Unknown
  <2> QED
    BY <1>1, <2>1, <2>2
<1>7. CASE (EndThread \/ Crash) /\ moved' = moved
  BY <1>1, <1>7 DEF Moves
<1> QED
  BY <1>2, <1>3, <1>4, <1>6, <1>7 DEF Execute

LEMMA ExecuteKeeps ==
  ASSUME Base, Execute, UNCHANGED disk
  PROVE  Base'
<1>1. /\ pc \in Busy /\ UNCHANGED <<peers, out, disk>>
      /\ spoilt' = spoilt \/ \E name : Excuses(name)
  BY DEF Execute, Busy
<1> QED
  BY <1>1, ExecuteMoves, SilentFrame, ThreadKeeps

LEMMA AnswerKeeps ==
  ASSUME Base, Md5 \/ ListEntry \/ ListMd5 \/ ListDone, UNCHANGED disk
  PROVE  Base'
<1>1. /\ pc \in Busy /\ UNCHANGED <<peers, out, disk>> /\ moved' = moved
      /\ spoilt' = spoilt \/ \E name : Excuses(name)
  BY DEF Md5, ListEntry, ListMd5, ListDone, Busy
<1>2. ServerOk /\ JobOk(job, pc) /\ moved \in BOOLEAN
  BY DEF Base, ServerOk
<1>3. CASE Md5
  <2>1. JobOk(job, "md5")
    BY <1>2, <1>3 DEF Md5
  <2> QED
    BY <1>1, <1>2, <1>3, <2>1, Md5Cases, ReplyingMoves, SilentFrame, ThreadKeeps DEF Moves
<1>4. CASE ListEntry
  <2>1. JobOk(job, "list")
    BY <1>2, <1>4 DEF ListEntry
  <2>2. Moves
    BY <1>2, <1>4, <2>1, ListEntryCases DEF Moves, Busy
  <2> QED
    BY <1>1, <1>2, <2>2, SilentFrame, ThreadKeeps
<1>5. CASE ListDone
  <2>1. JobOk(job, "list")
    BY <1>2, <1>5 DEF ListDone
  <2>2. Moves
    BY <1>2, <1>5, <2>1, ListDoneCases, ReplyingMoves
  <2> QED
    BY <1>1, <1>2, <2>2, SilentFrame, ThreadKeeps
<1>6. CASE ListMd5
  <2>1. JobOk(job, "list")
    BY <1>2, <1>6 DEF ListMd5
  <2>2. Moves
    BY <1>2, <1>6, <2>1, ListMd5Cases DEF Moves, Busy
  <2> QED
    BY <1>1, <1>2, <2>2, SilentFrame, ThreadKeeps
<1> QED
  BY <1>3, <1>4, <1>5, <1>6

LEMMA SendNextMoves ==
  ASSUME JobOk(job, "send"), SendNext
  PROVE  Moves
<1>1. CASE EndThread \/ Crash
  BY <1>1 DEF Moves
<1>2. CASE Remains /\ pc' = "send" /\ JobOk(job', pc')
  BY <1>2 DEF Moves, Busy
<1>3. CASE Remains /\ pc' \in {"read", "exec"} /\ JobOk(job', pc')
  BY <1>3 DEF Moves, Busy
<1> QED
  BY <1>1, <1>2, <1>3, SendNextCases DEF Remains

(* The first of the messages to be sent.                                   *)
LEMMA HeadOk ==
  ASSUME JobOk(job, "send")
  PROVE  /\ job \in Jobs /\ Len(job.args) <= 3 /\ job.todo \in Seq(Messages)
         /\ job.todo # <<>> /\ job.todo[Len(job.todo)].retried
         /\ job.after \in {"read", "exec", "exit", "abort"}
         /\ Head(job.todo) \in Messages /\ Head(job.todo).msg \in Seq(Units)
<1>1. /\ job \in Jobs /\ Len(job.args) <= 3 /\ job.todo # <<>>
      /\ job.todo[Len(job.todo)].retried
  BY DEF JobOk
<1>2. job.todo \in Seq(Messages) /\ job.after \in {"read", "exec", "exit", "abort"}
  BY <1>1 DEF Jobs
<1>3. Head(job.todo) \in Messages
  BY <1>1, <1>2, HeadTailProperties
<1> QED
  BY <1>1, <1>2, <1>3 DEF Messages

LEMMA TransmitKeeps ==
  ASSUME Base, Transmit \/ TransmitInVain, UNCHANGED disk
  PROVE  Base'
<1>1. pc \in Busy /\ JobOk(job, "send") /\ moved \in BOOLEAN /\ spoilt \in SUBSET Clients
  BY DEF Transmit, TransmitInVain, Base, Busy, ServerOk, PeersOk
<1>2. CASE Transmit
  <2>1. Head(job.todo).msg \in Seq(Units)
    BY <1>1, HeadOk
  <2> DEFINE m == Head(job.todo).msg
  <2>2. Emit(m) /\ SendNext /\ UNCHANGED <<peers, moved, spoilt>>
    BY <1>2 DEF Transmit
  <2> HIDE DEF m
  <2>3. Frame
    BY <1>1, <2>1, <2>2, EmitFrame DEF m
  <2> QED
    BY <1>1, <2>2, <2>3, SendNextMoves, ThreadKeeps
<1>3. CASE TransmitInVain
  <2>1. (SendNext \/ EndThread \/ Crash) /\ UNCHANGED <<peers, out, spoilt>> /\ moved' = moved
    BY <1>3 DEF TransmitInVain
  <2>2. Moves
    BY <1>1, <2>1, SendNextMoves DEF Moves
  <2> QED
    BY <1>1, <2>1, <2>2, SilentFrame, ThreadKeeps
<1> QED
  BY <1>2, <1>3

(* A message that is sent again stays the first one.                       *)
LEMMA AgainOk ==
  ASSUME NEW todo \in Seq(Messages), todo # <<>>, todo[Len(todo)].retried
  PROVE  <<Head(todo)>> \o Tail(todo) = todo
<1> DEFINE h == <<Head(todo)>>
           t == Tail(todo)
           n == Len(todo)
<1>1. /\ t \in Seq(Messages) /\ Len(t) = n - 1 /\ n \in Nat \ {0}
      /\ \A i \in 1 .. Len(t) : t[i] = todo[i + 1]
      /\ Head(todo) \in Messages /\ Head(todo) = todo[1]
  BY HeadTailProperties, EmptySeq
<1>2. h \in Seq(Messages) /\ Len(h) = 1 /\ h[1] = todo[1]
  BY <1>1
<1> HIDE DEF h, t
<1> DEFINE u == h \o t
<1>3. /\ u \in Seq(Messages) /\ Len(u) = Len(h) + Len(t)
      /\ \A i \in 1 .. Len(h) + Len(t) : u[i] = IF i <= Len(h) THEN h[i] ELSE t[i - Len(h)]
  <2>1. h \in Seq(Messages) /\ t \in Seq(Messages)
    BY <1>1, <1>2
  <2> QED
    BY <2>1, ConcatProperties
<1> HIDE DEF u, n
<1>4. Len(u) = n /\ u \in Seq(Messages)
      /\ \A i \in 1 .. n : u[i] = IF i <= 1 THEN h[i] ELSE t[i - 1]
  <2>1. Len(h) + Len(t) = n
    BY <1>1, <1>2
  <2> QED
    BY <1>2, <1>3, <2>1
<1>5. ASSUME NEW i \in 1 .. n PROVE u[i] = todo[i]
  <2>1. CASE i = 1
    BY <1>2, <1>4, <2>1
  <2>2. CASE i # 1
    <3>1. i - 1 \in 1 .. Len(t) /\ (i - 1) + 1 = i /\ ~(i <= 1)
      BY <1>1, <2>2
    <3>2. t[i - 1] = todo[i]
      BY <1>1, <3>1
    <3> QED
      BY <1>4, <3>1, <3>2
  <2> QED
    BY <2>1, <2>2
<1>6. u = todo
  <2>1. Len(todo) = n
    BY DEF n
  <2> QED
    BY <1>4, <1>5, <2>1, SeqEqual
<1> QED
  BY <1>6 DEF u, h, t

(* A part of a message was sent: the message stays, or it is plain and the *)
(* next one is sent.                                                       *)
LEMMA TransmitPartCases ==
  ASSUME Base, TransmitPart
  PROVE  /\ \/ /\ Remains /\ pc' = "send" /\ JobOk(job', "send")
               /\ job'.todo = job.todo /\ job'.after = job.after
            \/ ~Head(job.todo).retried /\ SendNext
         /\ \E m \in Seq(Units) : Emit(m)
<1> DEFINE m    == Head(job.todo)
           todo == job.todo
<1>1. pc = "send" /\ JobOk(job, "send") /\ serving \in Clients
  BY DEF TransmitPart, Base, ServerOk
<1>2. /\ job \in Jobs /\ Len(job.args) <= 3 /\ todo \in Seq(Messages)
      /\ todo # <<>> /\ todo[Len(todo)].retried
      /\ job.after \in {"read", "exec", "exit", "abort"}
      /\ m \in Messages /\ m.msg \in Seq(Units)
  BY <1>1, HeadOk
<1>3. PICK n \in 1 .. Len(m.msg) - 1 :
        /\ Emit(SubSeq(m.msg, 1, n))
        /\ IF m.retried THEN Sending(job, <<m>> \o Tail(todo), job.after) ELSE SendNext
  BY DEF TransmitPart, Again
<1>4. <<m>> \o Tail(todo) = todo
  BY <1>2, AgainOk
<1>5. SubSeq(m.msg, 1, n) \in Seq(Units)
  <2> DEFINE s == m.msg
  <2>1. s \in Seq(Units) /\ n \in 1 .. Len(s) - 1 /\ Len(s) \in Nat
    BY <1>2, LenProperties
  <2> HIDE DEF s
  <2>2. \A i \in 1 .. n : s[i] \in Units
    BY <2>1, ElementOfSeq
  <2>3. 1 \in Int /\ n \in Int
    OBVIOUS
  <2>4. SubSeq(s, 1, n) \in Seq(Units)
    BY <2>2, <2>3, SubSeqProperties
  <2> QED
    BY <2>4 DEF s
<1>6. CASE m.retried
  <2>1. Sending(job, todo, job.after)
    BY <1>3, <1>4, <1>6
  <2>2. pc' = "send" /\ job' = Goes(job, todo, job.after) /\ Remains
    BY <2>1 DEF Sending, Stay, Goes, Remains
  <2> HIDE DEF todo
  <2>3. /\ JobOk(Goes(job, todo, job.after), "send")
        /\ Goes(job, todo, job.after).todo = todo
        /\ Goes(job, todo, job.after).after = job.after
    BY <1>2, SendingOk
  <2> QED
    BY <1>3, <1>5, <2>2, <2>3 DEF todo
<1>7. CASE ~m.retried
  BY <1>3, <1>5, <1>7
<1> QED
  BY <1>6, <1>7

LEMMA TransmitPartKeeps ==
  ASSUME Base, TransmitPart, UNCHANGED disk
  PROVE  Base'
<1>1. /\ pc \in Busy /\ JobOk(job, "send") /\ serving \in Clients
      /\ UNCHANGED <<peers, disk, moved>> /\ spoilt' \in SUBSET Clients
  BY DEF TransmitPart, Base, Busy, ServerOk, PeersOk
<1>2. PICK m \in Seq(Units) : Emit(m)
  BY TransmitPartCases
<1>3. Frame
  BY <1>1, <1>2, EmitFrame
<1>4. Moves
  BY <1>1, TransmitPartCases, SendNextMoves DEF Moves, Busy
<1> QED
  BY <1>1, <1>3, <1>4, ThreadKeeps

-----------------------------------------------------------------------------
(* What is appended to a sequence without repetitions, or taken from it.   *)
LEMMA SetAppend ==
  ASSUME NEW S, NEW s \in Seq(S), NEW x \in S
  PROVE  /\ Append(s, x) \in Seq(S)
         /\ ToSet(Append(s, x)) = ToSet(s) \cup {x}
         /\ (\A i, k \in 1 .. Len(s) : s[i] = s[k] => i = k) /\ x \notin ToSet(s) =>
              \A i, k \in 1 .. Len(Append(s, x)) :
                Append(s, x)[i] = Append(s, x)[k] => i = k
<1> DEFINE t == Append(s, x)
           n == Len(s)
<1>1. /\ t \in Seq(S) /\ Len(t) = n + 1 /\ n \in Nat
      /\ \A i \in 1 .. n : t[i] = s[i]
      /\ t[n + 1] = x
  BY AppendProperties, LenProperties
<1>2. /\ ToSet(s) = {s[i] : i \in 1 .. Len(s)} /\ ToSet(t) = {t[i] : i \in 1 .. Len(t)}
  BY <1>1 DEF ToSet
<1> HIDE DEF t
<1>3. ToSet(s) = {s[i] : i \in 1 .. n} /\ ToSet(t) = {t[i] : i \in 1 .. n + 1}
  BY <1>1, <1>2
<1> HIDE DEF n
<1>4. ToSet(t) \subseteq ToSet(s) \cup {x}
  <2>1. ASSUME NEW i \in 1 .. n + 1 PROVE t[i] \in ToSet(s) \cup {x}
    <3>1. i = n + 1 \/ i \in 1 .. n
      BY <1>1
    <3> QED
      BY <1>1, <1>3, <3>1
  <2> QED
    BY <1>3, <2>1
<1>5. ToSet(s) \cup {x} \subseteq ToSet(t)
  <2>1. n + 1 \in 1 .. n + 1 /\ \A i \in 1 .. n : i \in 1 .. n + 1
    BY <1>1
  <2> QED
    BY <1>1, <1>3, <2>1
<1>6. ASSUME \A i, k \in 1 .. n : s[i] = s[k] => i = k, x \notin ToSet(s),
             NEW i \in 1 .. n + 1, NEW k \in 1 .. n + 1, t[i] = t[k]
      PROVE  i = k
  <2>1. (i = n + 1 \/ i \in 1 .. n) /\ (k = n + 1 \/ k \in 1 .. n)
    BY <1>1
  <2>2. \A m \in 1 .. n : t[m] = s[m] /\ s[m] \in ToSet(s)
    BY <1>1, <1>3
  <2> QED
    BY <1>1, <1>6, <2>1, <2>2
<1> QED
  BY <1>1, <1>4, <1>5, <1>6 DEF t, n

LEMMA SetTail ==
  ASSUME NEW S, NEW s \in Seq(S), s # <<>>,
         \A i, k \in 1 .. Len(s) : s[i] = s[k] => i = k
  PROVE  /\ Tail(s) \in Seq(S) /\ Head(s) \in S
         /\ ToSet(s) = ToSet(Tail(s)) \cup {Head(s)} /\ Head(s) \notin ToSet(Tail(s))
         /\ \A i, k \in 1 .. Len(Tail(s)) : Tail(s)[i] = Tail(s)[k] => i = k
<1> DEFINE t == Tail(s)
           n == Len(s)
           h == Head(s)
<1>1. /\ t \in Seq(S) /\ Len(t) = n - 1 /\ n \in Nat \ {0} /\ h \in S /\ h = s[1]
      /\ \A i \in 1 .. Len(t) : t[i] = s[i + 1]
  BY HeadTailProperties, EmptySeq
<1> HIDE DEF t, h
<1>2. /\ ToSet(s) = {s[i] : i \in 1 .. Len(s)} /\ ToSet(t) = {t[i] : i \in 1 .. Len(t)}
  <2>1. DOMAIN s = 1 .. Len(s) /\ DOMAIN t = 1 .. Len(t)
    BY <1>1, LenProperties
  <2> QED
    BY <2>1 DEF ToSet
<1>3. /\ ToSet(s) = {s[i] : i \in 1 .. n} /\ ToSet(t) = {t[i] : i \in 1 .. n - 1}
      /\ \A i \in 1 .. n - 1 : t[i] = s[i + 1]
      /\ \A i, k \in 1 .. n : s[i] = s[k] => i = k
  BY <1>1, <1>2
<1> HIDE DEF n
<1>4. \A i \in 1 .. n - 1 : i + 1 \in 1 .. n /\ i + 1 # 1
  BY <1>1
<1>5. 1 \in 1 .. n /\ \A i \in 1 .. n : i = 1 \/ (i - 1 \in 1 .. n - 1 /\ (i - 1) + 1 = i)
  BY <1>1
<1>6. ToSet(t) \cup {h} \subseteq ToSet(s)
  BY <1>1, <1>3, <1>4, <1>5
<1>7. ToSet(s) \subseteq ToSet(t) \cup {h}
  <2>1. ASSUME NEW i \in 1 .. n PROVE s[i] \in ToSet(t) \cup {h}
    <3>1. CASE i = 1
      BY <1>1, <3>1
    <3>2. CASE i # 1
      <4>1. i - 1 \in 1 .. n - 1 /\ (i - 1) + 1 = i
        BY <1>5, <3>2
      <4>2. t[i - 1] = s[i]
        BY <1>3, <4>1
      <4> QED
        BY <1>3, <4>1, <4>2
    <3> QED
      BY <3>1, <3>2
  <2> QED
    BY <1>3, <2>1
<1>8. h \notin ToSet(t)
  <2>1. ASSUME NEW i \in 1 .. n - 1 PROVE t[i] # h
    BY <1>1, <1>3, <1>4, <1>5
  <2> QED
    BY <1>3, <2>1
<1>9. ASSUME NEW i \in 1 .. n - 1, NEW k \in 1 .. n - 1, t[i] = t[k] PROVE i = k
  <2>1. s[i + 1] = s[k + 1] /\ i + 1 \in 1 .. n /\ k + 1 \in 1 .. n
    BY <1>3, <1>4, <1>9
  <2>2. i + 1 = k + 1
    BY <1>3, <2>1
  <2> QED
    BY <2>2
<1>10. Len(t) = n - 1
  BY <1>1
<1> QED
  BY <1>1, <1>6, <1>7, <1>8, <1>9, <1>10 DEF t, h, n

-----------------------------------------------------------------------------
LEMMA DialKeeps ==
  ASSUME Base, NEW c \in Clients, Dial(c)
  PROVE  Base'
<1>1. /\ link[c] = "away" /\ link' = [link EXCEPT ![c] = "up"]
      /\ backlog' = Append(backlog, c) /\ Running
      /\ lines' = lines /\ in' = in /\ out' = out /\ closed' = closed /\ pc' = pc
      /\ serving' = serving /\ job' = job /\ moved' = moved /\ home' = home
      /\ store' = store /\ spoilt' = spoilt
  BY DEF Dial, server, disk
<1>2. backlog \in Seq(Clients) /\ Connected
  BY <1>1 DEF Base, PeersOk
<1>3. /\ backlog' \in Seq(Clients) /\ ToSet(backlog') = ToSet(backlog) \cup {c}
      /\ \A i, k \in 1 .. Len(backlog') : backlog'[i] = backlog'[k] => i = k
  BY <1>1, <1>2, SetAppend DEF Connected
<1>4. PeersOk' /\ ServerOk' /\ JobOk(job', pc')
  BY <1>1, <1>3 DEF Base, PeersOk, ServerOk
<1>5. \A d : Quiet(d)' <=> Quiet(d)
  BY <1>1 DEF Quiet
<1>6. Connected'
  BY <1>1, <1>2, <1>3, <1>5 DEF Connected, Base, PeersOk
<1> QED
  BY <1>4, <1>6 DEF Base

LEMMA SendKeeps ==
  ASSUME Base, NEW c \in Clients, NEW line \in Lines[c], Send(c, line)
  PROVE  Base'
<1>1. /\ link[c] = "up" /\ out[c] # <<>> /\ Len(lines[c]) < MaxLines[c] /\ Running
      /\ lines' = [lines EXCEPT ![c] = Append(@, line)]
      /\ in' = [in EXCEPT ![c] = @ \o line \o <<"CR", "LF">>]
      /\ spoilt' \in {spoilt, spoilt \cup {c}}
      /\ link' = link /\ backlog' = backlog /\ out' = out /\ closed' = closed /\ pc' = pc
      /\ serving' = serving /\ job' = job /\ moved' = moved /\ home' = home
      /\ store' = store
  BY DEF Send, CanSend, server, disk
<1>2. line \in Seq(Symbols)
  BY ServerAssumption
<1>3. /\ Append(lines[c], line) \in Seq(Seq(Symbols))
      /\ Len(Append(lines[c], line)) = Len(lines[c]) + 1 /\ Len(lines[c]) \in Nat
  BY <1>2, AppendProperties, LenProperties DEF Base, PeersOk
<1>4. in[c] \o line \o <<"CR", "LF">> \in Seq(Symbols)
  BY <1>2, LineEndType, ConcatProperties DEF Base, PeersOk
<1>5. PeersOk'
  <2>1. lines' \in [Clients -> Seq(Seq(Symbols))]
    BY <1>1, <1>3 DEF Base, PeersOk
  <2>2. in' \in [Clients -> Seq(Symbols)]
    BY <1>1, <1>4 DEF Base, PeersOk
  <2>3. MaxLines[c] \in Nat
    BY ServerAssumption
  <2>4. ASSUME NEW d \in Clients PROVE Len(lines'[d]) <= MaxLines[d]
    <3>1. CASE d = c
      <4>1. lines'[c] = Append(lines[c], line)
        BY <1>1 DEF Base, PeersOk
      <4> QED
        BY <1>1, <1>3, <2>3, <3>1, <4>1
    <3>2. CASE d # c
      BY <1>1, <3>2 DEF Base, PeersOk
    <3> QED
      BY <3>1, <3>2
  <2> QED
    BY <1>1, <2>1, <2>2, <2>4 DEF Base, PeersOk
<1>6. ServerOk' /\ JobOk(job', pc')
  BY <1>1 DEF Base, ServerOk
<1>7. Connected'
  <2>1. Connected /\ ToSet(backlog) \subseteq Clients
    BY <1>1 DEF Base, PeersOk, ToSet
  <2>2. ASSUME NEW d \in Clients, Quiet(d) PROVE Quiet(d)'
    <3>1. d # c
      BY <1>1, <2>2 DEF Quiet
    <3> QED
      BY <1>1, <2>2, <3>1 DEF Quiet, Base, PeersOk
  <2> QED
    BY <1>1, <2>1, <2>2 DEF Connected
<1> QED
  BY <1>5, <1>6, <1>7 DEF Base

LEMMA LeaveKeeps ==
  ASSUME Base, NEW c \in Clients, Leave(c)
  PROVE  Base'
<1>1. /\ link[c] = "up" /\ link' = [link EXCEPT ![c] = "gone"] /\ Running
      /\ \/ in' = in
         \/ out[c] # <<>> /\ \E line \in Torn : in' = [in EXCEPT ![c] = @ \o line]
      /\ spoilt' \in {spoilt, spoilt \cup {c}} /\ lines' = lines
      /\ backlog' = backlog /\ out' = out /\ closed' = closed /\ pc' = pc
      /\ serving' = serving /\ job' = job /\ moved' = moved /\ home' = home
      /\ store' = store
  BY DEF Leave, CanSend, server, disk
<1>2. in' \in [Clients -> Seq(Symbols)]
  <2>1. ASSUME NEW line \in Torn PROVE in[c] \o line \in Seq(Symbols)
    BY ServerAssumption, ConcatProperties DEF Base, PeersOk
  <2> QED
    BY <1>1, <2>1 DEF Base, PeersOk
<1>3. PeersOk'
  BY <1>1, <1>2 DEF Base, PeersOk
<1>4. ServerOk' /\ JobOk(job', pc')
  BY <1>1 DEF Base, ServerOk
<1>5. Connected'
  <2>1. Connected /\ ToSet(backlog) \subseteq Clients
    BY <1>1 DEF Base, PeersOk, ToSet
  <2>2. ASSUME NEW d \in Clients, Quiet(d) PROVE Quiet(d)'
    BY <1>1, <2>2 DEF Quiet, Base, PeersOk
  <2>3. ASSUME NEW d \in Clients, link'[d] = "away" PROVE link[d] = "away"
    BY <1>1, <2>3 DEF Base, PeersOk
  <2> QED
    BY <1>1, <2>1, <2>2, <2>3 DEF Connected
<1> QED
  BY <1>3, <1>4, <1>5 DEF Base

-----------------------------------------------------------------------------
(* What is accepted, and what is said to it.                               *)
LEMMA AcceptCases ==
  ASSUME Base, Accept
  PROVE  /\ serving' \in Clients /\ serving' = Head(backlog)
         /\ backlog' \in Seq(Clients)
         /\ ToSet(backlog) = ToSet(backlog') \cup {serving'}
         /\ serving' \notin ToSet(backlog')
         /\ \A i, k \in 1 .. Len(backlog') : backlog'[i] = backlog'[k] => i = k
         /\ pc' = "send" /\ JobOk(job', "send") /\ Owes(job'.todo) = AckMsg
         /\ job'.after = "read"
<1>1. /\ backlog \in Seq(Clients) /\ backlog # <<>> /\ pc = "accept" /\ Connected
  BY DEF Accept, Base, PeersOk, Running
<1>2. /\ backlog' = Tail(backlog) /\ pc' = "send" /\ serving' = Head(backlog)
      /\ job' = [Idle EXCEPT !.todo = <<Message(AckMsg)>>]
  BY DEF Accept
<1> DEFINE todo == <<Message(AckMsg)>>
<1>3. /\ todo \in Seq(Messages) /\ todo # <<>> /\ todo[Len(todo)].retried
      /\ Owes(todo) = AckMsg
  BY UnitsType, OneMessage
<1>4. Idle \in Jobs /\ Len(Idle.args) <= 3 /\ Idle.after = "read"
  BY IdleOk DEF JobOk, Labels, Idle
<1> HIDE DEF todo
<1>5. JobOk(Goes(Idle, todo, "read"), "send")
      /\ Goes(Idle, todo, "read").todo = todo /\ Goes(Idle, todo, "read").after = "read"
  BY <1>3, <1>4, SendingOk
<1> DEFINE j == [Idle EXCEPT !.todo = todo]
<1>6. j \in Jobs /\ j.after = "read" /\ j = job'
  BY <1>2, <1>3, <1>4 DEF Jobs, todo
<1>7. Goes(Idle, todo, "read") = [j EXCEPT !.after = "read"]
  BY DEF Goes
<1> HIDE DEF j
<1>8. [j EXCEPT !.after = "read"] = j
  BY <1>6 DEF Jobs
<1>9. JobOk(job', "send") /\ Owes(job'.todo) = AckMsg /\ job'.after = "read"
  BY <1>3, <1>5, <1>6, <1>7, <1>8
<1>10. \A i, k \in 1 .. Len(backlog) : backlog[i] = backlog[k] => i = k
  BY <1>1 DEF Connected
<1>11. /\ Tail(backlog) \in Seq(Clients) /\ Head(backlog) \in Clients
       /\ ToSet(backlog) = ToSet(Tail(backlog)) \cup {Head(backlog)}
       /\ Head(backlog) \notin ToSet(Tail(backlog))
       /\ \A i, k \in 1 .. Len(Tail(backlog)) :
             Tail(backlog)[i] = Tail(backlog)[k] => i = k
  BY <1>1, <1>10, SetTail
<1> QED
  BY <1>2, <1>9, <1>11

LEMMA AcceptKeeps ==
  ASSUME Base, Accept, UNCHANGED disk
  PROVE  Base'
<1>1. /\ pc = "accept" /\ link' = link /\ lines' = lines /\ in' = in /\ out' = out
      /\ closed' = closed /\ moved' = moved /\ spoilt' = spoilt /\ home' = home
      /\ store' = store
  BY DEF Accept, disk
<1>2. Connected /\ serving = NoClient
  BY <1>1 DEF Base, Running, ServerOk
<1> HIDE DEF Goes
<1>3. PeersOk' /\ ServerOk' /\ JobOk(job', pc')
  BY <1>1, AcceptCases, ServerAssumption DEF Base, PeersOk, ServerOk, Labels
<1>4. Connected'
  <2>1. /\ serving' \in Clients /\ ToSet(backlog) = ToSet(backlog') \cup {serving'}
        /\ serving' \notin ToSet(backlog')
        /\ \A i, k \in 1 .. Len(backlog') : backlog'[i] = backlog'[k] => i = k
    BY AcceptCases
  <2>2. ASSUME NEW d \in Clients, Quiet(d), d # serving' PROVE Quiet(d)'
    BY <1>1, <2>2 DEF Quiet
  <2>3. Quiet(serving')
    BY <1>2, <2>1 DEF Connected
  <2>4. serving' \notin closed' /\ link[serving'] # "away"
    BY <1>1, <1>2, <2>1, <2>3 DEF Quiet, Connected
  <2>5. ToSet(backlog) \subseteq Clients
    BY DEF Base, PeersOk, ToSet
  <2>6. ASSUME NEW d \in Clients, link'[d] = "away"
        PROVE  Quiet(d)' /\ d \notin ToSet(backlog')
    BY <1>1, <1>2, <2>1, <2>2, <2>4, <2>6 DEF Connected
  <2>7. \A d \in ToSet(backlog') : Quiet(d)'
    BY <1>2, <2>1, <2>2, <2>5 DEF Connected
  <2> QED
    BY <2>1, <2>4, <2>6, <2>7 DEF Connected
<1> QED
  BY <1>3, <1>4 DEF Base

LEMMA AcceptFailsKeeps ==
  ASSUME Base, AcceptFails, UNCHANGED disk
  PROVE  Base'
<1> DEFINE c == Head(backlog)
<1>1. /\ pc = "accept" /\ link' = link /\ lines' = lines /\ in' = in /\ out' = out
      /\ moved' = moved /\ spoilt' = spoilt \cup {c} /\ home' = home
      /\ store' = store /\ backlog' = Tail(backlog) /\ backlog # <<>>
      /\ \/ closed' = closed \cup {c} /\ pc' = pc /\ serving' = serving /\ job' = job
         \/ Crash
  BY DEF AcceptFails, disk
<1>2. Connected /\ serving = NoClient /\ backlog \in Seq(Clients)
  BY <1>1 DEF Base, Running, ServerOk, PeersOk
<1>3. /\ backlog' \in Seq(Clients) /\ c \in Clients
      /\ ToSet(backlog) = ToSet(backlog') \cup {c} /\ c \notin ToSet(backlog')
      /\ \A i, k \in 1 .. Len(backlog') : backlog'[i] = backlog'[k] => i = k
  BY <1>1, <1>2, SetTail DEF Connected
<1> HIDE DEF c
<1>4. PeersOk'
  BY <1>1, <1>3 DEF Base, PeersOk
<1>5. CASE closed' = closed \cup {c} /\ pc' = pc /\ serving' = serving /\ job' = job
  <2>1. ServerOk' /\ JobOk(job', pc')
    BY <1>1, <1>3, <1>5 DEF Base, ServerOk
  <2>2. ASSUME NEW d \in Clients, Quiet(d), d # c PROVE Quiet(d)'
    BY <1>1, <1>5, <2>2 DEF Quiet
  <2>3. link[c] # "away" /\ ToSet(backlog) \subseteq Clients
    <3>1. ToSet(backlog) \subseteq Clients
      BY <1>2 DEF ToSet
    <3>2. c \in ToSet(backlog)
      BY <1>3
    <3> QED
      BY <1>2, <1>3, <3>1, <3>2 DEF Connected
  <2>4. ASSUME NEW d \in Clients, link'[d] = "away"
        PROVE  Quiet(d)' /\ d \notin ToSet(backlog')
    BY <1>1, <1>2, <1>3, <2>2, <2>3, <2>4 DEF Connected
  <2>5. \A d \in ToSet(backlog') : Quiet(d)'
    BY <1>2, <1>3, <2>2, <2>3 DEF Connected
  <2>6. serving' \notin closed'
    BY <1>2, <1>3, <1>5, ServerAssumption DEF Connected
  <2>7. Connected'
    BY <1>3, <2>4, <2>5, <2>6 DEF Connected
  <2> QED
    BY <1>4, <2>1, <2>7 DEF Base
<1>6. CASE Crash
  <2>1. closed' = Clients /\ pc' = "dead" /\ serving' = NoClient /\ job' = Idle
    BY <1>6 DEF Crash
  <2>2. ServerOk' /\ ~Running' /\ JobOk(job', pc')
    BY <1>1, <2>1, IdleOk DEF Base, ServerOk, Running, Labels
  <2> QED
    BY <1>4, <2>2 DEF Base
<1> QED
  BY <1>1, <1>5, <1>6

LEMMA EditKeeps ==
  ASSUME Base, Edit
  PROVE  Base' /\ store' \in Stores
<1>1. /\ link' = link /\ lines' = lines /\ in' = in /\ backlog' = backlog /\ out' = out
      /\ closed' = closed /\ pc' = pc /\ serving' = serving /\ job' = job
      /\ moved' = moved /\ home' = home /\ Running
      /\ \E n \in FileNames, v \in Versions \cup {NoVersion} :
           store' = [store EXCEPT ![n] = v]
      /\ spoilt' = IF pc \in {"md5", "list"} THEN spoilt \cup {serving} ELSE spoilt
  BY DEF Edit, peers, server
<1>2. store' \in Stores
  BY <1>1 DEF Base, ServerOk, Stores
<1>3. spoilt' \subseteq Clients
  BY <1>1 DEF Base, PeersOk, ServerOk
<1>4. PeersOk' /\ ServerOk' /\ JobOk(job', pc')
  BY <1>1, <1>2, <1>3 DEF Base, PeersOk, ServerOk
<1>5. Connected'
  BY <1>1 DEF Base, Connected, Quiet
<1> QED
  BY <1>2, <1>4, <1>5 DEF Base

-----------------------------------------------------------------------------
LEMMA BaseKeeps ==
  ASSUME Base, [Next]_vars
  PROVE  Base'
<1>1. CASE UNCHANGED vars
  BY <1>1, BaseStutters
<1>2. CASE Server
  <2>1. UNCHANGED disk
    BY <1>2 DEF Server
  <2> QED
    BY <1>2, <2>1, AcceptKeeps, AcceptFailsKeeps, ReadKeeps, ExecuteKeeps, AnswerKeeps,
       TransmitKeeps, TransmitPartKeeps DEF Server
<1>3. CASE Edit
  BY <1>3, EditKeeps
<1>4. ASSUME NEW c \in Clients, Client(c) PROVE Base'
  BY <1>4, DialKeeps, LeaveKeeps, SendKeeps DEF Client
<1> QED
  BY <1>1, <1>2, <1>3, <1>4 DEF Next

LEMMA BaseAlways == Spec => []Base
BY BaseInit, BaseKeeps, PTL DEF Spec

(* The types of the server, for any clients, lines, files and directories. *)
THEOREM ServerTypeOK == Spec => []TypeOK
<1>1. Base => TypeOK
  <2> SUFFICES ASSUME Base PROVE TypeOK
    OBVIOUS
  <2>1. job \in Jobs /\ Len(job.args) <= 3 /\ (job.todo # <<>> <=> pc = "send")
    BY DEF Base, JobOk
  <2>2. /\ job.stat \in Versions \cup {NoVersion} /\ job.after \in {"read", "exec", "exit", "abort"}
        /\ job.todo \in Seq(Messages)
    BY <2>1 DEF Jobs
  <2>3. \A k \in DOMAIN job.todo : job.todo[k].msg # <<>>
    <3>1. ASSUME NEW k \in 1 .. Len(job.todo) PROVE job.todo[k] \in Messages
      BY <2>2, ElementOfSeq
    <3>2. DOMAIN job.todo = 1 .. Len(job.todo)
      BY <2>2, LenProperties
    <3> QED
      BY <3>1, <3>2 DEF Messages
  <2>4. serving \notin closed
    <3>1. CASE Running
      BY <3>1 DEF Base, Connected
    <3>2. CASE ~Running
      BY <3>2, ServerAssumption DEF Base, ServerOk, Running
    <3> QED
      BY <3>1, <3>2
  <2> QED
    BY <2>1, <2>2, <2>3, <2>4 DEF TypeOK, Base, PeersOk, ServerOk, Labels
<1> QED
  BY <1>1, BaseAlways, PTL

(***************************************************************************)
(* What CgymService sees of a state of the server, under names.            *)
(***************************************************************************)
Ending   == pc = "send" /\ job.after = "exit"
Accepted == {c \in Clients : link[c] # "away" /\ c \notin ToSet(backlog)}
Left     == {c \in Clients : link[c] = "gone"}
Asked    == [c \in Clients |-> Kept(c, [k \in DOMAIN lines[c] |-> Meaning(lines[c][k])])]
Answered == [c \in Clients |->
               IF c \in spoilt THEN 0
               ELSE Len(lines[c]) - Unread(c) - (IF Answering(c) THEN 1 ELSE 0)]
Answers  == [c \in Clients |-> Kept(c, out[c] \o Owed(c))]
Lost     == home = "relative" /\ moved /\ pc # "list"

SameRequests == Asked' = Asked /\ Answered' = Answered /\ Answers' = Answers
SameLost     == Lost' <=> Lost

Excused(c) ==
  /\ spoilt' = spoilt \cup {c}
  /\ Asked' = [Asked EXCEPT ![c] = <<>>]
  /\ Answered' = [Answered EXCEPT ![c] = 0]
  /\ Answers' = [Answers EXCEPT ![c] = <<>>]

LEMMA LikeInit ==
  ASSUME Running, serving = NoClient, ~Ending, Accepted = {}, Left = {}, spoilt = {},
         Asked = [c \in Clients |-> <<>>], Answered = [c \in Clients |-> 0],
         Answers = [c \in Clients |-> <<>>], store \in Stores, ~Lost
  PROVE  Service!Init
<1>1. Service!Stores = Stores
  BY DEF Service!Stores, Stores, Service!FileNames, FileNames, Service!Entries, Entries,
         Service!Join, Join, Service!ToSet, ToSet
<1> QED
  BY <1>1 DEF Service!Init, Service!NoRequests, Ending, Accepted, Left, Asked, Answered,
              Answers, Lost

LEMMA LikeStutter ==
  ASSUME Running' <=> Running, serving' = serving, Ending' <=> Ending,
         Accepted' = Accepted, Left' = Left, spoilt' = spoilt, SameRequests,
         store' = store, SameLost
  PROVE  UNCHANGED Service!serviceVars
BY DEF Service!serviceVars, Ending, Accepted, Left, Asked, Answered, Answers, Lost,
       SameRequests, SameLost

LEMMA LikeAccept ==
  ASSUME NEW c \in Clients, Running, Running', serving = NoClient, serving' = c,
         c \notin Accepted, Accepted' = Accepted \cup {c}, Ending' <=> Ending,
         Left' = Left, spoilt' = spoilt, Asked' = Asked, Answered' = Answered,
         Answers' = IF c \in spoilt THEN Answers ELSE [Answers EXCEPT ![c] = @ \o AckMsg],
         store' = store, SameLost
  PROVE  Service!Next
<1>1. Service!Say(c, Service!AckMsg)
  BY SameMessages DEF Service!Say, Answers
<1>2. Service!Accept(c)
  BY <1>1 DEF Service!Accept, Service!files, Accepted, Ending, Left, Asked, Answered, Lost,
              SameLost
<1> QED
  BY <1>2 DEF Service!Next

LEMMA LikeExcuse ==
  ASSUME NEW c, Excused(c)
  PROVE  Service!Excuse(c)
BY DEF Excused, Service!Excuse, Asked, Answered, Answers

LEMMA LikeExcuseServing == Excused(serving) => Service!Excuse(serving)
BY DEF Excused, Service!Excuse, Asked, Answered, Answers

LEMMA LikeRefuse ==
  ASSUME NEW c \in Clients, Running, serving = NoClient, serving' = NoClient,
         c \notin Accepted, Accepted' = Accepted \cup {c}, Ending' <=> Ending,
         Left' = Left, Excused(c), store' = store, SameLost
  PROVE  Service!Next
<1>1. Running' \in BOOLEAN
  BY DEF Running
<1>2. Service!Refuse(c)
  BY <1>1, LikeExcuse DEF Service!Refuse, Service!files, Accepted, Ending, Left, Lost, SameLost
<1> QED
  BY <1>2 DEF Service!Next

LEMMA LikeAsk ==
  ASSUME NEW c \in Clients, NEW r \in Asks, Running, Running', c \notin Left, c \notin spoilt,
         Asked' = [Asked EXCEPT ![c] = Append(@, r)], Answered' = Answered,
         Answers' = Answers, serving' = serving, Ending' <=> Ending, Accepted' = Accepted,
         Left' = Left, spoilt' = spoilt, store' = store, SameLost
  PROVE  Service!Next
<1>1. Service!Ask(c, r)
  BY DEF Service!Ask, Service!files, Asked, Answered, Answers, Ending, Accepted, Left, Lost,
         SameLost
<1> QED
  BY <1>1 DEF Service!Next, Asks

LEMMA LikeMisserve ==
  ASSUME serving \in Clients, serving \in spoilt, Running, Running', serving' = serving,
         Lost => Lost', Accepted' = Accepted, Left' = Left, spoilt' = spoilt, SameRequests,
         store' = store
  PROVE  Service!Next
<1>1. Ending' \in BOOLEAN /\ (Lost' = Lost \/ Lost' = TRUE)
  BY DEF Ending, Lost
<1>2. Service!Misserve(serving)
  BY <1>1 DEF Service!Misserve, Service!clients, Service!requests, Ending, Lost, Accepted,
              Left, SameRequests, Asked, Answered, Answers
<1> QED
  BY <1>2 DEF Service!Next

LEMMA LikeClose ==
  ASSUME serving \in Clients, Running, Running',
         Ending \/ serving \in Left \cup spoilt, serving' = NoClient, ~Ending',
         Accepted' = Accepted, Left' = Left, spoilt' = spoilt, SameRequests,
         store' = store, SameLost
  PROVE  Service!Next
<1>1. Service!Close(serving)
  BY DEF Service!Close, Service!clients, Service!requests, Service!files, Ending, Lost,
         SameLost, Accepted, Left, SameRequests, Asked, Answered, Answers
<1> QED
  BY <1>1 DEF Service!Next

LEMMA LikeLeave ==
  ASSUME NEW c \in Clients, Running, Running', c \notin Left, Left' = Left \cup {c},
         (spoilt' = spoilt /\ SameRequests) \/ Excused(c), serving' = serving,
         Ending' <=> Ending, Accepted' = Accepted, store' = store, SameLost
  PROVE  Service!Next
<1>1. \/ spoilt' = spoilt /\ UNCHANGED Service!requests
      \/ Service!Excuse(c)
  BY LikeExcuse DEF SameRequests, Service!requests, Asked, Answered, Answers
<1>2. Service!Leave(c)
  BY <1>1 DEF Service!Leave, Service!files, Left, Ending, Accepted, Lost, SameLost
<1> QED
  BY <1>2 DEF Service!Next

LEMMA LikeOffend ==
  ASSUME NEW c \in Clients, Running, Running', Excused(c), serving' = serving,
         Ending' <=> Ending, Accepted' = Accepted, Left' = Left, store' = store, SameLost
  PROVE  Service!Next
<1>1. Service!Offend(c)
  BY LikeExcuse DEF Service!Offend, Service!files, Ending, Accepted, Left, Lost, SameLost
<1> QED
  BY <1>1 DEF Service!Next

LEMMA LikeEdit ==
  ASSUME Running, Running', store' \in Stores,
         \/ spoilt' = spoilt /\ SameRequests
         \/ /\ serving # NoClient /\ Answered[serving] < Len(Asked[serving])
            /\ Excused(serving),
         serving' = serving, Ending' <=> Ending, Accepted' = Accepted, Left' = Left, SameLost
  PROVE  Service!Next
<1>1. Service!Stores = Stores
  BY DEF Service!Stores, Stores, Service!FileNames, FileNames, Service!Entries, Entries,
         Service!Join, Join, Service!ToSet, ToSet
<1>2. \/ spoilt' = spoilt /\ UNCHANGED Service!requests
      \/ /\ serving # NoClient /\ Answered[serving] < Len(Asked[serving])
         /\ Service!Excuse(serving)
  <2>1. Excused(serving) => Service!Excuse(serving)
    BY LikeExcuseServing
  <2>2. SameRequests => UNCHANGED Service!requests
    BY DEF SameRequests, Service!requests, Asked, Answered, Answers
  <2> QED
    BY <2>1, <2>2
<1>3. Service!Edit
  BY <1>1, <1>2 DEF Service!Edit, Ending, Accepted, Left, Lost, SameLost, Asked, Answered
<1> QED
  BY <1>3 DEF Service!Next

LEMMA LikeDie ==
  ASSUME Running, ~Running', serving \in spoilt, serving' = NoClient, ~Ending',
         Accepted' = Accepted, Left' = Left, spoilt' = spoilt, SameRequests,
         store' = store, SameLost
  PROVE  Service!Next
<1>1. Service!Die
  BY DEF Service!Die, Service!clients, Service!requests, Service!files, Ending, Lost,
         SameLost, Accepted, Left, SameRequests, Asked, Answered, Answers
<1> QED
  BY <1>1 DEF Service!Next

(* An answer, and what it is.                                              *)
LEMMA LikeAnswer ==
  ASSUME NEW c \in Clients, c = serving, c \notin spoilt, Running, Running', ~Ending,
         Answered[c] < Len(Asked[c]),
         Answered' = [Answered EXCEPT ![c] = @ + 1],
         NEW r, r = Asked[c][Answered[c] + 1],
         NEW msg, msg = IF Lost THEN ErrMsg ELSE Reply(r, store),
         r.op # "quit", serving' = serving,
         Answers' = [Answers EXCEPT ![c] = @ \o msg],
         Ending' <=> msg = ErrMsg,
         SameLost \/ (r.op = "list" /\ msg # ErrMsg /\ ~Lost),
         Accepted' = Accepted, Left' = Left, spoilt' = spoilt, Asked' = Asked, store' = store
  PROVE  Service!Next
<1>1. msg = IF Lost THEN Service!ErrMsg ELSE Service!Reply(r, store)
  BY SameMessages, SameReply
<1>2. Lost' \in IF r.op = "list" /\ msg # ErrMsg THEN {Lost, TRUE} ELSE {Lost}
  BY DEF Lost, SameLost
<1>3. Ending' = (msg = ErrMsg)
  BY DEF Ending
<1>4. Service!Answer(c)
  BY <1>1, <1>2, <1>3, SameMessages DEF Service!Answer, Ending, Lost, Accepted, Left, Asked,
     Answered, Answers
<1> QED
  BY <1>4 DEF Service!Next

LEMMA LikeQuit ==
  ASSUME NEW c \in Clients, c = serving, c \notin spoilt, Running, Running', ~Ending, ~Ending',
         Answered[c] < Len(Asked[c]),
         Answered' = [Answered EXCEPT ![c] = @ + 1],
         Asked[c][Answered[c] + 1].op = "quit", serving' = NoClient,
         Answers' = Answers, SameLost,
         Accepted' = Accepted, Left' = Left, spoilt' = spoilt, Asked' = Asked, store' = store
  PROVE  Service!Next
<1>1. Service!Answer(c)
  BY DEF Service!Answer, Ending, Lost, SameLost, Accepted, Left, Asked, Answered, Answers
<1> QED
  BY <1>1 DEF Service!Next

(***************************************************************************)
(* The inductive invariant: of a client that is not spoilt, the server has *)
(* read so many lines, and the others are what it has still to read; when  *)
(* it answers one, the job is what that line asks for.                     *)
(***************************************************************************)
NumRead(c) == Len(lines[c]) - Unread(c)

Understood(c) ==
  /\ \A k \in 1 .. Len(lines[c]) : lines[c][k] \in Lines[c] /\ Speaks(lines[c][k])
  /\ NumRead(c) \in 0 .. Len(lines[c])
  /\ in[c] = Sent(SubSeq(lines[c], NumRead(c) + 1, Len(lines[c])))
  /\ link[c] = "gone" => \/ c \in closed
                         \/ c = serving /\ pc = "read" /\ in[c] = <<>>

(* The line that is answered.                                              *)
Current == lines[serving][NumRead(serving)]

(* A file that stat() has found is still there, and can be opened.          *)
StillThere == job.stat # NoVersion => NextName \notin Unreadable /\ job.stat = Held(store, NextName)

Understanding ==
  /\ pc \in {"exec", "md5", "list"} =>
       /\ NumRead(serving) # 0
       /\ job.command = <<Current[1]>> /\ job.args = Arguments(Current)
  /\ pc = "md5" => /\ job.command = <<"SIZE">> /\ job.stat = Lookup(job.args[1])
                   /\ job.args[1] \notin Unreadable
  /\ pc = "list" => /\ job.command = <<"LIST">> /\ StillThere
                    /\ job.items = Found(store, Denoted(job.args[1]))[Looked(job)]
  /\ pc = "send" => job.after \notin {"exec", "abort"}

Understands ==
  /\ \A c \in Clients \ spoilt : Understood(c)
  /\ serving \in Clients \ spoilt => Understanding

IInv == Base /\ (Running => Understands)

(* What CgymService keeps of a client that is not excused.                 *)
Given(c) == Len(lines[c]) - Unread(c) - (IF Answering(c) THEN 1 ELSE 0)
Told(c)  == out[c] \o Owed(c)

SameFor(c) == lines'[c] = lines[c] /\ Given(c)' = Given(c) /\ Told(c)' = Told(c)

LEMMA KeptSame ==
  ASSUME spoilt' = spoilt, \A c \in Clients \ spoilt : SameFor(c)
  PROVE  SameRequests
<1>1. ASSUME NEW c \in Clients, c \notin spoilt
      PROVE  lines'[c] = lines[c] /\ Given(c)' = Given(c) /\ Told(c)' = Told(c)
  BY <1>1 DEF SameFor
<1>2. Asked' = Asked
  BY <1>1 DEF Asked, Kept
<1>3. Answered' = Answered
  BY <1>1 DEF Answered, Given
<1>4. Answers' = Answers
  BY <1>1 DEF Answers, Told, Kept
<1> QED
  BY <1>2, <1>3, <1>4 DEF SameRequests

LEMMA KeptExcused ==
  ASSUME NEW c \in Clients, spoilt' = spoilt \cup {c},
         \A d \in Clients \ (spoilt \cup {c}) : SameFor(d)
  PROVE  Excused(c)
<1>1. ASSUME NEW d \in Clients, d \notin spoilt', d # c
      PROVE  lines'[d] = lines[d] /\ Given(d)' = Given(d) /\ Told(d)' = Told(d)
  BY <1>1 DEF SameFor
<1>2. Asked' = [Asked EXCEPT ![c] = <<>>]
  <2>1. ASSUME NEW d \in Clients PROVE Asked'[d] = [Asked EXCEPT ![c] = <<>>][d]
    BY <1>1 DEF Asked, Kept
  <2> QED
    BY <2>1 DEF Asked
<1>3. Answered' = [Answered EXCEPT ![c] = 0]
  <2>1. ASSUME NEW d \in Clients PROVE Answered'[d] = [Answered EXCEPT ![c] = 0][d]
    BY <1>1 DEF Answered, Given
  <2> QED
    BY <2>1 DEF Answered
<1>4. Answers' = [Answers EXCEPT ![c] = <<>>]
  <2>1. ASSUME NEW d \in Clients PROVE Answers'[d] = [Answers EXCEPT ![c] = <<>>][d]
    BY <1>1 DEF Answers, Told, Kept
  <2> QED
    BY <2>1 DEF Answers
<1> QED
  BY <1>2, <1>3, <1>4 DEF Excused

LEMMA KeptAnswered ==
  ASSUME NEW c \in Clients, c \notin spoilt, spoilt' = spoilt, NEW msg,
         \A d \in Clients \ spoilt : d # c => SameFor(d),
         lines'[c] = lines[c], Given(c)' = Given(c) + 1, Told(c)' = Told(c) \o msg
  PROVE  /\ Asked' = Asked /\ Answered' = [Answered EXCEPT ![c] = @ + 1]
         /\ Answers' = [Answers EXCEPT ![c] = @ \o msg]
<1>1. ASSUME NEW d \in Clients, d \notin spoilt, d # c
      PROVE  lines'[d] = lines[d] /\ Given(d)' = Given(d) /\ Told(d)' = Told(d)
  BY <1>1 DEF SameFor
<1>2. Asked' = Asked
  BY <1>1 DEF Asked, Kept
<1>3. Answered' = [Answered EXCEPT ![c] = @ + 1]
  <2>1. ASSUME NEW d \in Clients PROVE Answered'[d] = [Answered EXCEPT ![c] = @ + 1][d]
    BY <1>1 DEF Answered, Given
  <2> QED
    BY <2>1 DEF Answered
<1>4. Answers' = [Answers EXCEPT ![c] = @ \o msg]
  <2>1. ASSUME NEW d \in Clients PROVE Answers'[d] = [Answers EXCEPT ![c] = @ \o msg][d]
    BY <1>1 DEF Answers, Told, Kept
  <2> QED
    BY <2>1 DEF Answers
<1> QED
  BY <1>2, <1>3, <1>4

(* Who is not served is told nothing.                                      *)
LEMMA OtherSame ==
  ASSUME NEW c, c # serving, c # serving', lines'[c] = lines[c], in'[c] = in[c],
         out'[c] = out[c]
  PROVE  SameFor(c)
<1>1. Unread(c)' = Unread(c) /\ ~Answering(c) /\ ~Answering(c)'
  BY DEF Unread, Answering, Positions
<1>2. Owed(c) = <<>> /\ Owed(c)' = <<>>
  BY DEF Owed
<1> QED
  BY <1>1, <1>2 DEF SameFor, Given, Told

LEMMA OwedServing ==
  ASSUME NEW c, c = serving PROVE Owed(c) = Owes(job.todo)
BY DEF Owed, Owes, Texts

LEMMA OwedNext ==
  ASSUME NEW c, c = serving' PROVE Owed(c)' = Owes(job'.todo)
BY DEF Owed, Owes, Texts

LEMMA NumReadSame ==
  ASSUME NEW c, lines'[c] = lines[c], in'[c] = in[c]
  PROVE  NumRead(c)' = NumRead(c) /\ Unread(c)' = Unread(c)
BY DEF NumRead, Unread, Positions

LEMMA UnderstoodStays ==
  ASSUME NEW c, Understood(c), lines'[c] = lines[c], in'[c] = in[c],
         link'[c] = "gone" => \/ c \in closed'
                              \/ c = serving' /\ pc' = "read" /\ in[c] = <<>>
  PROVE  Understood(c)'
BY NumReadSame DEF Understood

(* A client that is not spoilt is there while it is answered.              *)
LEMMA ServedIsThere ==
  ASSUME IInv, pc \in Busy \ {"read"}, serving \notin spoilt
  PROVE  /\ serving \in Clients /\ Understood(serving) /\ Understanding
         /\ link[serving] # "gone"
<1>1. serving \in Clients /\ Running
  BY DEF IInv, Base, ServerOk, Labels, Busy, Running
<1>2. Understands /\ Connected
  BY <1>1 DEF IInv, Base
<1>3. Understood(serving) /\ Understanding
  BY <1>1, <1>2 DEF Understands
<1>4. serving \notin closed /\ pc # "read"
  BY <1>2 DEF Connected
<1> QED
  BY <1>1, <1>3, <1>4 DEF Understood

LEMMA BusyServes ==
  ASSUME Base, pc \in Busy
  PROVE  /\ serving \in Clients /\ serving # NoClient /\ Running /\ Connected
         /\ link[serving] # "away" /\ serving \notin ToSet(backlog)
<1>1. serving \in Clients /\ serving # NoClient /\ Running /\ Connected
  BY ServerAssumption DEF Base, ServerOk, Labels, Busy, Running
<1> QED
  BY <1>1 DEF Connected, Quiet

(* The other clients, in a step of the thread.                             *)
LEMMA OthersStay ==
  ASSUME IInv, pc \in Busy, UNCHANGED <<link, lines, backlog>>, closed \subseteq closed',
         serving' \in {serving, NoClient},
         \A c \in Clients \ {serving} : in'[c] = in[c] /\ out'[c] = out[c]
  PROVE  /\ \A c \in Clients \ spoilt : c # serving => Understood(c)'
         /\ \A c \in Clients : c # serving => SameFor(c)
         /\ Accepted' = Accepted /\ Left' = Left
<1>1. Running /\ serving # NoClient /\ serving \in Clients
  BY BusyServes DEF IInv
<1>2. Understands
  BY <1>1 DEF IInv
<1>3. ASSUME NEW c \in Clients \ spoilt, c # serving PROVE Understood(c)'
  <2>1. Understood(c) /\ lines'[c] = lines[c] /\ in'[c] = in[c] /\ link'[c] = link[c]
    BY <1>2, <1>3 DEF Understands
  <2>2. link'[c] = "gone" => c \in closed'
    BY <1>3, <2>1 DEF Understood
  <2> QED
    BY <2>1, <2>2, UnderstoodStays
<1>4. ASSUME NEW c \in Clients, c # serving PROVE SameFor(c)
  <2>1. c # serving'
    BY <1>4, ServerAssumption
  <2>2. lines'[c] = lines[c] /\ in'[c] = in[c] /\ out'[c] = out[c]
    BY <1>4
  <2> QED
    BY <1>4, <2>1, <2>2, OtherSame
<1>5. Accepted' = Accepted /\ Left' = Left
  BY DEF Accepted, Left
<1> QED
  BY <1>3, <1>4, <1>5

-----------------------------------------------------------------------------
(* What is to be shown of each step.                                       *)
Served ==
  /\ Running' => Understands'
  /\ Service!Next \/ UNCHANGED Service!serviceVars

LEMMA FrameParts ==
  ASSUME Base, pc \in Busy, Frame
  PROVE  /\ UNCHANGED <<link, lines, backlog>> /\ store' = store /\ home' = home
         /\ \A c \in Clients \ {serving} : in'[c] = in[c] /\ out'[c] = out[c]
BY DEF Frame, Base, PeersOk, ServerOk, disk

LEMMA MovesParts ==
  ASSUME Base, pc \in Busy, Moves
  PROVE  closed \subseteq closed' /\ serving' \in {serving, NoClient}
<1>1. closed \subseteq Clients
  BY DEF Base, ServerOk
<1> QED
  BY <1>1 DEF Moves, EndThread, Crash, Remains

LEMMA NotListing ==
  ASSUME moved' = moved, home' = home, pc # "list", pc' # "list"
  PROVE  SameLost
BY DEF SameLost, Lost

(* A client that is spoilt is served as it may be.                         *)
LEMMA ServedSpoilt ==
  ASSUME IInv, pc \in Busy, serving \in spoilt, Moves, Frame, spoilt' = spoilt,
         Lost => Lost', EndThread \/ Crash => SameLost
  PROVE  Served
<1>1. /\ serving \in Clients /\ serving # NoClient /\ Running /\ Base
  BY BusyServes DEF IInv
<1>2. /\ \A c \in Clients \ spoilt : c # serving => Understood(c)'
      /\ \A c \in Clients : c # serving => SameFor(c)
      /\ Accepted' = Accepted /\ Left' = Left /\ store' = store
  BY <1>1, FrameParts, MovesParts, OthersStay
<1>3. Understands'
  <2>1. serving' \notin Clients \ spoilt
    BY <1>1, MovesParts, ServerAssumption
  <2>2. \A c \in Clients \ spoilt : c # serving
    OBVIOUS
  <2> QED
    BY <1>2, <2>1, <2>2 DEF Understands
<1>4. SameRequests
  BY <1>2, KeptSame
<1>5. CASE EndThread
  <2>1. pc' = "accept" /\ serving' = NoClient
    BY <1>5 DEF EndThread
  <2>2. Running' /\ ~Ending' /\ SameLost
    BY <1>5, <2>1 DEF Running, Ending
  <2>3. Service!Next
    BY <1>1, <1>2, <1>4, <2>1, <2>2, LikeClose
  <2> QED
    BY <1>3, <2>3 DEF Served
<1>6. CASE Crash
  <2>1. pc' = "dead" /\ serving' = NoClient
    BY <1>6 DEF Crash
  <2>2. ~Running' /\ ~Ending' /\ SameLost
    BY <1>6, <2>1 DEF Running, Ending
  <2>3. Service!Next
    BY <1>1, <1>2, <1>4, <2>1, <2>2, LikeDie
  <2> QED
    BY <2>2, <2>3 DEF Served
<1>7. CASE Remains /\ pc' \in Busy
  <2>1. serving' = serving /\ Running'
    BY <1>7 DEF Remains, Running, Busy
  <2>2. Service!Next
    BY <1>1, <1>2, <1>4, <2>1, LikeMisserve
  <2> QED
    BY <1>3, <2>2 DEF Served
<1> QED
  BY <1>5, <1>6, <1>7 DEF Moves

(* A client that is not spoilt, when the thread goes on and nothing is     *)
(* answered.                                                               *)
LEMMA ServedOn ==
  ASSUME IInv, NEW c \in Clients, c = serving, c \notin spoilt, pc \in Busy, pc' \in Busy,
         Remains, Frame, spoilt' = spoilt,
         Understood(c)', Understanding', SameFor(c), Ending' <=> Ending, SameLost
  PROVE  Served
<1>1. Running /\ Base /\ Running' /\ serving' = serving /\ closed' = closed
  BY BusyServes DEF IInv, Remains, Running, Busy
<1>2. /\ \A d \in Clients \ spoilt : d # serving => Understood(d)'
      /\ \A d \in Clients : d # serving => SameFor(d)
      /\ Accepted' = Accepted /\ Left' = Left /\ store' = store
  BY <1>1, FrameParts, OthersStay
<1>3. SameRequests
  <2>1. \A d \in Clients \ spoilt : SameFor(d)
    BY <1>2
  <2> QED
    BY <2>1, KeptSame
<1>4. UNCHANGED Service!serviceVars
  BY <1>1, <1>2, <1>3, LikeStutter
<1>5. Understands'
  <2>1. \A d \in Clients \ spoilt : Understood(d)'
    BY <1>2
  <2> QED
    BY <2>1 DEF Understands
<1> QED
  BY <1>4, <1>5 DEF Served

(* The same when its connection is closed.                                 *)
LEMMA ServedClosed ==
  ASSUME IInv, NEW c \in Clients, c = serving, c \notin spoilt, pc \in Busy,
         EndThread, Frame, spoilt' = spoilt, in'[c] = in[c],
         SameFor(c), Ending \/ c \in Left, SameLost
  PROVE  Served
<1>1. /\ Running /\ Base /\ pc' = "accept" /\ serving' = NoClient
      /\ closed' = closed \cup {serving}
  BY BusyServes DEF IInv, EndThread
<1>2. Running' /\ ~Ending'
  BY <1>1 DEF Running, Ending
<1>3. /\ \A d \in Clients \ spoilt : d # serving => Understood(d)'
      /\ \A d \in Clients : d # serving => SameFor(d)
      /\ Accepted' = Accepted /\ Left' = Left /\ store' = store
      /\ lines' = lines
  BY <1>1, FrameParts, OthersStay
<1>4. SameRequests
  <2>1. \A d \in Clients \ spoilt : SameFor(d)
    BY <1>3
  <2> QED
    BY <2>1, KeptSame
<1>5. Service!Next
  BY <1>1, <1>2, <1>3, <1>4, LikeClose
<1>6. Understood(c)'
  <2>1. Understood(c)
    BY <1>1 DEF IInv, Understands
  <2> QED
    BY <1>1, <1>3, <2>1, UnderstoodStays
<1>7. Understands'
  <2>1. \A d \in Clients \ spoilt : Understood(d)'
    BY <1>3, <1>6
  <2>2. serving' \notin Clients
    BY <1>1, ServerAssumption
  <2> QED
    BY <2>1, <2>2 DEF Understands
<1> QED
  BY <1>5, <1>7 DEF Served

-----------------------------------------------------------------------------
LEMMA AskedIs ==
  ASSUME PeersOk, NEW c \in Clients, c \notin spoilt
  PROVE  /\ Asked[c] = [k \in 1 .. Len(lines[c]) |-> Meaning(lines[c][k])]
         /\ Len(Asked[c]) = Len(lines[c]) /\ Len(lines[c]) \in Nat
         /\ \A k \in 1 .. Len(lines[c]) : Asked[c][k] = Meaning(lines[c][k])
<1>1. lines[c] \in Seq(Seq(Symbols))
  BY DEF PeersOk
<1>2. DOMAIN lines[c] = 1 .. Len(lines[c]) /\ Len(lines[c]) \in Nat
  BY <1>1, LenProperties
<1>3. Asked[c] = [k \in 1 .. Len(lines[c]) |-> Meaning(lines[c][k])]
  BY <1>2 DEF Asked, Kept
<1>4. Len(Asked[c]) = Len(lines[c])
  BY <1>2, <1>3
<1> QED
  BY <1>2, <1>3, <1>4

(* The client that is answered, and the line.                              *)
AnswerLabels == {"exec", "md5", "list"}

LEMMA AnswersCurrent ==
  ASSUME IInv, NEW c \in Clients, c = serving, c \notin spoilt, pc \in AnswerLabels
  PROVE  /\ Understood(c) /\ Understanding /\ link[c] # "gone"
         /\ NumRead(c) \in 1 .. Len(lines[c])
         /\ Current = lines[c][NumRead(c)] /\ Current \in Seq(Symbols)
         /\ Current \in Lines[c] /\ Speaks(Current)
         /\ job.command = <<Current[1]>> /\ job.args = Arguments(Current)
         /\ Given(c) = NumRead(c) - 1
         /\ Answered[c] = NumRead(c) - 1 /\ Len(Asked[c]) = Len(lines[c])
         /\ Asked[c][Answered[c] + 1] = Meaning(Current)
         /\ Told(c) = out[c] /\ out[c] \in Seq(Units) /\ job.todo = <<>>
<1>1. pc \in Busy \ {"read"} /\ Base /\ PeersOk /\ ServerOk /\ JobOk(job, pc) /\ pc # "send"
  BY DEF AnswerLabels, Busy, IInv, Base
<1>2. Understood(c) /\ Understanding /\ link[c] # "gone"
  BY <1>1, ServedIsThere
<1>3. /\ Len(lines[c]) \in Nat /\ Len(Asked[c]) = Len(lines[c])
      /\ \A k \in 1 .. Len(lines[c]) : Asked[c][k] = Meaning(lines[c][k])
  BY <1>1, AskedIs
<1>4. NumRead(c) \in 0 .. Len(lines[c]) /\ NumRead(c) # 0 /\ Current = lines[c][NumRead(c)]
  BY <1>2 DEF Understood, Understanding, AnswerLabels, Current
<1>5. NumRead(c) \in 1 .. Len(lines[c])
  BY <1>3, <1>4
<1>6. Current \in Lines[c] /\ Speaks(Current)
  BY <1>2, <1>4, <1>5 DEF Understood
<1>7. Current \in Seq(Symbols)
  BY <1>6, ServerAssumption
<1>8. Answering(c)
  BY DEF Answering, AnswerLabels
<1>9. Given(c) = NumRead(c) - 1
  BY <1>8 DEF Given, NumRead
<1>10. Answered[c] = NumRead(c) - 1
  BY <1>9 DEF Answered, Given
<1>11. Asked[c][Answered[c] + 1] = Meaning(Current)
  <2>1. Answered[c] + 1 = NumRead(c)
    BY <1>4, <1>3, <1>10
  <2> QED
    BY <1>3, <1>4, <1>5, <2>1
<1>12. job.todo = <<>> /\ out[c] \in Seq(Units)
  BY <1>1 DEF JobOk, ServerOk
<1>13. Told(c) = out[c]
  <2>1. Owed(c) = <<>>
    BY <1>12, OwedServing, OwesEmpty
  <2> QED
    BY <1>12, <2>1, ConcatEmptySeq DEF Told
<1> QED
  BY <1>2, <1>3, <1>4, <1>5, <1>6, <1>7, <1>9, <1>10, <1>11, <1>12, <1>13
     DEF Understanding, AnswerLabels

(* A step in which the thread neither reads nor sends.                     *)
Inside == UNCHANGED <<peers, out, disk, spoilt>> /\ moved' \in BOOLEAN

LEMMA InsideParts ==
  ASSUME Base, pc \in Busy, Inside
  PROVE  /\ Frame /\ spoilt' = spoilt /\ lines' = lines /\ in' = in /\ out' = out
         /\ link' = link /\ store' = store /\ home' = home /\ backlog' = backlog
<1>1. Frame
  BY SilentFrame DEF Inside
<1> QED
  BY <1>1 DEF Inside, peers, disk

(* The reply that CgymService has for the line is sent.                    *)
LEMMA ServedAnswer ==
  ASSUME IInv, NEW c \in Clients, c = serving, c \notin spoilt, pc \in AnswerLabels, Inside,
         NEW reply \in Seq(Units), NEW next, Replying(reply, next),
         reply = IF Lost THEN ErrMsg ELSE Reply(Meaning(Current), store),
         Meaning(Current).op # "quit",
         next \in {"read", "exit"}, next = "exit" <=> reply = ErrMsg,
         SameLost \/ (Meaning(Current).op = "list" /\ reply # ErrMsg /\ ~Lost)
  PROVE  Served
<1>1. Base /\ pc \in Busy /\ Running /\ PeersOk
  BY BusyServes DEF IInv, Base, AnswerLabels, Busy, Running
<1>2. /\ Frame /\ spoilt' = spoilt /\ lines' = lines /\ in' = in /\ out' = out
      /\ link' = link /\ store' = store /\ home' = home /\ backlog' = backlog
  BY <1>1, InsideParts
<1>3. /\ serving' = serving /\ closed' = closed /\ pc' = "send" /\ job'.after = next
      /\ Owes(job'.todo) = reply
  BY DEF Replying, Remains
<1>4. /\ \A d \in Clients \ spoilt : d # serving => Understood(d)'
      /\ \A d \in Clients : d # serving => SameFor(d)
      /\ Accepted' = Accepted /\ Left' = Left
  BY <1>1, <1>2, <1>3, OthersStay
<1>5. /\ Understood(c) /\ link[c] # "gone" /\ NumRead(c) \in 1 .. Len(lines[c])
      /\ Given(c) = NumRead(c) - 1 /\ Answered[c] = NumRead(c) - 1
      /\ Len(Asked[c]) = Len(lines[c]) /\ Asked[c][Answered[c] + 1] = Meaning(Current)
      /\ Told(c) = out[c]
  BY AnswersCurrent
<1>6. Len(lines[c]) \in Nat
  BY <1>1, AskedIs
<1>7. Given(c)' = Given(c) + 1
  <2>1. ~Answering(c)' /\ Unread(c)' = Unread(c)
    BY <1>2, <1>3, NumReadSame DEF Answering
  <2>2. Given(c)' = NumRead(c) - 0
    BY <1>2, <2>1 DEF Given, NumRead
  <2> QED
    BY <1>5, <1>6, <2>2
<1>8. Told(c)' = Told(c) \o reply
  <2>1. Owed(c)' = reply
    BY <1>3, OwedNext
  <2> QED
    BY <1>2, <1>5, <2>1 DEF Told
<1>9. /\ Asked' = Asked /\ Answered' = [Answered EXCEPT ![c] = @ + 1]
      /\ Answers' = [Answers EXCEPT ![c] = @ \o reply]
  BY <1>2, <1>4, <1>7, <1>8, KeptAnswered
<1>10. Running' /\ ~Ending /\ (Ending' <=> reply = ErrMsg)
  BY <1>3 DEF Running, Ending, AnswerLabels
<1>11. Answered[c] < Len(Asked[c])
  BY <1>5, <1>6
<1>12. Service!Next
  BY <1>1, <1>2, <1>3, <1>4, <1>5, <1>9, <1>10, <1>11, LikeAnswer
<1>13. Understood(c)'
  BY <1>2, <1>5, UnderstoodStays
<1>14. Understanding'
  BY <1>3 DEF Understanding
<1>15. Understands'
  <2>1. \A d \in Clients \ spoilt : Understood(d)'
    BY <1>4, <1>13
  <2> QED
    BY <1>2, <1>14, <2>1 DEF Understands
<1> QED
  BY <1>12, <1>15 DEF Served

(* The thread goes on to answer the line.                                  *)
LEMMA ServedSoon ==
  ASSUME IInv, NEW c \in Clients, c = serving, c \notin spoilt, pc \in AnswerLabels, Inside,
         Remains, pc' \in AnswerLabels, job'.command = job.command, job'.args = job.args,
         job'.todo = job.todo,
         pc' = "md5" => /\ job.command = <<"SIZE">> /\ job'.stat = Lookup(job.args[1])'
                        /\ job.args[1] \notin Unreadable,
         pc' = "list" => /\ job.command = <<"LIST">> /\ StillThere'
                         /\ job'.items = Found(store, Denoted(job.args[1]))[Looked(job')],
         SameLost
  PROVE  Served
<1>1. Base /\ pc \in Busy /\ pc' \in Busy
  BY DEF IInv, AnswerLabels, Busy
<1>2. /\ Frame /\ spoilt' = spoilt /\ lines' = lines /\ in' = in /\ out' = out
      /\ link' = link /\ store' = store /\ home' = home
  BY <1>1, InsideParts
<1>3. serving' = serving /\ closed' = closed
  BY DEF Remains
<1>4. /\ Understood(c) /\ Understanding /\ link[c] # "gone"
      /\ NumRead(c) \in 1 .. Len(lines[c])
      /\ job.command = <<Current[1]>> /\ job.args = Arguments(Current)
  BY AnswersCurrent
<1>5. NumRead(c)' = NumRead(c) /\ Unread(c)' = Unread(c)
  BY <1>2, NumReadSame
<1>6. SameFor(c)
  <2>1. Answering(c) /\ Answering(c)'
    BY <1>3 DEF Answering, AnswerLabels
  <2>2. Given(c)' = Given(c)
    BY <1>2, <1>5, <2>1 DEF Given
  <2>3. Owed(c) = Owes(job.todo) /\ Owed(c)' = Owes(job'.todo)
    BY <1>3, OwedServing, OwedNext
  <2>4. Told(c)' = Told(c)
    BY <1>2, <2>3 DEF Told
  <2> QED
    BY <1>2, <2>2, <2>4 DEF SameFor
<1>7. Understood(c)'
  BY <1>2, <1>4, UnderstoodStays
<1>8. Current' = Current /\ NumRead(serving)' # 0
  <2>1. NumRead(serving)' = NumRead(c)
    BY <1>3, <1>5
  <2>2. Current' = lines[c][NumRead(c)] /\ Current = lines[c][NumRead(c)]
    BY <1>2, <1>3, <2>1 DEF Current
  <2>3. NumRead(c) # 0
    BY <1>4 DEF Understanding, AnswerLabels
  <2> QED
    BY <2>1, <2>2, <2>3
<1>9. Understanding'
  <2>1. job'.command = <<Current'[1]>> /\ job'.args = Arguments(Current')
    BY <1>4, <1>8
  <2>2. pc' # "send"
    BY DEF AnswerLabels
  <2>3. pc' = "list" => job'.items = Found(store', Denoted(job'.args[1]))[Looked(job')]
    BY <1>2
  <2>4. pc' = "md5" => /\ job'.command = <<"SIZE">> /\ job'.stat = Lookup(job.args[1])'
                       /\ job'.args[1] \notin Unreadable
    OBVIOUS
  <2>5. pc' = "list" => job'.command = <<"LIST">> /\ StillThere'
    OBVIOUS
  <2> QED
    BY <1>8, <2>1, <2>2, <2>3, <2>4, <2>5 DEF Understanding
<1>10. ~Ending /\ ~Ending'
  BY DEF Ending, AnswerLabels
<1> QED
  BY <1>1, <1>2, <1>6, <1>7, <1>9, <1>10, ServedOn

(* The thread goes on with a file that it finds and cannot open: nothing    *)
(* more is promised to the client.                                         *)
LEMMA ServedExcused ==
  ASSUME IInv, NEW c \in Clients, c = serving, pc \in AnswerLabels,
         UNCHANGED <<peers, out, disk>>, spoilt' = spoilt \cup {c},
         Remains, pc' \in AnswerLabels, SameLost
  PROVE  Served
<1>1. Base /\ pc \in Busy /\ Running
  BY BusyServes DEF IInv, AnswerLabels, Busy
<1>2. /\ UNCHANGED <<link, lines, backlog>> /\ in' = in /\ out' = out /\ store' = store
      /\ serving' = serving /\ closed' = closed /\ closed \subseteq closed'
  BY DEF peers, disk, Remains
<1>3. /\ \A d \in Clients \ spoilt : d # serving => Understood(d)'
      /\ \A d \in Clients : d # serving => SameFor(d)
      /\ Accepted' = Accepted /\ Left' = Left
  BY <1>1, <1>2, OthersStay
<1>4. Excused(c)
  <2>1. \A d \in Clients \ (spoilt \cup {c}) : SameFor(d)
    BY <1>3
  <2> QED
    BY <2>1, KeptExcused
<1>5. Running' /\ ~Ending /\ ~Ending'
  BY DEF Running, Ending, AnswerLabels
<1>6. Service!Next
  BY <1>1, <1>2, <1>3, <1>4, <1>5, LikeOffend
<1>7. Understands'
  BY <1>2, <1>3 DEF Understands
<1> QED
  BY <1>6, <1>7 DEF Served

-----------------------------------------------------------------------------
LEMMA ReachableLost ==
  ASSUME ServerOk, pc # "list"
  PROVE  Reachable <=> ~Lost
BY ServerAssumption DEF ServerOk, Reachable, Lost

(* What the replies are.                                                   *)
LEMMA RepliesAre ==
  ASSUME NEW name, NEW from, NEW to, NEW st
  PROVE  /\ Reply(Request("size", name, 0, 0), st) =
              IF Held(st, name) # NoVersion THEN SizeReply(Held(st, name)) ELSE ErrMsg
         /\ Reply(Request("get", name, from, to), st) =
              IF HasRange(Opened(st, name), from, to)
              THEN GetReply(Opened(st, name), from, to) ELSE ErrMsg
         /\ Reply(Request("list", name, 0, 0), st) =
              IF Denoted(name) \in Dirs THEN ListReply(Listing(st, Denoted(name))) ELSE ErrMsg
         /\ Request("size", name, 0, 0).op = "size"
         /\ Request("get", name, from, to).op = "get"
         /\ Request("list", name, 0, 0).op = "list"
         /\ Request("quit", <<>>, 0, 0).op = "quit"
<1>1. /\ Request("size", name, 0, 0).op = "size" /\ Request("size", name, 0, 0).name = name
  BY DEF Request
<1>2. /\ Request("get", name, from, to).op = "get" /\ Request("get", name, from, to).name = name
      /\ Request("get", name, from, to).from = from /\ Request("get", name, from, to).to = to
  BY DEF Request
<1>3. /\ Request("list", name, 0, 0).op = "list" /\ Request("list", name, 0, 0).name = name
  BY DEF Request
<1>4. Reply(Request("size", name, 0, 0), st) =
        IF Held(st, name) # NoVersion THEN SizeReply(Held(st, name)) ELSE ErrMsg
  BY <1>1 DEF Reply
<1>5. Reply(Request("get", name, from, to), st) =
        IF HasRange(Opened(st, name), from, to)
        THEN GetReply(Opened(st, name), from, to) ELSE ErrMsg
  BY <1>2 DEF Reply
<1>6. Reply(Request("list", name, 0, 0), st) =
        IF Denoted(name) \in Dirs THEN ListReply(Listing(st, Denoted(name))) ELSE ErrMsg
  BY <1>3 DEF Reply
<1>7. Request("quit", <<>>, 0, 0).op = "quit"
  BY DEF Request
<1> QED
  BY <1>1, <1>2, <1>3, <1>4, <1>5, <1>6, <1>7

LEMMA GetReplyOk ==
  ASSUME NEW v \in Versions, NEW from \in Nat, NEW to \in Nat, from < to
  PROVE  GetReply(v, from, to) \in Seq(Units) /\ GetReply(v, from, to) # ErrMsg
<1> DEFINE s == Slice(v, from, to)
<1>1. s \in Seq(Units)
  BY SliceType
<1> HIDE DEF s
<1>2. (OkMsg \o s) \o EndMsg # ErrMsg /\ (OkMsg \o s) \o EndMsg \in Seq(Units)
  BY <1>1, UnitsType, OkIsNotErr, ConcatProperties
<1> QED
  BY <1>2 DEF GetReply, s

LEMMA SizeReplyOk ==
  ASSUME NEW v \in Versions
  PROVE  /\ SizeReply(v) \in Seq(Units) /\ SizeReply(v) # ErrMsg
         /\ SizeReply(v) = (OkMsg \o <<EntryOf(v, v), CRLF>>) \o EndMsg
<1>1. EntryOf(v, v) = Entry(v)
  BY SockAssumption DEF EntryOf
<1> DEFINE s == <<EntryOf(v, v), CRLF>>
<1>2. s \in Seq(Units)
  BY EntryLine
<1>3. SizeReply(v) = (OkMsg \o s) \o EndMsg
  BY <1>1 DEF SizeReply
<1> HIDE DEF s
<1>4. (OkMsg \o s) \o EndMsg # ErrMsg /\ (OkMsg \o s) \o EndMsg \in Seq(Units)
  BY <1>2, UnitsType, OkIsNotErr, ConcatProperties
<1> QED
  BY <1>3, <1>4 DEF s

LEMMA ListReplyOk ==
  ASSUME NEW items \in Seq(Items)
  PROVE  ListReply(items) \in Seq(Units) /\ ListReply(items) # ErrMsg
<1> DEFINE parts == [k \in DOMAIN items |-> ListLine(items[k])]
           s == FlattenSeq(parts)
<1>1. parts \in Seq(Seq(Units))
  <2>1. \A k \in 1 .. Len(items) : items[k] \in Items
    BY ElementOfSeq
  <2>2. \A k \in 1 .. Len(items) : ListLine(items[k]) \in Seq(Units)
    BY <2>1, ListLineType DEF Shows
  <2>3. DOMAIN items = 1 .. Len(items) /\ Len(items) \in Nat
    BY LenProperties
  <2> QED
    BY <2>2, <2>3
<1> HIDE DEF parts
<1>2. s \in Seq(Units)
  BY <1>1, FlattenType
<1> HIDE DEF s
<1>3. (OkMsg \o s) \o EndMsg # ErrMsg /\ (OkMsg \o s) \o EndMsg \in Seq(Units)
  BY <1>2, UnitsType, OkIsNotErr, ConcatProperties
<1> QED
  BY <1>3 DEF ListReply, s, parts

-----------------------------------------------------------------------------
LEMMA ServedSize ==
  ASSUME IInv, NEW c \in Clients, c = serving, c \notin spoilt, pc = "exec", Inside,
         Size, pc' = "md5" => job.args[1] \notin Unreadable
  PROVE  Served
<1> DEFINE name == NameFrom(Current, 3)
           v    == Lookup(name)
<1>1. /\ ServerOk /\ JobOk(job, "exec") /\ pc \in AnswerLabels /\ moved' = moved
      /\ job.command = <<"SIZE">> /\ store' = store /\ home' = home
  BY DEF IInv, Base, AnswerLabels, Size, Is, Inside, disk
<1>2. /\ Current \in Seq(Symbols) /\ Speaks(Current) /\ job.command = <<Current[1]>>
      /\ job.args = Arguments(Current)
  BY <1>1, AnswersCurrent
<1>3. Current[1] = "SIZE"
  BY <1>1, <1>2
<1>4. Arguments(Current) = <<name>> /\ Meaning(Current) = Request("size", name, 0, 0)
  BY <1>2, <1>3, Spoken
<1>5. job.args[1] = name
  BY <1>2, <1>4
<1>6. v \in Versions \cup {NoVersion}
  BY <1>1, LookupType DEF ServerOk
<1>7. v = IF Lost THEN NoVersion ELSE Held(store, name)
  BY <1>1, ReachableLost DEF Lookup
<1> HIDE DEF v
<1>8. CASE v = NoVersion /\ Replying(ErrMsg, "exit")
  <2>1. SameLost
    BY <1>1, <1>8, NotListing DEF Replying
  <2>2. ErrMsg = IF Lost THEN ErrMsg ELSE Reply(Meaning(Current), store)
    BY <1>4, <1>7, <1>8, RepliesAre
  <2>3. Meaning(Current).op # "quit" /\ ErrMsg \in Seq(Units)
    BY <1>4, RepliesAre, UnitsType
  <2> QED
    BY <1>1, <1>8, <2>1, <2>2, <2>3, ServedAnswer
<1>9. CASE /\ v # NoVersion /\ Remains /\ pc' = "md5" /\ JobOk(job', "md5")
           /\ job'.stat = v /\ job'.command = job.command /\ job'.args = job.args
           /\ job'.todo = job.todo
  <2>1. SameLost
    BY <1>1, <1>9, NotListing
  <2>2. job'.stat = Lookup(job.args[1])'
    BY <1>1, <1>5, <1>9 DEF v, Lookup, Reachable
  <2> QED
    BY <1>1, <1>9, <2>1, <2>2, ServedSoon DEF AnswerLabels
<1> QED
  BY <1>1, <1>5, <1>8, <1>9, SizeCases DEF v

LEMMA ServedGet ==
  ASSUME IInv, NEW c \in Clients, c = serving, c \notin spoilt, pc = "exec", Inside,
         Get
  PROVE  Served
<1> DEFINE name == NameFrom(Current, 7)
           v    == Fopen(name)
           from == Numerals[Current[3]]
           to   == Numerals[Current[5]]
<1>1. /\ ServerOk /\ JobOk(job, "exec") /\ pc \in AnswerLabels /\ moved' = moved
      /\ job.command = <<"GET">> /\ store' = store /\ home' = home
  BY DEF IInv, Base, AnswerLabels, Get, Is, Inside, disk
<1>2. /\ Current \in Seq(Symbols) /\ Speaks(Current) /\ job.command = <<Current[1]>>
      /\ job.args = Arguments(Current)
  BY <1>1, AnswersCurrent
<1>3. Current[1] = "GET"
  BY <1>1, <1>2
<1>4. /\ Arguments(Current) = << <<Current[3]>>, <<Current[5]>>, name >>
      /\ Meaning(Current) = Request("get", name, from, to)
      /\ Numeral(Current, 3) /\ Numeral(Current, 5)
  BY <1>2, <1>3, Spoken
<1>5. job.args[1] = <<Current[3]>> /\ job.args[2] = <<Current[5]>> /\ job.args[3] = name
  BY <1>2, <1>4
<1>6. v \in Versions \cup {NoVersion}
  BY <1>1, FopenType DEF ServerOk
<1>7. v = IF Lost THEN NoVersion ELSE Opened(store, name)
  BY <1>1, ReachableLost DEF Fopen
<1>8. from \in Nat /\ to \in Nat
  BY <1>4, ServerAssumption DEF Numeral
<1>9. Ranged(v, job.args[1], job.args[2]) <=> HasRange(v, from, to)
  <2>1. IsNumber(<<Current[3]>>) /\ IsNumber(<<Current[5]>>)
    BY <1>4 DEF IsNumber, Numeral
  <2> QED
    BY <1>5, <2>1 DEF Ranged
<1> HIDE DEF v, name
<1>10. CASE ~HasRange(v, from, to) /\ Replying(ErrMsg, "exit")
  <2>1. SameLost
    BY <1>1, <1>10, NotListing DEF Replying
  <2>2. ErrMsg = IF Lost THEN ErrMsg ELSE Reply(Meaning(Current), store)
    BY <1>4, <1>7, <1>10, RepliesAre
  <2>3. Meaning(Current).op # "quit" /\ ErrMsg \in Seq(Units)
    BY <1>4, RepliesAre, UnitsType
  <2> QED
    BY <1>1, <1>10, <2>1, <2>2, <2>3, ServedAnswer
<1>11. CASE HasRange(v, from, to) /\ Replying(GetReply(v, from, to), "read")
  <2>1. SameLost
    BY <1>1, <1>11, NotListing DEF Replying
  <2>2. v \in Versions /\ from < to
    BY <1>6, <1>11 DEF HasRange
  <2>3. ~Lost /\ v = Opened(store, name)
    BY <1>7, <2>2, SockAssumption
  <2>4. GetReply(v, from, to) = IF Lost THEN ErrMsg ELSE Reply(Meaning(Current), store)
    BY <1>4, <1>11, <2>3, RepliesAre
  <2>5. GetReply(v, from, to) \in Seq(Units) /\ GetReply(v, from, to) # ErrMsg
    BY <1>8, <2>2, GetReplyOk
  <2>6. Meaning(Current).op # "quit"
    BY <1>4, RepliesAre
  <2> DEFINE reply == GetReply(v, from, to)
  <2> HIDE DEF reply
  <2>7. /\ reply \in Seq(Units) /\ reply # ErrMsg /\ Replying(reply, "read")
        /\ reply = IF Lost THEN ErrMsg ELSE Reply(Meaning(Current), store)
    BY <1>11, <2>4, <2>5 DEF reply
  <2> QED
    BY <1>1, <2>1, <2>6, <2>7, ServedAnswer
<1> QED
  <2>1. v = Fopen(job.args[3])
    BY <1>5 DEF v
  <2>2. Numerals[job.args[1][1]] = from /\ Numerals[job.args[2][1]] = to
    BY <1>5
  <2> QED
    BY <1>1, <1>9, <1>10, <1>11, <2>1, <2>2, GetCases

LEMMA ServedList ==
  ASSUME IInv, NEW c \in Clients, c = serving, c \notin spoilt, pc = "exec", Inside,
         List
  PROVE  Served
<1> DEFINE name == NameFrom(Current, 3)
           dir  == Denoted(name)
<1>1. /\ ServerOk /\ JobOk(job, "exec") /\ pc \in AnswerLabels
      /\ job.command = <<"LIST">> /\ store' = store /\ home' = home
  BY DEF IInv, Base, AnswerLabels, List, Is, Inside, disk
<1>2. /\ Current \in Seq(Symbols) /\ Speaks(Current) /\ job.command = <<Current[1]>>
      /\ job.args = Arguments(Current)
  BY <1>1, AnswersCurrent
<1>3. Current[1] = "LIST"
  BY <1>1, <1>2
<1>4. Arguments(Current) = <<name>> /\ Meaning(Current) = Request("list", name, 0, 0)
  BY <1>2, <1>3, Spoken
<1>5. job.args[1] = name
  BY <1>2, <1>4
<1>6. Reachable <=> ~Lost
  BY <1>1, ReachableLost
<1> HIDE DEF name
<1>7. CASE ~(Reachable /\ dir \in Dirs) /\ moved' = moved /\ Replying(ErrMsg, "exit")
  <2>1. SameLost
    BY <1>1, <1>7, NotListing DEF Replying
  <2>2. ErrMsg = IF Lost THEN ErrMsg ELSE Reply(Meaning(Current), store)
    BY <1>4, <1>6, <1>7, RepliesAre
  <2>3. Meaning(Current).op # "quit" /\ ErrMsg \in Seq(Units)
    BY <1>4, RepliesAre, UnitsType
  <2> QED
    BY <1>1, <1>7, <2>1, <2>2, <2>3, ServedAnswer
<1>8. CASE /\ Reachable /\ dir \in Dirs /\ moved' = TRUE
           /\ Remains /\ pc' = "list" /\ JobOk(job', "list")
           /\ job'.names = ReadDir[dir] /\ job'.items = <<>> /\ job'.stat = NoVersion
           /\ job'.command = job.command /\ job'.args = job.args
           /\ job'.todo = job.todo
  <2>1. SameLost
    BY <1>6, <1>8 DEF SameLost, Lost
  <2>2. Looked(job') = 0
    <3>1. Len(ReadDir[dir]) \in Nat
      BY <1>8, BasesType
    <3> QED
      BY <1>5, <1>8, <3>1 DEF Looked, Bases
  <2>3. Found(store, dir)[0] = <<>>
    BY <1>1, <1>8, FoundDef DEF ServerOk
  <2>4. job'.items = Found(store, Denoted(job.args[1]))[Looked(job')]
    BY <1>5, <1>8, <2>2, <2>3
  <2>5. StillThere'
    BY <1>8 DEF StillThere
  <2> QED
    BY <1>1, <1>8, <2>1, <2>4, <2>5, ServedSoon DEF AnswerLabels
<1> QED
  BY <1>1, <1>5, <1>7, <1>8, ListCases

LEMMA ServedQuit ==
  ASSUME IInv, NEW c \in Clients, c = serving, c \notin spoilt, pc = "exec", Inside,
         job.command = <<"QUIT">>, EndThread, moved' = moved
  PROVE  Served
<1>1. /\ Base /\ pc \in Busy /\ pc \in AnswerLabels /\ Running /\ PeersOk
  BY BusyServes DEF IInv, Base, AnswerLabels, Busy, Running
<1>2. /\ Frame /\ spoilt' = spoilt /\ lines' = lines /\ in' = in /\ out' = out
      /\ link' = link /\ store' = store /\ home' = home
  BY <1>1, InsideParts
<1>3. /\ Understood(c) /\ NumRead(c) \in 1 .. Len(lines[c])
      /\ Current \in Seq(Symbols) /\ Speaks(Current) /\ job.command = <<Current[1]>>
      /\ Given(c) = NumRead(c) - 1 /\ Answered[c] = NumRead(c) - 1
      /\ Len(Asked[c]) = Len(lines[c]) /\ Asked[c][Answered[c] + 1] = Meaning(Current)
      /\ Told(c) = out[c] /\ out[c] \in Seq(Units)
  BY <1>1, AnswersCurrent
<1>4. Current[1] = "QUIT"
  BY <1>3
<1>5. Meaning(Current).op = "quit"
  BY <1>3, <1>4, Spoken, RepliesAre
<1>6. /\ pc' = "accept" /\ serving' = NoClient /\ closed' = closed \cup {serving}
  BY DEF EndThread
<1>7. /\ \A d \in Clients \ spoilt : d # serving => Understood(d)'
      /\ \A d \in Clients : d # serving => SameFor(d)
      /\ Accepted' = Accepted /\ Left' = Left
  BY <1>1, <1>2, <1>6, FrameParts, OthersStay
<1>8. Len(lines[c]) \in Nat
  BY <1>1, AskedIs
<1>9. c # serving'
  BY <1>6, ServerAssumption
<1>10. Given(c)' = Given(c) + 1
  <2>1. ~Answering(c)' /\ Unread(c)' = Unread(c)
    BY <1>2, <1>9, NumReadSame DEF Answering
  <2>2. Given(c)' = NumRead(c) - 0
    BY <1>2, <2>1 DEF Given, NumRead
  <2> QED
    BY <1>3, <1>8, <2>2
<1>11. Told(c)' = Told(c) \o <<>>
  <2>1. Owed(c)' = <<>>
    BY <1>9 DEF Owed
  <2> QED
    BY <1>2, <1>3, <2>1 DEF Told
<1>12. /\ Asked' = Asked /\ Answered' = [Answered EXCEPT ![c] = @ + 1]
       /\ Answers' = [Answers EXCEPT ![c] = @ \o <<>>]
  BY <1>2, <1>7, <1>10, <1>11, KeptAnswered
<1>13. Answers' = Answers
  <2>1. Answers[c] = out[c] /\ out[c] \o <<>> = out[c]
    BY <1>3, ConcatEmptySeq DEF Answers, Kept, Told
  <2> QED
    BY <1>12, <2>1 DEF Answers
<1>14. Running' /\ ~Ending /\ ~Ending' /\ SameLost
  BY <1>2, <1>6 DEF Running, Ending, SameLost, Lost
<1>15. Answered[c] < Len(Asked[c])
  BY <1>3, <1>8
<1>16. Service!Next
  BY <1>1, <1>2, <1>3, <1>5, <1>6, <1>7, <1>12, <1>13, <1>14, <1>15, LikeQuit
<1>17. Understood(c)'
  BY <1>2, <1>3, <1>6, UnderstoodStays
<1>18. Understands'
  <2>1. \A d \in Clients \ spoilt : Understood(d)'
    BY <1>7, <1>17
  <2>2. serving' \notin Clients
    BY <1>6, ServerAssumption
  <2> QED
    BY <1>2, <2>1, <2>2 DEF Understands
<1> QED
  BY <1>16, <1>18 DEF Served

-----------------------------------------------------------------------------
LEMMA ExecuteLost ==
  ASSUME ServerOk, Execute, UNCHANGED disk
  PROVE  (Lost => Lost') /\ (EndThread \/ Crash => SameLost)
<1>1. pc = "exec" /\ home' = home
  BY DEF Execute, disk
<1>2. EndThread \/ Crash => pc' # "list"
  BY DEF EndThread, Crash
<1>3. CASE moved' = moved
  BY <1>1, <1>2, <1>3 DEF Lost, SameLost, EndThread, Crash, Execute, Size, Get, List, Unset,
     Unknown, Fail, Sending, Stay, Reachable
<1>4. CASE Reachable /\ pc' = "list"
  <2>1. ~Lost
    BY <1>1, <1>4, ReachableLost
  <2> QED
    BY <1>2, <1>4, <2>1
<1>5. moved' = moved \/ (Reachable /\ pc' = "list")
  <2>1. List => moved' = moved \/ (Reachable /\ pc' = "list")
    BY DEF List, Stay
  <2> QED
    BY <2>1 DEF Execute, Size, Get, Unset, Unknown
<1> QED
  BY <1>3, <1>4, <1>5

(* A name has a slash.                                                     *)
LEMMA NamesHaveSlash ==
  ASSUME NEW c \in Clients, NEW line \in Lines[c], NEW p \in {3, 7}, IsName(line, p)
  PROVE  Proper(NameFrom(line, p)) /\ HasSlash(NameFrom(line, p))
<1>1. /\ line \in Seq(Symbols) /\ p \in DOMAIN line /\ line[p] = "/"
      /\ ~\E i \in 1 .. Len(line) - 1 : line[i] = "/" /\ line[i + 1] = "/"
  BY ServerAssumption DEF IsName
<1>2. Proper(NameFrom(line, p))
  BY <1>1, ProperName
<1> DEFINE name == NameFrom(line, p)
<1> HIDE DEF name
<1>3. name \in Seq(Symbols) /\ name # <<>> /\ name[1] = "/"
  BY <1>2 DEF Proper, name
<1>4. 1 \in DOMAIN name
  <2>1. DOMAIN name = 1 .. Len(name) /\ Len(name) \in Nat /\ Len(name) # 0
    BY <1>3, LenProperties, EmptySeq
  <2> QED
    BY <2>1
<1>5. HasSlash(name)
  BY <1>3, <1>4 DEF HasSlash
<1> QED
  BY <1>2, <1>5 DEF name

(* Which command it is.                                                    *)
LEMMA ExecuteCurrent ==
  ASSUME IInv, NEW c \in Clients, c = serving, c \notin spoilt, Execute
  PROVE  \/ Size \/ Get \/ List
         \/ job.command = <<"QUIT">> /\ EndThread /\ moved' = moved
<1>1. pc = "exec" /\ pc \in AnswerLabels
  BY DEF Execute, AnswerLabels
<1>2. /\ Current \in Seq(Symbols) /\ Current \in Lines[c] /\ Speaks(Current)
      /\ job.command = <<Current[1]>> /\ job.args = Arguments(Current)
  BY <1>1, AnswersCurrent
<1> DEFINE line == Current
<1> HIDE DEF line
<1>3. /\ line \in Seq(Symbols) /\ line \in Lines[c] /\ Speaks(line)
      /\ job.command = <<line[1]>> /\ job.args = Arguments(line)
  BY <1>2 DEF line
<1>4. \/ line[1] = "QUIT" /\ Arguments(line) = <<>>
      \/ line[1] = "SIZE" /\ Arguments(line) = <<NameFrom(line, 3)>>
      \/ line[1] = "LIST" /\ IsName(line, 3) /\ Arguments(line) = <<NameFrom(line, 3)>>
      \/ /\ line[1] = "GET"
         /\ Arguments(line) = << <<line[3]>>, <<line[5]>>, NameFrom(line, 7) >>
  BY <1>3, Spoken
<1>5. job.command = <<line[1]>> /\ job.command # <<>>
  BY <1>3
<1>6. ~Unset
  BY <1>5 DEF Unset
<1>7. line[1] \in {"QUIT", "SIZE", "LIST", "GET"}
  BY <1>4
<1>8. ~Unknown
  BY <1>5, <1>7 DEF Unknown
<1>9. ~Lacks("SIZE", 1)
  <2> SUFFICES ASSUME job.command = <<"SIZE">> PROVE ~(Len(job.args) < 1)
    BY DEF Lacks
  <2>1. line[1] = "SIZE"
    BY <1>3
  <2>2. job.args = <<NameFrom(line, 3)>>
    BY <1>3, <1>4, <2>1
  <2> QED
    BY <2>2
<1>10. ~Lacks("LIST", 1)
  <2> SUFFICES ASSUME job.command = <<"LIST">> PROVE ~(Len(job.args) < 1)
    BY DEF Lacks
  <2>1. line[1] = "LIST"
    BY <1>3
  <2>2. job.args = <<NameFrom(line, 3)>>
    BY <1>3, <1>4, <2>1
  <2> QED
    BY <2>2
<1>11. ~Lacks("GET", 3)
  <2> SUFFICES ASSUME job.command = <<"GET">> PROVE ~(Len(job.args) < 3)
    BY DEF Lacks
  <2>1. line[1] = "GET"
    BY <1>3
  <2>2. job.args = << <<line[3]>>, <<line[5]>>, NameFrom(line, 7) >>
    BY <1>3, <1>4, <2>1
  <2> QED
    BY <2>2
<1>12. ~(Is("LIST", 1) /\ ~HasSlash(job.args[1]))
  <2> SUFFICES ASSUME Is("LIST", 1) PROVE HasSlash(job.args[1])
    OBVIOUS
  <2>1. line[1] = "LIST"
    BY <1>3 DEF Is
  <2>2. IsName(line, 3) /\ job.args = <<NameFrom(line, 3)>>
    BY <1>3, <1>4, <2>1
  <2>3. HasSlash(NameFrom(line, 3))
    BY <1>3, <2>2, NamesHaveSlash
  <2> QED
    BY <2>2, <2>3
<1> QED
  BY <1>6, <1>8, <1>9, <1>10, <1>11, <1>12 DEF Execute, Is

LEMMA ServedExecute ==
  ASSUME IInv, Execute, UNCHANGED disk
  PROVE  Served
<1>1. /\ Base /\ ServerOk /\ pc = "exec" /\ pc \in Busy /\ serving \in Clients
  BY BusyServes DEF IInv, Base, Execute, Busy
<1>2. Moves /\ moved' \in BOOLEAN
  BY <1>1, ExecuteMoves
<1>3. /\ UNCHANGED <<peers, out, disk>>
      /\ IF pc' = "md5" THEN Excuses(job.args[1]) ELSE spoilt' = spoilt
  BY DEF Execute
<1>4. CASE serving \in spoilt
  <2>1. spoilt' = spoilt
    BY <1>3, <1>4 DEF Excuses
  <2>2. Frame
    BY <1>1, <1>2, <1>3, <2>1, SilentFrame
  <2> QED
    BY <1>1, <1>2, <1>4, <2>1, <2>2, ExecuteLost, ServedSpoilt
<1>5. CASE serving \notin spoilt /\ ~(pc' = "md5" /\ job.args[1] \in Unreadable)
  <2>1. PICK c \in Clients : c = serving
    BY <1>1
  <2>2. c \notin spoilt
    BY <1>5, <2>1
  <2>3. \/ Size \/ Get \/ List
        \/ job.command = <<"QUIT">> /\ EndThread /\ moved' = moved
    BY <2>1, <2>2, ExecuteCurrent
  <2>4. Inside
    BY <1>2, <1>3, <1>5 DEF Inside, Excuses
  <2> QED
    BY <1>1, <1>5, <2>1, <2>2, <2>3, <2>4, ServedSize, ServedGet, ServedList, ServedQuit
<1>6. CASE pc' = "md5" /\ job.args[1] \in Unreadable
  <2>1. PICK c \in Clients : c = serving
    BY <1>1
  <2>2. spoilt' = spoilt \cup {c}
    BY <1>3, <1>6, <2>1 DEF Excuses
  <2>3. Remains
    BY <1>2, <1>6 DEF Moves, EndThread, Crash
  <2>4. SameLost
    <3>1. moved' = moved
      BY <1>6 DEF Execute, Size, Get, List, Unset, Unknown, Stay
    <3> QED
      BY <1>1, <1>3, <1>6, <3>1, NotListing DEF disk
  <2> QED
    BY <1>1, <1>3, <1>6, <2>1, <2>2, <2>3, <2>4, ServedExcused DEF AnswerLabels
<1> QED
  BY <1>4, <1>5, <1>6

-----------------------------------------------------------------------------
LEMMA ServedMd5 ==
  ASSUME IInv, Md5, UNCHANGED disk
  PROVE  Served
<1>1. /\ Base /\ ServerOk /\ JobOk(job, "md5") /\ pc = "md5" /\ pc \in Busy /\ pc \in AnswerLabels
      /\ serving \in Clients /\ moved' = moved /\ home' = home /\ moved \in BOOLEAN
      /\ store' = store
  BY BusyServes DEF IInv, Base, Md5, Busy, AnswerLabels, disk, ServerOk
<1>2. Inside
  BY <1>1 DEF Inside, Md5
<1> DEFINE now == Fopen(job.args[1])
<1>3. \/ Replying((OkMsg \o <<EntryOf(job.stat, now), CRLF>>) \o EndMsg, "read")
      \/ now = NoVersion /\ Crash
  BY <1>1, Md5Cases
<1>4. Moves /\ pc' # "list"
  BY <1>3, ReplyingMoves DEF Moves, Crash, Replying
<1>5. SameLost
  BY <1>1, <1>4, NotListing
<1>6. CASE serving \in spoilt
  <2>1. Frame /\ spoilt' = spoilt
    BY <1>1, <1>2, InsideParts
  <2> QED
    BY <1>1, <1>4, <1>5, <1>6, <2>1, ServedSpoilt DEF SameLost
<1>7. CASE serving \notin spoilt
  <2>1. PICK c \in Clients : c = serving
    BY <1>1
  <2>2. c \notin spoilt
    BY <1>7, <2>1
  <2> DEFINE name == NameFrom(Current, 3)
  <2>3. /\ Understanding /\ Current \in Seq(Symbols) /\ Speaks(Current)
        /\ job.command = <<Current[1]>> /\ job.args = Arguments(Current)
    BY <1>1, <2>1, <2>2, AnswersCurrent
  <2>4. job.command = <<"SIZE">> /\ job.stat = now
    BY <1>1, <2>3, FopenType DEF Understanding, ServerOk
  <2>5. Current[1] = "SIZE"
    BY <2>3, <2>4
  <2>6. Arguments(Current) = <<name>> /\ Meaning(Current) = Request("size", name, 0, 0)
    BY <2>3, <2>5, Spoken
  <2>7. job.args[1] = name
    BY <2>3, <2>6
  <2>8. job.stat \in Versions
    BY <1>1 DEF JobOk
  <2> HIDE DEF now
  <2>9. now \in Versions /\ now # NoVersion
    BY <2>4, <2>8, SockAssumption
  <2>10. Reachable /\ now = Held(store, name)
    BY <1>1, <2>3, <2>4, <2>7, <2>9 DEF now, Lookup, Understanding
  <2>11. ~Lost
    BY <1>1, <2>10, ReachableLost
  <2>12. Replying(SizeReply(now), "read")
    BY <1>3, <2>4, <2>9, SizeReplyOk DEF now
  <2>13. SizeReply(now) = IF Lost THEN ErrMsg ELSE Reply(Meaning(Current), store)
    BY <2>6, <2>9, <2>10, <2>11, RepliesAre
  <2>14. SizeReply(now) \in Seq(Units) /\ SizeReply(now) # ErrMsg
    BY <2>9, SizeReplyOk
  <2>15. Meaning(Current).op # "quit"
    BY <2>6, RepliesAre
  <2> DEFINE reply == SizeReply(now)
  <2> HIDE DEF reply
  <2>16. /\ reply \in Seq(Units) /\ reply # ErrMsg /\ Replying(reply, "read")
         /\ reply = IF Lost THEN ErrMsg ELSE Reply(Meaning(Current), store)
    BY <2>12, <2>13, <2>14 DEF reply
  <2> QED
    BY <1>1, <1>2, <1>5, <2>1, <2>2, <2>15, <2>16, ServedAnswer
<1> QED
  BY <1>6, <1>7

(* What is listed of the next entry is shown under the name of the file.    *)
LEMMA FoundNext ==
  ASSUME IInv, NEW c \in Clients, c = serving, c \notin spoilt, pc = "list",
         job.names # <<>>
  PROVE  LET dir == Denoted(job.args[1])
             k   == Looked(job) + 1
         IN  /\ Understanding /\ dir \in Dirs
             /\ Found(store, dir)[k] = Shown(store, NextName, NextShown) \o job.items
<1> DEFINE dir  == Denoted(job.args[1])
           k    == Looked(job) + 1
           base == ReadDir[dir][k]
           name == NameFrom(Current, 3)
<1>1. /\ Base /\ ServerOk /\ JobOk(job, "list") /\ pc \in AnswerLabels
  BY DEF IInv, Base, AnswerLabels
<1>2. /\ k \in 1 .. Len(ReadDir[dir]) /\ NextName = Join(dir, base)
      /\ NextShown = DirName(job.args[1]) \o base
  BY <1>1, NextOk
<1>3. /\ Understanding /\ Current \in Seq(Symbols) /\ Speaks(Current)
      /\ Current \in Lines[c]
      /\ job.command = <<Current[1]>> /\ job.args = Arguments(Current)
  BY <1>1, AnswersCurrent
<1>4. job.command = <<"LIST">> /\ job.items = Found(store, dir)[Looked(job)]
  BY <1>3 DEF Understanding
<1>5. Current[1] = "LIST"
  BY <1>3, <1>4
<1>6. /\ Arguments(Current) = <<name>> /\ IsName(Current, 3)
      /\ ~OneLetter(name)
  BY <1>3, <1>5, Spoken
<1>7. job.args[1] = name
  BY <1>3, <1>6
<1>8. Proper(name)
  <2> DEFINE line == Current
  <2> HIDE DEF line
  <2>1. line \in Lines[c] /\ IsName(line, 3)
    BY <1>3, <1>6 DEF line
  <2>2. Proper(NameFrom(line, 3))
    BY <2>1, NamesHaveSlash
  <2> QED
    BY <2>2 DEF line
<1> HIDE DEF name
<1>9. NextShown = Join(dir, base)
  <2>1. DirName(name) \o base = Join(Denoted(name), base)
    BY <1>6, <1>8, ShownUnderItsName
  <2> QED
    BY <1>2, <1>7, <2>1
<1>10. dir \in Dirs
  BY <1>1 DEF JobOk, Lists
<1>11. Found(store, dir)[k] = Shown(store, Join(dir, base), Join(dir, base))
                                 \o Found(store, dir)[k - 1]
  BY <1>1, <1>2, <1>10, FoundDef DEF ServerOk
<1>12. k - 1 = Looked(job)
  <2>1. Looked(job) \in 0 .. Len(Bases(job))
    BY <1>1 DEF JobOk, Lists
  <2> QED
    BY <2>1
<1>13. Found(store, dir)[k] = Shown(store, NextName, NextShown) \o job.items
  BY <1>2, <1>4, <1>9, <1>11, <1>12
<1> QED
  BY <1>3, <1>10, <1>13

LEMMA ServedListEntry ==
  ASSUME IInv, ListEntry, UNCHANGED disk
  PROVE  Served
<1>1. /\ Base /\ ServerOk /\ JobOk(job, "list") /\ pc = "list" /\ pc \in Busy
      /\ pc \in AnswerLabels /\ serving \in Clients /\ moved' = moved /\ home' = home
      /\ moved \in BOOLEAN /\ store' = store /\ UNCHANGED <<peers, out, disk>>
  BY BusyServes DEF IInv, Base, ListEntry, Busy, AnswerLabels, disk, ServerOk
<1>2. /\ job.names # <<>> /\ job.stat = NoVersion
      /\ Remains /\ pc' = "list" /\ JobOk(job', "list") /\ job'.todo = job.todo
      /\ job'.command = job.command /\ job'.args = job.args
  BY <1>1, ListEntryCases
<1>3. \/ /\ Held(store, NextName) # NoVersion /\ Excuses(NextName)
         /\ job'.stat = Held(store, NextName)
         /\ job'.names = job.names /\ job'.items = job.items
         /\ Looked(job') = Looked(job)
      \/ /\ Held(store, NextName) = NoVersion /\ spoilt' = spoilt
         /\ job'.stat = NoVersion /\ Looked(job') = Looked(job) + 1
         /\ job'.items = Shown(store, NextName, NextShown) \o job.items
  BY <1>1, ListEntryCases
<1>4. Moves
  BY <1>2 DEF Moves, Busy
<1>5. ~Lost /\ ~Lost' /\ SameLost
  BY <1>1, <1>2 DEF Lost, SameLost
<1>6. CASE serving \in spoilt
  <2>1. spoilt' = spoilt
    BY <1>3, <1>6 DEF Excuses
  <2>2. Frame
    BY <1>1, <2>1, SilentFrame
  <2> QED
    BY <1>1, <1>4, <1>5, <1>6, <2>1, <2>2, ServedSpoilt
<1>7. CASE serving \notin spoilt
  <2>1. PICK c \in Clients : c = serving
    BY <1>1
  <2>2. c \notin spoilt
    BY <1>7, <2>1
  <2> DEFINE dir == Denoted(job.args[1])
  <2>3. /\ Understanding /\ dir \in Dirs
        /\ Found(store, dir)[Looked(job) + 1] =
              Shown(store, NextName, NextShown) \o job.items
    BY <1>1, <1>2, <2>1, <2>2, FoundNext
  <2>4. job.command = <<"LIST">> /\ job.items = Found(store, dir)[Looked(job)]
    BY <1>1, <2>3 DEF Understanding
  <2>5. CASE job'.names = job.names /\ Held(store, NextName) # NoVersion /\ Excuses(NextName)
             /\ job'.stat = Held(store, NextName) /\ job'.items = job.items
             /\ Looked(job') = Looked(job) /\ NextName \notin Unreadable
    <3>1. spoilt' = spoilt
      BY <2>5 DEF Excuses
    <3>2. Inside
      BY <1>1, <3>1 DEF Inside
    <3>3. StillThere'
      <4>1. NextName' = NextName
        BY <1>2, <2>5 DEF NextName
      <4> QED
        BY <1>1, <2>5, <4>1 DEF StillThere
    <3>4. job'.items = Found(store, dir)[Looked(job')]
      BY <2>4, <2>5
    <3> QED
      BY <1>1, <1>2, <1>5, <2>1, <2>2, <2>4, <3>2, <3>3, <3>4, ServedSoon DEF AnswerLabels
  <2>6. CASE /\ spoilt' = spoilt /\ job'.stat = NoVersion /\ Looked(job') = Looked(job) + 1
             /\ job'.items = Shown(store, NextName, NextShown) \o job.items
    <3>1. Inside
      BY <1>1, <2>6 DEF Inside
    <3>2. StillThere'
      BY <2>6 DEF StillThere
    <3>3. job'.items = Found(store, dir)[Looked(job')]
      BY <2>3, <2>6
    <3> QED
      BY <1>1, <1>2, <1>5, <2>1, <2>2, <2>4, <3>1, <3>2, <3>3, ServedSoon DEF AnswerLabels
  <2>7. CASE Excuses(NextName) /\ NextName \in Unreadable
    <3>1. spoilt' = spoilt \cup {c}
      BY <2>1, <2>7 DEF Excuses
    <3> QED
      BY <1>1, <1>2, <1>5, <2>1, <3>1, ServedExcused DEF AnswerLabels
  <2> QED
    BY <1>3, <2>5, <2>6, <2>7
<1> QED
  BY <1>6, <1>7

LEMMA ServedListMd5 ==
  ASSUME IInv, ListMd5, UNCHANGED disk
  PROVE  Served
<1>1. /\ Base /\ ServerOk /\ JobOk(job, "list") /\ pc = "list" /\ pc \in Busy
      /\ pc \in AnswerLabels /\ serving \in Clients /\ moved' = moved /\ home' = home
      /\ moved \in BOOLEAN /\ store' = store
  BY BusyServes DEF IInv, Base, ListMd5, Busy, AnswerLabels, disk, ServerOk
<1>2. /\ job.names # <<>> /\ job.stat # NoVersion /\ spoilt' = spoilt
      /\ Remains /\ pc' = "list" /\ JobOk(job', "list") /\ job'.todo = job.todo
      /\ job'.command = job.command /\ job'.args = job.args /\ job'.stat = NoVersion
      /\ Looked(job') = Looked(job) + 1
      /\ job'.items = <<ItemOf(NextShown, job.stat, Opened(store, NextName))>>
                         \o job.items
  BY <1>1, ListMd5Cases
<1>3. Inside
  BY <1>1, <1>2 DEF Inside, ListMd5
<1>4. Moves
  BY <1>2 DEF Moves, Busy
<1>5. ~Lost /\ ~Lost' /\ SameLost
  BY <1>1, <1>2 DEF Lost, SameLost
<1>6. CASE serving \in spoilt
  <2>1. Frame /\ spoilt' = spoilt
    BY <1>1, <1>3, InsideParts
  <2> QED
    BY <1>1, <1>4, <1>5, <1>6, <2>1, ServedSpoilt
<1>7. CASE serving \notin spoilt
  <2>1. PICK c \in Clients : c = serving
    BY <1>1
  <2>2. c \notin spoilt
    BY <1>7, <2>1
  <2> DEFINE dir == Denoted(job.args[1])
  <2>3. /\ Understanding /\ dir \in Dirs
        /\ Found(store, dir)[Looked(job) + 1] =
              Shown(store, NextName, NextShown) \o job.items
    BY <1>1, <1>2, <2>1, <2>2, FoundNext
  <2>4. job.command = <<"LIST">> /\ StillThere
    BY <1>1, <2>3 DEF Understanding
  <2>5. /\ NextName \notin Unreadable /\ job.stat = Held(store, NextName)
        /\ Opened(store, NextName) = job.stat
    BY <1>2, <2>4 DEF StillThere, Opened
  <2>6. Shown(store, NextName, NextShown) = <<FileItem(NextShown, job.stat)>>
    <3>1. NextName \in FileNames /\ job.stat = store[NextName]
      BY <1>2, <2>5 DEF Held
    <3>2. NextName \notin Dirs
      BY <3>1 DEF FileNames
    <3> QED
      BY <1>2, <3>1, <3>2 DEF Shown
  <2>7. ItemOf(NextShown, job.stat, Opened(store, NextName)) = FileItem(NextShown, job.stat)
    BY <1>2, <2>5 DEF ItemOf
  <2>8. job'.items = Found(store, dir)[Looked(job')]
    BY <1>2, <2>3, <2>6, <2>7
  <2>9. StillThere'
    BY <1>2 DEF StillThere
  <2> QED
    BY <1>1, <1>2, <1>3, <1>5, <2>1, <2>2, <2>4, <2>8, <2>9, ServedSoon DEF AnswerLabels
<1> QED
  BY <1>6, <1>7

LEMMA ServedListDone ==
  ASSUME IInv, ListDone, UNCHANGED disk
  PROVE  Served
<1> DEFINE reply == ListReply(job.items)
           dir   == Denoted(job.args[1])
<1>1. /\ Base /\ ServerOk /\ JobOk(job, "list") /\ pc = "list" /\ pc \in Busy
      /\ pc \in AnswerLabels /\ serving \in Clients /\ moved' = moved /\ home' = home
      /\ moved \in BOOLEAN /\ store' = store
  BY BusyServes DEF IInv, Base, ListDone, Busy, AnswerLabels, disk, ServerOk
<1>2. Inside
  BY <1>1 DEF Inside, ListDone
<1>3. /\ Looked(job) = Len(Bases(job))
      /\ \/ Replying(reply, "read")
         \/ /\ \E k \in DOMAIN job.items : job.items[k].kind = "mixed"
            /\ \E part : Replying(part, "abort")
  BY <1>1, ListDoneCases
<1>4. Moves /\ ~EndThread /\ ~Crash
  BY <1>3, ReplyingMoves DEF Replying, EndThread, Crash
<1>5. ~Lost
  BY <1>1 DEF Lost
<1>6. CASE serving \in spoilt
  <2>1. Frame /\ spoilt' = spoilt
    BY <1>1, <1>2, InsideParts
  <2> QED
    BY <1>1, <1>4, <1>5, <1>6, <2>1, ServedSpoilt
<1>7. CASE serving \notin spoilt
  <2>1. PICK c \in Clients : c = serving
    BY <1>1
  <2>2. c \notin spoilt
    BY <1>7, <2>1
  <2> DEFINE name == NameFrom(Current, 3)
  <2>3. /\ Understanding /\ Current \in Seq(Symbols) /\ Speaks(Current)
        /\ job.command = <<Current[1]>> /\ job.args = Arguments(Current)
    BY <1>1, <2>1, <2>2, AnswersCurrent
  <2>4. job.command = <<"LIST">> /\ job.items = Found(store, dir)[Looked(job)]
    BY <1>1, <2>3 DEF Understanding
  <2>5. Current[1] = "LIST"
    BY <2>3, <2>4
  <2>6. Arguments(Current) = <<name>> /\ Meaning(Current) = Request("list", name, 0, 0)
    BY <2>3, <2>5, Spoken
  <2>7. job.args[1] = name
    BY <2>3, <2>6
  <2>8. dir \in Dirs
    BY <1>1 DEF JobOk, Lists
  <2>9. job.items = Listing(store, dir) /\ job.items \in Seq(Items)
    <3>1. /\ Listing(store, dir) = Found(store, dir)[Len(ReadDir[dir])]
          /\ \A k \in 0 .. Len(ReadDir[dir]) : Found(store, dir)[k] \in Seq(Items)
      BY <1>1, <2>8, FoundDef DEF ServerOk
    <3>2. Len(ReadDir[dir]) \in Nat
      BY <2>8, BasesType
    <3> QED
      BY <1>3, <2>4, <3>1, <3>2 DEF Bases
  <2>13. Replying(reply, "read")
    <3>1. ASSUME NEW k \in DOMAIN job.items PROVE job.items[k].kind # "mixed"
      <4>1. job.items[k] \in Items
        BY <2>9, <3>1, ElementOfSeq
      <4> QED
        BY <4>1 DEF Items
    <3> HIDE DEF reply
    <3> QED
      BY <1>3, <3>1
  <2>10. reply = IF Lost THEN ErrMsg ELSE Reply(Meaning(Current), store)
    BY <1>5, <2>6, <2>7, <2>8, <2>9, RepliesAre
  <2>11. reply \in Seq(Units) /\ reply # ErrMsg
    BY <2>9, ListReplyOk
  <2>12. Meaning(Current).op = "list"
    BY <2>6, RepliesAre
  <2> HIDE DEF reply
  <2> QED
    BY <1>1, <1>2, <1>5, <2>1, <2>2, <2>10, <2>11, <2>12, <2>13, ServedAnswer
<1> QED
  BY <1>6, <1>7

-----------------------------------------------------------------------------
(* What is left of a sequence.                                             *)
LEMMA RestOfSeq ==
  ASSUME NEW S, NEW s \in Seq(S), NEW n \in 0 .. Len(s)
  PROVE  LET u == SubSeq(s, n + 1, Len(s))
         IN  /\ u \in Seq(S) /\ Len(u) = Len(s) - n
             /\ \A k \in 1 .. Len(s) - n : u[k] = s[n + k]
<1> DEFINE L == Len(s)
           m == n + 1
           u == SubSeq(s, m, L)
<1>1. L \in Nat /\ \A k \in 1 .. L : s[k] \in S
  BY LenProperties, ElementOfSeq
<1>2. m \in Int /\ L \in Int /\ (\A k \in m .. L : s[k] \in S) /\ n \in Int /\ n <= L /\ 0 <= n
  BY <1>1
<1> HIDE DEF L
<1> USE <1>2
<1>3. m = n + 1
  OBVIOUS
<1> HIDE DEF m
<1>4. /\ u \in Seq(S) /\ Len(u) = (IF m <= L THEN L - m + 1 ELSE 0)
      /\ \A k \in 1 .. L - m + 1 : u[k] = s[m + k - 1]
  BY SubSeqProperties
<1> HIDE DEF u
<1>5. Len(u) = L - n
  BY <1>3, <1>4
<1>6. ASSUME NEW k \in 1 .. L - n PROVE u[k] = s[n + k]
  <2>1. m + k - 1 = n + k /\ k \in 1 .. L - m + 1
    BY <1>3
  <2> QED
    BY <1>4, <2>1
<1> QED
  BY <1>4, <1>5, <1>6 DEF u, m, L

LEMMA RestTail ==
  ASSUME NEW S, NEW s \in Seq(S), NEW n \in 0 .. Len(s),
         SubSeq(s, n + 1, Len(s)) # <<>>
  PROVE  LET u == SubSeq(s, n + 1, Len(s))
         IN  /\ n + 1 \in 1 .. Len(s) /\ u \in Seq(S) /\ Head(u) = s[n + 1]
             /\ Tail(u) = SubSeq(s, (n + 1) + 1, Len(s)) /\ Tail(u) \in Seq(S)
<1> DEFINE L == Len(s)
           u == SubSeq(s, n + 1, L)
           m == n + 1
           v == SubSeq(s, m + 1, L)
           t == Tail(u)
<1>1. u \in Seq(S) /\ Len(u) = L - n /\ \A k \in 1 .. L - n : u[k] = s[n + k]
  BY RestOfSeq
<1>2. L \in Nat /\ n \in Nat /\ n <= L
  BY LenProperties
<1>3. Len(u) # 0
  BY <1>1, EmptySeq
<1>4. m \in 0 .. L /\ m = n + 1 /\ m \in 1 .. L
  <2> HIDE DEF u, L
  <2> QED
    BY <1>1, <1>2, <1>3
<1> HIDE DEF m
<1>5. v \in Seq(S) /\ Len(v) = L - m /\ \A k \in 1 .. L - m : v[k] = s[m + k]
  BY <1>4, RestOfSeq
<1>6. /\ t \in Seq(S) /\ Len(t) = Len(u) - 1 /\ \A k \in 1 .. Len(t) : t[k] = u[k + 1]
      /\ Head(u) = u[1]
  BY <1>1, <1>3, HeadTailProperties, EmptySeq
<1> HIDE DEF t, u, v, L
<1>7. Len(t) = L - m /\ Len(t) = Len(v)
  BY <1>1, <1>2, <1>4, <1>5, <1>6
<1>8. ASSUME NEW k \in 1 .. Len(t) PROVE t[k] = v[k]
  <2>1. k + 1 \in 1 .. L - n /\ n + (k + 1) = m + k /\ k \in 1 .. L - m
    BY <1>2, <1>4, <1>7
  <2>2. t[k] = u[k + 1] /\ u[k + 1] = s[n + (k + 1)] /\ v[k] = s[m + k]
    BY <1>1, <1>5, <1>6, <2>1
  <2> QED
    BY <2>1, <2>2
<1>9. t = v
  BY <1>5, <1>6, <1>7, <1>8, SeqEqual
<1>10. Head(u) = s[n + 1]
  <2>1. 1 \in 1 .. L - n
    BY <1>2, <1>4
  <2> QED
    BY <1>1, <1>6, <2>1
<1> QED
  BY <1>1, <1>4, <1>6, <1>9, <1>10 DEF t, u, v, m, L

LEMMA RestAppend ==
  ASSUME NEW S, NEW s \in Seq(S), NEW n \in 0 .. Len(s), NEW x \in S
  PROVE  SubSeq(Append(s, x), n + 1, Len(Append(s, x))) = Append(SubSeq(s, n + 1, Len(s)), x)
<1> DEFINE L == Len(s)
           r == Append(s, x)
           M == Len(r)
           u == SubSeq(s, n + 1, L)
           v == SubSeq(r, n + 1, M)
           w == Append(u, x)
<1>1. /\ r \in Seq(S) /\ M = L + 1 /\ L \in Nat /\ n \in Nat /\ n <= L
      /\ (\A k \in 1 .. L : r[k] = s[k]) /\ r[L + 1] = x
  BY AppendProperties, LenProperties
<1>2. u \in Seq(S) /\ Len(u) = L - n /\ \A k \in 1 .. L - n : u[k] = s[n + k]
  BY RestOfSeq
<1>3. v \in Seq(S) /\ Len(v) = M - n /\ \A k \in 1 .. M - n : v[k] = r[n + k]
  <2>1. n \in 0 .. M
    BY <1>1
  <2> HIDE DEF r
  <2> QED
    BY <1>1, <2>1, RestOfSeq
<1> HIDE DEF r, M, L, u, v
<1>4. /\ w \in Seq(S) /\ Len(w) = Len(u) + 1
      /\ (\A k \in 1 .. Len(u) : w[k] = u[k]) /\ w[Len(u) + 1] = x
  BY <1>2, AppendProperties
<1> HIDE DEF w
<1>5. Len(v) = Len(w) /\ Len(w) = L - n + 1
  BY <1>1, <1>2, <1>3, <1>4
<1>6. ASSUME NEW k \in 1 .. Len(v) PROVE v[k] = w[k]
  <2>1. k \in 1 .. M - n /\ (k = L - n + 1 \/ k \in 1 .. L - n)
    BY <1>1, <1>5
  <2>2. CASE k = L - n + 1
    <3>1. n + k = L + 1 /\ k = Len(u) + 1
      BY <1>1, <1>2, <2>2
    <3> QED
      BY <1>1, <1>3, <1>4, <2>1, <3>1
  <2>3. CASE k \in 1 .. L - n
    <3>1. n + k \in 1 .. L /\ k \in 1 .. Len(u)
      BY <1>1, <1>2, <2>3
    <3>2. v[k] = r[n + k] /\ r[n + k] = s[n + k] /\ u[k] = s[n + k] /\ w[k] = u[k]
      BY <1>1, <1>2, <1>3, <1>4, <2>1, <2>3, <3>1
    <3> QED
      BY <3>2
  <2> QED
    BY <2>1, <2>2, <2>3
<1>7. v = w
  BY <1>3, <1>4, <1>5, <1>6, SeqEqual
<1> QED
  BY <1>7 DEF v, w, u, r, M, L

-----------------------------------------------------------------------------
(* One line less to be read.                                               *)
LEMMA OneLineLess ==
  ASSUME NEW line \in Seq(Symbols), Positions(line, "LF") = {}, NEW rest \in Seq(Symbols)
  PROVE  /\ LineEnds((line \o <<"CR", "LF">>) \o rest) = LineEnds(rest) + 1
         /\ LineEnds(rest) \in Nat
         /\ LineEnds(rest \o (line \o <<"CR", "LF">>)) = LineEnds(rest) + 1
<1> DEFINE l == line \o <<"CR", "LF">>
<1>1. l \in Seq(Symbols) /\ LineEnds(l) = 1
  BY LineEndType, OneLineEnd, ConcatProperties
<1> HIDE DEF l
<1>2. LineEnds(l \o rest) = LineEnds(l) + LineEnds(rest)
      /\ LineEnds(rest \o l) = LineEnds(rest) + LineEnds(l)
  BY <1>1, PositionsConcat DEF LineEnds
<1>3. LineEnds(rest) \in Nat
  BY PositionsFinite DEF LineEnds
<1> QED
  BY <1>1, <1>2, <1>3 DEF l

LEMMA ReadParts ==
  ASSUME Base, Read, UNCHANGED disk
  PROVE  /\ pc = "read" /\ pc \in Busy /\ Moves /\ Frame /\ spoilt' = spoilt
         /\ SameLost /\ pc' # "list" /\ ~Crash
<1>1. pc = "read" /\ pc \in Busy /\ spoilt' = spoilt /\ moved' = moved /\ home' = home
  BY DEF Read, Busy, disk
<1>2. PICK r \in readline(in[serving], link[serving] = "gone") :
           /\ in' = [in EXCEPT ![serving] = r.rest] /\ r.rest \in Seq(Symbols)
           /\ \/ ~r.ok /\ EndThread
              \/ /\ r.ok /\ closed' = closed /\ serving' = serving
                 /\ \/ pc' = "exec" /\ JobOk(job', "exec")
                    \/ pc' = "send" /\ JobOk(job', "send") /\ job'.after = "exec"
  BY ReadCases DEF Base
<1>3. Moves /\ pc' # "list" /\ ~Crash
  BY <1>2 DEF Moves, Busy, Remains, EndThread, Crash
<1>4. serving \in Clients
  BY <1>1 DEF Base, ServerOk, Labels, Busy
<1>5. out[serving] \in Seq(Units) /\ out' = [out EXCEPT ![serving] = out[serving]]
  BY <1>4 DEF Base, ServerOk, Read
<1>6. Frame
  BY <1>2, <1>5 DEF Frame, Read, Base, ServerOk, PeersOk
<1>7. SameLost
  BY <1>1, <1>3, NotListing
<1> QED
  BY <1>1, <1>3, <1>6, <1>7

(* The next line of a client that is not spoilt.                           *)
LEMMA LineTaken ==
  ASSUME PeersOk, NEW c \in Clients, Understood(c), in[c] # <<>>
  PROVE  LET n    == NumRead(c)
             line == lines[c][n + 1]
             rest == Sent(SubSeq(lines[c], (n + 1) + 1, Len(lines[c])))
         IN  /\ n + 1 \in 1 .. Len(lines[c]) /\ line \in Seq(Symbols) /\ Speaks(line)
             /\ rest \in Seq(Symbols) /\ Unread(c) = LineEnds(rest) + 1
             /\ LineEnds(rest) \in Nat
             /\ \A eof : readline(in[c], eof) = {Line(Append(line, "SP"), rest)}
<1> DEFINE ls   == lines[c]
           n    == NumRead(c)
           u    == SubSeq(ls, n + 1, Len(ls))
           line == ls[n + 1]
           rest == Sent(SubSeq(ls, (n + 1) + 1, Len(ls)))
<1>1. ls \in Seq(Seq(Symbols)) /\ n \in 0 .. Len(ls) /\ in[c] = Sent(u)
  BY DEF PeersOk, Understood
<1>2. u # <<>>
  BY <1>1, SentEmpty
<1>3. /\ n + 1 \in 1 .. Len(ls) /\ u \in Seq(Seq(Symbols)) /\ Head(u) = line
      /\ Tail(u) = SubSeq(ls, (n + 1) + 1, Len(ls)) /\ Tail(u) \in Seq(Seq(Symbols))
  <2> HIDE DEF n, ls
  <2> QED
    BY <1>1, <1>2, RestTail
<1>4. Speaks(line)
  BY <1>3 DEF Understood
<1>5. line \in Seq(Symbols)
  BY <1>1, <1>3, ElementOfSeq
<1>6. Sent(u) = (Head(u) \o <<"CR", "LF">>) \o Sent(Tail(u))
  BY <1>2, <1>3, SentTail
<1>7. in[c] = (line \o <<"CR", "LF">>) \o rest /\ rest \in Seq(Symbols)
  BY <1>1, <1>3, <1>6, SentType
<1> HIDE DEF line, rest
<1>8. Positions(line, "CR") = {} /\ Positions(line, "LF") = {} /\ Len(line) < MaxStored
  BY <1>4 DEF Speaks
<1>9. Unread(c) = LineEnds(rest) + 1 /\ LineEnds(rest) \in Nat
  <2>1. Unread(c) = LineEnds(in[c])
    BY DEF Unread, LineEnds
  <2> QED
    BY <1>5, <1>7, <1>8, <2>1, OneLineLess
<1>10. ASSUME NEW eof PROVE readline(in[c], eof) = {Line(Append(line, "SP"), rest)}
  BY <1>5, <1>7, <1>8, ReadsLine
<1> QED
  BY <1>3, <1>4, <1>5, <1>7, <1>9, <1>10 DEF line, rest

LEMMA ServedReadLine ==
  ASSUME IInv, NEW c \in Clients, c = serving, c \notin spoilt, Read, UNCHANGED disk,
         in[c] # <<>>
  PROVE  Served
<1> DEFINE n    == NumRead(c)
           line == lines[c][n + 1]
           rest == Sent(SubSeq(lines[c], (n + 1) + 1, Len(lines[c])))
<1>1. Base /\ PeersOk /\ ServerOk /\ JobOk(job, pc) /\ Running
  BY DEF IInv, Base, Read, Running
<1>2. /\ pc = "read" /\ pc \in Busy /\ Frame /\ spoilt' = spoilt /\ SameLost
  BY <1>1, ReadParts
<1>3. Understood(c)
  BY <1>1 DEF IInv, Understands
<1>4. /\ n + 1 \in 1 .. Len(lines[c]) /\ line \in Seq(Symbols) /\ Speaks(line)
      /\ rest \in Seq(Symbols) /\ Unread(c) = LineEnds(rest) + 1 /\ LineEnds(rest) \in Nat
      /\ \A eof : readline(in[c], eof) = {Line(Append(line, "SP"), rest)}
  BY <1>1, <1>3, LineTaken
<1> DEFINE str == Append(line, "SP")
<1>5. PICK r \in readline(in[serving], link[serving] = "gone") :
           /\ in' = [in EXCEPT ![serving] = r.rest]
           /\ \/ ~r.ok /\ EndThread
              \/ /\ r.ok /\ closed' = closed /\ serving' = serving
                 /\ \/ pc' = "exec" /\ JobOk(job', "exec")
                    \/ pc' = "send" /\ JobOk(job', "send") /\ job'.after = "exec"
                 /\ \E x \in {<<>>, << <<"junk">> >>} :
                      LET words == Words(r.str).words \o x
                      IN  /\ ~Words(r.str).past => x = <<>>
                          /\ Len(words) \in 1 .. 4 =>
                               /\ pc' = "exec"
                               /\ job'.command = words[1]
                               /\ job'.args = SubSeq(words, 2, Len(words))
  BY <1>1, ReadCases
<1> HIDE DEF rest, line
<1>6. r.str = str /\ r.rest = rest /\ r.ok = TRUE
  BY <1>4, <1>5 DEF Line
<1> DEFINE words == Words(str).words
<1>7. AreWords(words, <<line[1]>>, Arguments(line)) /\ Words(str).past = FALSE
  BY <1>4, SpokenWords
<1> HIDE DEF words, str
<1>8. /\ closed' = closed /\ serving' = serving /\ pc' = "exec" /\ JobOk(job', "exec")
      /\ job'.command = <<line[1]>> /\ job'.args = Arguments(line)
  <2>1. words \in Seq(Seq(Symbols)) /\ words \o <<>> = words
    BY <1>7, ConcatEmptySeq DEF AreWords
  <2>2. /\ Len(words) \in 1 .. 4 =>
             pc' = "exec" /\ job'.command = words[1]
                /\ job'.args = SubSeq(words, 2, Len(words))
    BY <1>5, <1>6, <1>7, <2>1 DEF words
  <2> QED
    BY <1>5, <1>6, <1>7, <2>2 DEF AreWords
<1>9. in'[c] = rest /\ lines' = lines /\ out'[c] = out[c] /\ link' = link
  BY <1>1, <1>5, <1>6 DEF Read, PeersOk
<1>10. Unread(c)' = LineEnds(rest)
  BY <1>9 DEF Unread, LineEnds, Positions
<1>11. n \in Nat /\ Len(lines[c]) \in Nat /\ NumRead(c)' = n + 1 /\ n = Len(lines[c]) - Unread(c)
  <2>1. n \in 0 .. Len(lines[c]) /\ Len(lines[c]) \in Nat
    BY <1>1, <1>3, AskedIs DEF Understood
  <2>2. NumRead(c)' = Len(lines[c]) - LineEnds(rest) /\ n = Len(lines[c]) - Unread(c)
    BY <1>9, <1>10 DEF NumRead
  <2> HIDE DEF n
  <2> QED
    BY <1>4, <2>1, <2>2
<1>12. SameFor(c)
  <2>1. ~Answering(c) /\ Answering(c)'
    BY <1>2, <1>8 DEF Answering
  <2>2. Given(c) = n - 0 /\ Given(c)' = NumRead(c)' - 1
    BY <2>1 DEF Given, NumRead
  <2>3. Given(c)' = Given(c)
    <3> HIDE DEF n
    <3> QED
      BY <1>11, <2>2
  <2>4. job.todo = <<>> /\ job'.todo = <<>>
    BY <1>1, <1>2, <1>8 DEF JobOk
  <2>5. Owed(c) = <<>> /\ Owed(c)' = <<>>
    BY <1>8, <2>4, OwedServing, OwedNext, OwesEmpty
  <2> QED
    BY <1>9, <2>3, <2>5 DEF SameFor, Told
<1>13. Understood(c)'
  <2>1. in'[c] = Sent(SubSeq(lines[c], NumRead(c)' + 1, Len(lines[c])))
    BY <1>9, <1>11 DEF rest
  <2>2. NumRead(c)' \in 0 .. Len(lines[c])
    <3> HIDE DEF n
    <3> QED
      BY <1>4, <1>11
  <2>3. link[c] # "gone" \/ c \in closed
    BY <1>3 DEF Understood
  <2>4. link'[c] = "gone" => c \in closed'
    BY <1>8, <1>9, <2>3
  <2> QED
    BY <1>3, <1>9, <2>1, <2>2, <2>4 DEF Understood
<1>14. Understanding'
  <2>1. NumRead(serving)' = n + 1
    BY <1>8, <1>11
  <2>2. Current' = line
    BY <1>8, <1>9, <2>1 DEF Current, line
  <2>3. NumRead(serving)' # 0
    <3> HIDE DEF n
    <3> QED
      BY <1>11, <2>1
  <2> QED
    BY <1>8, <2>2, <2>3 DEF Understanding
<1>15. ~Ending /\ ~Ending' /\ pc' \in Busy /\ Remains
  BY <1>2, <1>8 DEF Ending, Busy, Remains
<1> QED
  BY <1>2, <1>12, <1>13, <1>14, <1>15, ServedOn

LEMMA ServedReadEnd ==
  ASSUME IInv, NEW c \in Clients, c = serving, c \notin spoilt, Read, UNCHANGED disk,
         in[c] = <<>>
  PROVE  Served
<1>1. Base /\ PeersOk /\ JobOk(job, pc)
  BY DEF IInv, Base
<1>2. /\ pc = "read" /\ pc \in Busy /\ Frame /\ spoilt' = spoilt /\ SameLost
  BY <1>1, ReadParts
<1>3. PICK r \in readline(in[serving], link[serving] = "gone") :
           /\ in' = [in EXCEPT ![serving] = r.rest]
           /\ \/ ~r.ok /\ EndThread
              \/ r.ok
  BY <1>1, ReadCases DEF Base, IInv
<1>4. link[c] = "gone" /\ r = NULL
  <2>1. readline(<<>>, link[c] = "gone") = IF link[c] = "gone" THEN {NULL} ELSE {}
    BY ReadsNothing
  <2>2. r \in IF link[c] = "gone" THEN {NULL} ELSE {}
    BY <1>3, <2>1
  <2> QED
    BY <2>2
<1>5. EndThread /\ in'[c] = <<>>
  BY <1>1, <1>3, <1>4 DEF NULL, PeersOk
<1>6. c \in Left
  BY <1>4 DEF Left
<1>7. SameFor(c)
  <2>1. serving' = NoClient /\ c # NoClient /\ pc' = "accept"
    BY <1>5, ServerAssumption DEF EndThread
  <2>2. lines' = lines /\ out' = out
    BY DEF Read
  <2>3. Unread(c)' = Unread(c) /\ ~Answering(c) /\ ~Answering(c)'
    BY <1>2, <1>5, <2>1 DEF Unread, Positions, Answering
  <2>4. Owed(c) = <<>> /\ Owed(c)' = <<>>
    <3>1. job.todo = <<>>
      BY <1>1, <1>2 DEF JobOk
    <3> QED
      BY <2>1, <3>1, OwedServing, OwesEmpty DEF Owed
  <2> QED
    BY <2>2, <2>3, <2>4 DEF SameFor, Given, Told
<1> QED
  BY <1>2, <1>5, <1>6, <1>7, ServedClosed

LEMMA ServedRead ==
  ASSUME IInv, Read, UNCHANGED disk
  PROVE  Served
<1>1. Base
  BY DEF IInv
<1>2. /\ pc = "read" /\ pc \in Busy /\ Moves /\ Frame /\ spoilt' = spoilt /\ SameLost
  BY <1>1, ReadParts
<1>3. serving \in Clients
  BY <1>1, <1>2, BusyServes
<1>4. CASE serving \in spoilt
  BY <1>2, <1>4, ServedSpoilt DEF SameLost
<1>5. CASE serving \notin spoilt
  <2>1. PICK c \in Clients : c = serving
    BY <1>3
  <2> QED
    BY <1>5, <2>1, ServedReadLine, ServedReadEnd
<1> QED
  BY <1>4, <1>5

-----------------------------------------------------------------------------
(* What was said and is still to be said is the same when one more of the  *)
(* messages is sent.                                                       *)
LEMMA Transmitted ==
  ASSUME Base, NEW c \in Clients, c = serving, pc = "send", Emit(Head(job.todo).msg)
  PROVE  /\ Told(c) = out'[c] \o Owes(Tail(job.todo))
         /\ Tail(job.todo) = <<>> => Told(c) = out'[c] /\ out'[c] \o <<>> = out'[c]
<1> DEFINE m    == Head(job.todo).msg
           rest == Tail(job.todo)
<1>1. JobOk(job, "send")
  BY DEF Base
<1>2. /\ job.todo \in Seq(Messages) /\ job.todo # <<>> /\ m \in Seq(Units)
      /\ rest \in Seq(Messages)
  BY <1>1, HeadOk, HeadTailProperties
<1>3. Owes(job.todo) = m \o Owes(rest) /\ Owes(rest) \in Seq(Units)
  BY <1>2, OwesNext, OwesType
<1>4. out \in [Clients -> Seq(Units)] /\ out' = [out EXCEPT ![serving] = @ \o m]
  BY DEF Base, ServerOk, Emit
<1>5. out[c] \in Seq(Units) /\ out'[c] = out[c] \o m
  BY <1>4
<1>6. Told(c) = out[c] \o Owes(job.todo)
  BY OwedServing DEF Told
<1> HIDE DEF m, rest
<1> DEFINE o == out[c]
           r == Owes(rest)
<1>7. Told(c) = out'[c] \o Owes(rest)
  <2>1. o \in Seq(Units) /\ m \in Seq(Units) /\ r \in Seq(Units)
    BY <1>2, <1>3, <1>5
  <2>2. Told(c) = o \o (m \o r) /\ out'[c] = o \o m
    BY <1>3, <1>5, <1>6
  <2> HIDE DEF o, r
  <2>3. (o \o m) \o r = o \o (m \o r)
    BY <2>1, Regrouped
  <2>4. Told(c) = out'[c] \o r
    BY <2>2, <2>3
  <2> QED
    BY <2>4 DEF r
<1> HIDE DEF o, r
<1>8. rest = <<>> => Owes(rest) = <<>>
  BY OwesEmpty
<1>9. out'[c] \in Seq(Units)
  BY <1>2, <1>5, ConcatProperties
<1>10. out'[c] \o <<>> = out'[c]
  BY <1>9, ConcatEmptySeq
<1> QED
  BY <1>7, <1>8, <1>10 DEF rest

LEMMA TransmitParts ==
  ASSUME Base, Transmit, UNCHANGED disk
  PROVE  /\ pc = "send" /\ pc \in Busy /\ JobOk(job, "send") /\ link[serving] = "up"
         /\ Emit(Head(job.todo).msg) /\ SendNext /\ spoilt' = spoilt
         /\ Moves /\ Frame /\ SameLost /\ pc' # "list"
         /\ lines' = lines /\ in' = in /\ link' = link
<1>1. /\ pc = "send" /\ pc \in Busy /\ JobOk(job, "send") /\ link[serving] = "up"
      /\ Emit(Head(job.todo).msg) /\ SendNext /\ spoilt' = spoilt /\ moved' = moved
      /\ UNCHANGED <<peers, disk, moved>> /\ spoilt' \in SUBSET Clients /\ home' = home
      /\ lines' = lines /\ in' = in /\ link' = link
  BY DEF Transmit, Base, Busy, PeersOk, peers, disk
<1>2. Head(job.todo).msg \in Seq(Units)
  BY <1>1, HeadOk
<1>3. Frame
  BY <1>1, <1>2, EmitFrame
<1>4. Moves
  BY <1>1, SendNextMoves
<1>5. pc' # "list"
  BY <1>1, SendNextCases DEF EndThread, Crash
<1>6. SameLost
  BY <1>1, <1>5, NotListing
<1> QED
  BY <1>1, <1>3, <1>4, <1>5, <1>6

LEMMA ServedTransmitTo ==
  ASSUME IInv, NEW c \in Clients, c = serving, c \notin spoilt, Transmit, UNCHANGED disk
  PROVE  Served
<1>1. Base /\ c # NoClient
  BY ServerAssumption DEF IInv
<1>2. /\ pc = "send" /\ pc \in Busy /\ JobOk(job, "send") /\ link[c] = "up"
      /\ Emit(Head(job.todo).msg) /\ SendNext /\ spoilt' = spoilt
      /\ Frame /\ SameLost /\ lines' = lines /\ in' = in /\ link' = link
  BY <1>1, TransmitParts
<1>3. Understood(c) /\ Understanding
  BY <1>2, ServedIsThere DEF Busy
<1>4. job.after \notin {"exec", "abort"}
  BY <1>2, <1>3 DEF Understanding
<1>5. /\ Told(c) = out'[c] \o Owes(Tail(job.todo))
      /\ Tail(job.todo) = <<>> => Told(c) = out'[c] /\ out'[c] \o <<>> = out'[c]
  BY <1>1, <1>2, Transmitted
<1>6. ASSUME ~Answering(c)', Told(c)' = Told(c) PROVE SameFor(c)
  <2>1. ~Answering(c)
    BY <1>2 DEF Answering
  <2>2. Unread(c)' = Unread(c)
    BY <1>2 DEF Unread, Positions
  <2> QED
    BY <1>2, <1>6, <2>1, <2>2 DEF SameFor, Given
<1>7. CASE /\ Tail(job.todo) # <<>> /\ pc' = "send" /\ closed' = closed /\ serving' = serving
           /\ JobOk(job', pc') /\ job'.todo = Tail(job.todo) /\ job'.after = job.after
  <2>1. Told(c)' = Told(c)
    BY <1>5, <1>7, OwedNext DEF Told
  <2>2. SameFor(c)
    BY <1>6, <1>7, <2>1 DEF Answering
  <2>3. Understanding' /\ pc' \in Busy /\ Remains /\ (Ending' <=> Ending)
    BY <1>2, <1>4, <1>7 DEF Understanding, Busy, Remains, Ending
  <2>4. Understood(c)'
    BY <1>2, <1>3, <1>7, UnderstoodStays DEF Understood
  <2> QED
    BY <1>2, <2>2, <2>3, <2>4, ServedOn
<1>8. CASE Tail(job.todo) = <<>> /\ job.after = "exit" /\ EndThread
  <2>1. pc' = "accept" /\ serving' = NoClient
    BY <1>8 DEF EndThread
  <2>2. Told(c)' = Told(c)
    BY <1>1, <1>5, <1>8, <2>1 DEF Told, Owed
  <2>3. SameFor(c)
    BY <1>6, <2>1, <2>2 DEF Answering
  <2>4. Ending
    BY <1>2, <1>8 DEF Ending
  <2> QED
    BY <1>2, <1>8, <2>3, <2>4, ServedClosed
<1>9. CASE /\ Tail(job.todo) = <<>> /\ job.after \in {"read", "exec"} /\ pc' = job.after
           /\ closed' = closed /\ serving' = serving
           /\ JobOk(job', pc') /\ job'.todo = <<>>
  <2>1. pc' = "read" /\ job.after = "read"
    BY <1>4, <1>9
  <2>2. Told(c)' = Told(c)
    BY <1>5, <1>9, OwedNext, OwesEmpty DEF Told
  <2>3. SameFor(c)
    BY <1>6, <2>1, <2>2 DEF Answering
  <2>4. Understanding' /\ pc' \in Busy /\ Remains /\ (Ending' <=> Ending)
    BY <1>2, <1>9, <2>1 DEF Understanding, Busy, Remains, Ending
  <2>5. Understood(c)'
    BY <1>2, <1>3, <1>9, UnderstoodStays DEF Understood
  <2> QED
    BY <1>2, <2>3, <2>4, <2>5, ServedOn
<1> QED
  BY <1>2, <1>4, <1>7, <1>8, <1>9, SendNextCases

LEMMA ServedTransmit ==
  ASSUME IInv, Transmit, UNCHANGED disk
  PROVE  Served
<1>1. Base
  BY DEF IInv
<1>2. pc \in Busy /\ Moves /\ Frame /\ spoilt' = spoilt /\ SameLost
  BY <1>1, TransmitParts
<1>3. serving \in Clients
  BY <1>1, <1>2, BusyServes
<1>4. CASE serving \in spoilt
  BY <1>2, <1>4, ServedSpoilt DEF SameLost
<1>5. CASE serving \notin spoilt
  <2>1. PICK c \in Clients : c = serving
    BY <1>3
  <2> QED
    BY <1>5, <2>1, ServedTransmitTo
<1> QED
  BY <1>4, <1>5

-----------------------------------------------------------------------------
(* The step of another client than those that are spoilt.                  *)
LEMMA SpoiltNow ==
  ASSUME IInv, NEW c \in Clients, Running', Running, spoilt' = spoilt \cup {c},
         \A d \in Clients \ (spoilt \cup {c}) : Understood(d)' /\ SameFor(d),
         serving' \in Clients \ (spoilt \cup {c}) => Understanding'
  PROVE  Understands' /\ Excused(c)
<1>1. Understands'
  BY DEF Understands
<1>2. Excused(c)
  BY KeptExcused
<1> QED
  BY <1>1, <1>2

(* A part of a message.                                                    *)
LEMMA ServedTransmitPart ==
  ASSUME IInv, TransmitPart, UNCHANGED disk
  PROVE  Served
<1>1. Base
  BY DEF IInv
<1>2. /\ pc = "send" /\ pc \in Busy /\ JobOk(job, "send") /\ moved' = moved /\ home' = home
      /\ spoilt' = spoilt \cup {serving} /\ UNCHANGED <<peers, disk, moved>>
      /\ lines' = lines /\ in' = in /\ link' = link /\ backlog' = backlog /\ store' = store
  BY <1>1 DEF TransmitPart, Base, Busy, peers, disk
<1>3. PICK c \in Clients : c = serving
  BY <1>1, <1>2, BusyServes
<1>4. spoilt' = spoilt \cup {c} /\ spoilt' \in SUBSET Clients
  BY <1>1, <1>2, <1>3 DEF Base, PeersOk
<1>5. PICK m \in Seq(Units) : Emit(m)
  BY <1>1, TransmitPartCases
<1>6. Frame
  BY <1>1, <1>2, <1>4, <1>5, EmitFrame
<1>7. \/ /\ Remains /\ pc' = "send" /\ JobOk(job', "send") /\ job'.after = job.after
      \/ SendNext
  BY <1>1, TransmitPartCases
<1>8. Moves /\ pc' # "list"
  <2>1. CASE SendNext
    BY <1>2, <2>1, SendNextMoves, SendNextCases DEF EndThread, Crash
  <2>2. CASE Remains /\ pc' = "send" /\ JobOk(job', "send")
    BY <2>2 DEF Moves, Busy
  <2> QED
    BY <1>7, <2>1, <2>2
<1>9. SameLost
  BY <1>2, <1>8, NotListing
<1>10. CASE c \in spoilt
  BY <1>2, <1>3, <1>4, <1>6, <1>8, <1>9, <1>10, ServedSpoilt DEF SameLost
<1>11. CASE c \notin spoilt
  <2>1. /\ \A d \in Clients \ spoilt : d # c => Understood(d)'
        /\ \A d \in Clients : d # c => SameFor(d)
        /\ Accepted' = Accepted /\ Left' = Left
    BY <1>1, <1>2, <1>3, <1>6, <1>8, FrameParts, MovesParts, OthersStay
  <2>2. Tail(job.todo) # <<>> \/ Head(job.todo).retried
    <3>1. /\ job.todo \in Seq(Messages) /\ job.todo # <<>>
          /\ job.todo[Len(job.todo)].retried
      BY <1>2, HeadOk
    <3>2. ASSUME Tail(job.todo) = <<>> PROVE Len(job.todo) = 1
      <4>1. /\ Len(Tail(job.todo)) = Len(job.todo) - 1 /\ Len(job.todo) \in Nat
        BY <3>1, HeadTailProperties, LenProperties
      <4>2. Len(Tail(job.todo)) = 0
        BY <3>2, EmptySeq
      <4> QED
        BY <4>1, <4>2
    <3> QED
      BY <3>1, <3>2
  <2>3. Remains /\ pc' = "send" /\ job'.after = job.after
    <3>1. CASE ~Head(job.todo).retried /\ SendNext
      BY <1>2, <2>2, <3>1, SendNextCases DEF Remains
    <3> QED
      BY <1>1, <3>1, TransmitPartCases
  <2>4. serving' = c /\ Running /\ Running'
    BY <1>2, <1>3, <2>3 DEF Remains, Running
  <2>5. Understands' /\ Excused(c)
    BY <1>4, <2>1, <2>4, SpoiltNow
  <2>6. Ending' <=> Ending
    BY <1>2, <2>3 DEF Ending
  <2>7. Service!Next
    BY <1>2, <1>3, <1>9, <2>1, <2>4, <2>5, <2>6, LikeOffend
  <2> QED
    BY <2>5, <2>7 DEF Served
<1> QED
  BY <1>10, <1>11

LEMMA ServedTransmitInVain ==
  ASSUME IInv, TransmitInVain, UNCHANGED disk
  PROVE  Served
<1>1. Base
  BY DEF IInv
<1>2. /\ pc = "send" /\ pc \in Busy /\ JobOk(job, "send") /\ moved' = moved /\ home' = home
      /\ moved \in BOOLEAN
      /\ spoilt' = spoilt /\ UNCHANGED <<peers, out, disk, spoilt>> /\ link[serving] = "gone"
  BY <1>1 DEF TransmitInVain, Base, ServerOk, Busy, disk
<1>3. serving \in spoilt
  BY <1>2, ServedIsThere DEF Busy
<1>4. SendNext \/ EndThread \/ Crash
  BY DEF TransmitInVain
<1>5. Moves /\ pc' # "list"
  <2>1. CASE SendNext
    BY <1>2, <2>1, SendNextMoves, SendNextCases DEF EndThread, Crash
  <2> QED
    BY <1>4, <2>1 DEF Moves, EndThread, Crash
<1>6. Frame
  BY <1>1, <1>2, SilentFrame
<1>7. SameLost
  BY <1>2, <1>5, NotListing
<1> QED
  BY <1>2, <1>3, <1>5, <1>6, <1>7, ServedSpoilt DEF SameLost

-----------------------------------------------------------------------------
(* A client, when neither it nor the server moves.                         *)
LEMMA StillSame ==
  ASSUME NEW c, lines'[c] = lines[c], in'[c] = in[c], out'[c] = out[c],
         serving' = serving, pc' = pc, job' = job
  PROVE  SameFor(c)
<1>1. Unread(c)' = Unread(c) /\ (Answering(c)' <=> Answering(c))
  BY DEF Unread, Answering, Positions
<1>2. Owed(c)' = Owed(c)
  BY DEF Owed
<1> QED
  BY <1>1, <1>2 DEF SameFor, Given, Told

LEMMA UnderstandingStays ==
  ASSUME Understanding, UNCHANGED <<server, disk>>,
         pc \in AnswerLabels => NumRead(serving)' = NumRead(serving) /\ Current' = Current
  PROVE  Understanding'
<1>1. /\ pc' = pc /\ serving' = serving /\ job' = job /\ moved' = moved
      /\ home' = home /\ store' = store
  BY DEF server, disk
<1>2. Lookup(job.args[1])' = Lookup(job.args[1])
  BY <1>1 DEF Lookup, Reachable
<1>3. Found(store, Denoted(job.args[1]))[Looked(job)]' = Found(store, Denoted(job.args[1]))[Looked(job)]
  BY <1>1
<1>4. StillThere => StillThere'
  BY <1>1 DEF StillThere, NextName
<1> QED
  BY <1>1, <1>2, <1>3, <1>4 DEF Understanding, AnswerLabels

-----------------------------------------------------------------------------
LEMMA ServedAccept ==
  ASSUME IInv, Accept, UNCHANGED disk
  PROVE  Served
<1>1. /\ Base /\ pc = "accept" /\ link' = link /\ lines' = lines /\ in' = in /\ out' = out
      /\ closed' = closed /\ moved' = moved /\ spoilt' = spoilt /\ home' = home
      /\ store' = store /\ Running
  BY DEF Accept, disk, IInv, Running
<1>2. Connected /\ serving = NoClient /\ Understands /\ PeersOk
  BY <1>1 DEF IInv, Base, ServerOk
<1>3. PICK c \in Clients : c = serving'
  BY <1>1, AcceptCases
<1>4. /\ ToSet(backlog) = ToSet(backlog') \cup {c} /\ c \notin ToSet(backlog')
      /\ pc' = "send" /\ Owes(job'.todo) = AckMsg /\ job'.after = "read"
  BY <1>1, <1>3, AcceptCases
<1>5. Quiet(c) /\ link[c] # "away" /\ c \in ToSet(backlog)
  BY <1>2, <1>4 DEF Connected
<1>6. c \notin Accepted /\ Accepted' = Accepted \cup {c} /\ Left' = Left
  BY <1>1, <1>4, <1>5 DEF Accepted, Left
<1>7. ASSUME NEW d \in Clients, d # c PROVE SameFor(d)
  BY <1>1, <1>2, <1>3, <1>7, OtherSame, ServerAssumption
<1>8. ASSUME NEW d \in Clients \ spoilt PROVE Understood(d)'
  <2>1. Understood(d)
    BY <1>2 DEF Understands
  <2>2. link[d] = "gone" => d \in closed
    BY <1>2, <2>1, ServerAssumption DEF Understood
  <2> QED
    BY <1>1, <2>1, <2>2, UnderstoodStays
<1>9. Understanding'
  BY <1>4 DEF Understanding
<1>10. Understands'
  BY <1>1, <1>8, <1>9 DEF Understands
<1>11. lines'[c] = lines[c] /\ Given(c)' = Given(c)
  BY <1>1, <1>4 DEF Given, Unread, Positions, Answering
<1>12. Told(c)' = Told(c) \o AckMsg
  <2>1. Owed(c) = <<>> /\ out[c] = <<>>
    BY <1>2, <1>5, ServerAssumption DEF Owed, Quiet
  <2>2. Owed(c)' = AckMsg
    BY <1>3, <1>4, OwedNext
  <2>3. <<>> \o <<>> = <<>>
    BY EmptySeq, ConcatEmptySeq
  <2>4. Told(c) = <<>> /\ Told(c)' = <<>> \o AckMsg
    BY <1>1, <2>1, <2>2, <2>3 DEF Told
  <2> QED
    BY <2>4
<1>13. /\ \A d \in Clients : d # c => lines'[d] = lines[d] /\ Given(d)' = Given(d)
                                      /\ Told(d)' = Told(d)
  BY <1>7 DEF SameFor
<1>14. Asked' = Asked
  BY <1>1 DEF Asked, Kept
<1>15. Answered' = Answered
  BY <1>1, <1>11, <1>13 DEF Answered, Given
<1>16. Answers' = IF c \in spoilt THEN Answers ELSE [Answers EXCEPT ![c] = @ \o AckMsg]
  <2>1. ASSUME NEW d \in Clients
        PROVE  Answers'[d] = (IF c \in spoilt THEN Answers
                              ELSE [Answers EXCEPT ![c] = @ \o AckMsg])[d]
    BY <1>1, <1>12, <1>13 DEF Answers, Told, Kept
  <2> QED
    BY <2>1 DEF Answers
<1>17. Running' /\ ~Ending /\ ~Ending' /\ SameLost
  BY <1>1, <1>4, NotListing DEF Running, Ending
<1>18. Service!Next
  BY <1>1, <1>2, <1>3, <1>6, <1>14, <1>15, <1>16, <1>17, LikeAccept
<1> QED
  BY <1>10, <1>18 DEF Served

LEMMA ServedAcceptFails ==
  ASSUME IInv, AcceptFails, UNCHANGED disk
  PROVE  Served
<1> DEFINE h == Head(backlog)
<1>1. /\ Base /\ pc = "accept" /\ link' = link /\ lines' = lines /\ in' = in /\ out' = out
      /\ moved' = moved /\ spoilt' = spoilt \cup {h} /\ home' = home
      /\ store' = store /\ backlog' = Tail(backlog) /\ backlog # <<>> /\ Running
      /\ \/ closed' = closed \cup {h} /\ pc' = pc /\ serving' = serving /\ job' = job
         \/ Crash
  BY DEF AcceptFails, disk, IInv, Running
<1>2. Connected /\ serving = NoClient /\ Understands /\ PeersOk /\ backlog \in Seq(Clients)
  BY <1>1 DEF IInv, Base, ServerOk, PeersOk
<1>3. /\ h \in Clients /\ ToSet(backlog) = ToSet(backlog') \cup {h} /\ h \notin ToSet(backlog')
  BY <1>1, <1>2, SetTail DEF Connected
<1> HIDE DEF h
<1>4. PICK c \in Clients : c = h
  BY <1>3
<1>5. serving' = NoClient /\ closed \subseteq closed' /\ pc' \in {"accept", "dead"}
  BY <1>1, <1>2 DEF Crash, Base, ServerOk
<1>6. /\ c \notin Accepted /\ Accepted' = Accepted \cup {c} /\ Left' = Left
  <2>1. link[c] # "away" /\ c \in ToSet(backlog)
    BY <1>2, <1>3, <1>4 DEF Connected
  <2> QED
    BY <1>1, <1>3, <1>4, <2>1 DEF Accepted, Left
<1>7. ASSUME NEW d \in Clients PROVE SameFor(d)
  BY <1>1, <1>2, <1>5, OtherSame, ServerAssumption
<1>8. ASSUME NEW d \in Clients \ spoilt PROVE Understood(d)'
  <2>1. Understood(d)
    BY <1>2 DEF Understands
  <2>2. link[d] = "gone" => d \in closed
    BY <1>2, <2>1, ServerAssumption DEF Understood
  <2> QED
    BY <1>1, <1>5, <2>1, <2>2, UnderstoodStays
<1>9. Understands'
  BY <1>1, <1>5, <1>8, ServerAssumption DEF Understands
<1>10. Excused(c)
  BY <1>1, <1>4, <1>7, KeptExcused
<1>11. ~Ending /\ ~Ending' /\ SameLost
  BY <1>1, <1>5, NotListing DEF Ending
<1>12. Service!Next
  BY <1>1, <1>2, <1>5, <1>6, <1>10, <1>11, LikeRefuse
<1> QED
  BY <1>9, <1>12 DEF Served

-----------------------------------------------------------------------------
LEMMA ServedDial ==
  ASSUME IInv, NEW c \in Clients, Dial(c)
  PROVE  Served
<1>1. /\ link[c] = "away" /\ link' = [link EXCEPT ![c] = "up"]
      /\ backlog' = Append(backlog, c) /\ Running
      /\ lines' = lines /\ in' = in /\ out' = out /\ closed' = closed /\ pc' = pc
      /\ serving' = serving /\ job' = job /\ moved' = moved /\ home' = home
      /\ store' = store /\ spoilt' = spoilt /\ UNCHANGED <<server, disk>>
  BY DEF Dial, server, disk
<1>2. Base /\ Understands /\ Connected /\ PeersOk
  BY <1>1 DEF IInv, Base
<1>3. ToSet(backlog') = ToSet(backlog) \cup {c}
  BY <1>1, <1>2, SetAppend DEF PeersOk
<1>4. Accepted' = Accepted /\ Left' = Left
  BY <1>1, <1>2, <1>3 DEF Accepted, Left, Connected, PeersOk
<1>5. SameRequests
  <2>1. \A d \in Clients \ spoilt : SameFor(d)
    BY <1>1, StillSame
  <2> QED
    BY <1>1, <2>1, KeptSame
<1>6. Running' /\ (Ending' <=> Ending) /\ SameLost
  BY <1>1 DEF Running, Ending, SameLost, Lost
<1>7. ASSUME NEW d \in Clients \ spoilt PROVE Understood(d)'
  <2>1. Understood(d)
    BY <1>2 DEF Understands
  <2>2. link'[d] = "gone" => link[d] = "gone"
    BY <1>1, <1>2 DEF PeersOk
  <2> QED
    BY <1>1, <2>1, <2>2, UnderstoodStays DEF Understood
<1>8. ASSUME serving \in Clients \ spoilt PROVE Understanding'
  <2>1. Understanding
    BY <1>2, <1>8 DEF Understands
  <2>2. NumRead(serving)' = NumRead(serving) /\ Current' = Current
    BY <1>1 DEF NumRead, Unread, Positions, Current
  <2> QED
    BY <1>1, <2>1, <2>2, UnderstandingStays
<1>9. Understands'
  BY <1>1, <1>7, <1>8 DEF Understands
<1>10. UNCHANGED Service!serviceVars
  BY <1>1, <1>4, <1>5, <1>6, LikeStutter
<1> QED
  BY <1>9, <1>10 DEF Served

LEMMA ServedEdit ==
  ASSUME IInv, Edit
  PROVE  Served
<1>1. /\ link' = link /\ lines' = lines /\ in' = in /\ backlog' = backlog /\ out' = out
      /\ closed' = closed /\ pc' = pc /\ serving' = serving /\ job' = job
      /\ moved' = moved /\ home' = home /\ Running
      /\ spoilt' = IF pc \in {"md5", "list"} THEN spoilt \cup {serving} ELSE spoilt
  BY DEF Edit, peers, server
<1>2. Base /\ Understands /\ Connected /\ PeersOk /\ store' \in Stores
  BY <1>1, EditKeeps DEF IInv, Base
<1>3. Accepted' = Accepted /\ Left' = Left
  BY <1>1 DEF Accepted, Left
<1>4. Running' /\ (Ending' <=> Ending) /\ SameLost
  BY <1>1 DEF Running, Ending, SameLost, Lost
<1>5. ASSUME NEW d \in Clients PROVE SameFor(d)
  BY <1>1, StillSame
<1>6. ASSUME NEW d \in Clients \ spoilt PROVE Understood(d)'
  <2>1. Understood(d)
    BY <1>2 DEF Understands
  <2> QED
    BY <1>1, <2>1, UnderstoodStays DEF Understood
<1>7. ASSUME serving \in Clients \ spoilt, pc \notin {"md5", "list"} PROVE Understanding'
  <2>1. Understanding
    BY <1>2, <1>7 DEF Understands
  <2>2. NumRead(serving)' = NumRead(serving) /\ Current' = Current
    BY <1>1 DEF NumRead, Unread, Positions, Current
  <2> QED
    BY <1>1, <1>7, <2>1, <2>2 DEF Understanding
<1>8. Understands'
  BY <1>1, <1>6, <1>7 DEF Understands
<1>9. CASE spoilt' = spoilt
  <2>1. SameRequests
    BY <1>5, <1>9, KeptSame
  <2>2. Service!Next
    BY <1>1, <1>2, <1>3, <1>4, <1>9, <2>1, LikeEdit
  <2> QED
    BY <1>8, <2>2 DEF Served
<1>10. CASE spoilt' # spoilt
  <2>1. pc \in AnswerLabels /\ spoilt' = spoilt \cup {serving} /\ serving \notin spoilt
    BY <1>1, <1>10 DEF AnswerLabels
  <2>2. PICK c \in Clients : c = serving
    BY <1>2, <2>1 DEF Base, ServerOk, AnswerLabels
  <2>3. Excused(c)
    BY <1>5, <2>1, <2>2, KeptExcused
  <2>4. Answered[c] < Len(Asked[c])
    <3>1. /\ NumRead(c) \in 1 .. Len(lines[c]) /\ Answered[c] = NumRead(c) - 1
          /\ Len(Asked[c]) = Len(lines[c])
      BY <2>1, <2>2, AnswersCurrent
    <3>2. Len(lines[c]) \in Nat
      BY <1>2, <2>1, <2>2, AskedIs
    <3> QED
      BY <3>1, <3>2
  <2>5. Excused(serving) /\ serving # NoClient /\ Answered[serving] < Len(Asked[serving])
    BY <2>2, <2>3, <2>4, ServerAssumption
  <2>6. Service!Next
    BY <1>1, <1>2, <1>3, <1>4, <2>5, LikeEdit
  <2> QED
    BY <1>8, <2>6 DEF Served
<1> QED
  BY <1>9, <1>10

-----------------------------------------------------------------------------
(* A step of a client that is another one than that served, or one that    *)
(* does not change the line that is answered.                              *)
LEMMA ClientStays ==
  ASSUME IInv, Running, UNCHANGED <<server, disk, out, closed, backlog>>, NEW c \in Clients,
         spoilt' \in {spoilt, spoilt \cup {c}},
         \A d \in Clients : d # c => /\ link'[d] = link[d] /\ lines'[d] = lines[d]
                                     /\ in'[d] = in[d]
  PROVE  /\ Running' /\ (Ending' <=> Ending) /\ SameLost /\ serving' = serving /\ store' = store
         /\ pc' = pc /\ job' = job
         /\ \A d \in Clients : d # c => SameFor(d)
         /\ \A d \in Clients \ spoilt : d # c => Understood(d)'
         /\ serving \in Clients \ spoilt /\ serving # c => Understanding'
<1>1. /\ pc' = pc /\ serving' = serving /\ job' = job /\ moved' = moved
      /\ home' = home /\ store' = store /\ out' = out /\ closed' = closed
  BY DEF server, disk
<1>2. Running' /\ (Ending' <=> Ending) /\ SameLost
  BY <1>1 DEF Running, Ending, SameLost, Lost
<1>3. Understands
  BY DEF IInv
<1>4. ASSUME NEW d \in Clients, d # c PROVE SameFor(d)
  BY <1>1, <1>4, StillSame
<1>5. ASSUME NEW d \in Clients \ spoilt, d # c PROVE Understood(d)'
  <2>1. Understood(d)
    BY <1>3 DEF Understands
  <2>2. link'[d] = link[d] /\ lines'[d] = lines[d] /\ in'[d] = in[d]
    BY <1>5
  <2> QED
    BY <1>1, <2>1, <2>2, UnderstoodStays DEF Understood
<1>6. ASSUME serving \in Clients \ spoilt, serving # c PROVE Understanding'
  <2>1. Understanding
    BY <1>3, <1>6 DEF Understands
  <2>2. lines'[serving] = lines[serving] /\ in'[serving] = in[serving]
    BY <1>6
  <2>3. NumRead(serving)' = NumRead(serving) /\ Current' = Current
    BY <1>1, <2>2 DEF NumRead, Unread, Positions, Current
  <2> QED
    BY <2>1, <2>3, UnderstandingStays
<1> QED
  BY <1>1, <1>2, <1>4, <1>5, <1>6

LEMMA ServedLeave ==
  ASSUME IInv, NEW c \in Clients, Leave(c)
  PROVE  Served
<1>1. /\ link[c] = "up" /\ link' = [link EXCEPT ![c] = "gone"] /\ Running
      /\ lines' = lines /\ UNCHANGED <<server, disk, out, closed, backlog>>
      /\ \/ in' = in /\ spoilt' = IF Settled(c) THEN spoilt ELSE spoilt \cup {c}
         \/ /\ \E line \in Torn : in' = [in EXCEPT ![c] = @ \o line]
            /\ spoilt' = spoilt \cup {c}
  BY DEF Leave
<1>2. Base /\ Understands /\ PeersOk
  BY <1>1 DEF IInv, Base
<1>3. \A d \in Clients : d # c => /\ link'[d] = link[d] /\ lines'[d] = lines[d]
                                  /\ in'[d] = in[d]
  BY <1>1, <1>2 DEF PeersOk
<1>4. spoilt' \in {spoilt, spoilt \cup {c}}
  BY <1>1
<1>5. /\ Running' /\ (Ending' <=> Ending) /\ SameLost /\ serving' = serving /\ store' = store
      /\ pc' = pc /\ job' = job
      /\ \A d \in Clients : d # c => SameFor(d)
      /\ \A d \in Clients \ spoilt : d # c => Understood(d)'
      /\ serving \in Clients \ spoilt /\ serving # c => Understanding'
  BY <1>1, <1>3, <1>4, ClientStays
<1>6. Accepted' = Accepted /\ c \notin Left /\ Left' = Left \cup {c}
  BY <1>1, <1>2 DEF Accepted, Left, PeersOk
<1>7. CASE spoilt' = spoilt \cup {c}
  <2>1. Understands' /\ Excused(c)
    BY <1>1, <1>5, <1>7, SpoiltNow
  <2>2. Service!Next
    BY <1>1, <1>5, <1>6, <2>1, LikeLeave
  <2> QED
    BY <2>1, <2>2 DEF Served
<1>8. CASE spoilt' = spoilt /\ in' = in /\ Settled(c)
  <2>1. SameFor(c)
    BY <1>1, <1>5, <1>8, StillSame
  <2>2. SameRequests
    BY <1>5, <1>8, <2>1, KeptSame
  <2>3. c \notin spoilt => Understood(c)'
    <3>1. ASSUME c \notin spoilt PROVE Understood(c)
      BY <1>2, <3>1 DEF Understands
    <3>2. c \in closed' \/ (c = serving' /\ pc' = "read" /\ in[c] = <<>>)
      BY <1>1, <1>5, <1>8 DEF Settled
    <3> QED
      BY <1>1, <1>8, <3>1, <3>2, UnderstoodStays
  <2>4. serving \in Clients \ spoilt => Understanding'
    <3>1. ASSUME serving \in Clients \ spoilt PROVE Understanding
      BY <1>2, <3>1 DEF Understands
    <3>2. NumRead(serving)' = NumRead(serving) /\ Current' = Current
      BY <1>1, <1>5, <1>8 DEF NumRead, Unread, Positions, Current
    <3> QED
      BY <1>1, <3>1, <3>2, UnderstandingStays
  <2>5. Understands'
    BY <1>5, <1>8, <2>3, <2>4 DEF Understands
  <2>6. Service!Next
    BY <1>1, <1>5, <1>6, <1>8, <2>2, LikeLeave
  <2> QED
    BY <2>5, <2>6 DEF Served
<1> QED
  BY <1>1, <1>7, <1>8

(* One line more.                                                          *)
LEMMA LineMore ==
  ASSUME PeersOk, NEW c \in Clients, Understood(c), NEW line \in Lines[c], Speaks(line),
         lines'[c] = Append(lines[c], line), in'[c] = in[c] \o line \o <<"CR", "LF">>,
         link'[c] # "gone"
  PROVE  /\ Understood(c)' /\ NumRead(c)' = NumRead(c)
         /\ Len(lines'[c]) - Unread(c)' = Len(lines[c]) - Unread(c)
         /\ \A k \in 1 .. Len(lines[c]) : lines'[c][k] = lines[c][k]
<1> DEFINE ls == lines[c]
           n  == NumRead(c)
           l  == line \o <<"CR", "LF">>
           u  == SubSeq(ls, n + 1, Len(ls))
<1>1. /\ ls \in Seq(Seq(Symbols)) /\ n \in 0 .. Len(ls) /\ in[c] = Sent(u)
      /\ in[c] \in Seq(Symbols) /\ line \in Seq(Symbols) /\ Len(ls) \in Nat
      /\ n = Len(ls) - Unread(c)
  BY ServerAssumption, LenProperties DEF PeersOk, Understood, NumRead
<1>2. Positions(line, "LF") = {} /\ <<"CR", "LF">> \in Seq(Symbols)
  BY LineEndType DEF Speaks
<1>3. in'[c] = in[c] \o l
  <2> DEFINE i == in[c]
             e == <<"CR", "LF">>
  <2>1. i \in Seq(Symbols) /\ line \in Seq(Symbols) /\ e \in Seq(Symbols)
    BY <1>1, <1>2
  <2>2. in'[c] = (i \o line) \o e
    OBVIOUS
  <2> HIDE DEF i, e
  <2>3. \A a, b, d \in Seq(Symbols) : (a \o b) \o d = a \o (b \o d)
    BY Regrouped
  <2> QED
    BY <2>1, <2>2, <2>3 DEF i, e
<1>4. Unread(c)' = Unread(c) + 1 /\ Unread(c) \in Nat
  <2>1. Unread(c)' = LineEnds(in[c] \o l) /\ Unread(c) = LineEnds(in[c])
    BY <1>3 DEF Unread, LineEnds, Positions
  <2> QED
    BY <1>1, <1>2, <2>1, OneLineLess
<1>5. /\ Append(ls, line) \in Seq(Seq(Symbols)) /\ Len(Append(ls, line)) = Len(ls) + 1
      /\ \A k \in 1 .. Len(ls) : Append(ls, line)[k] = ls[k]
      /\ Append(ls, line)[Len(ls) + 1] = line
  BY <1>1, AppendProperties
<1>6. NumRead(c)' = (Len(ls) + 1) - (Unread(c) + 1)
  BY <1>4, <1>5 DEF NumRead
<1>7. NumRead(c)' = n /\ Len(lines'[c]) - Unread(c)' = Len(ls) - Unread(c)
  <2> HIDE DEF n, ls
  <2>1. (Len(ls) + 1) - (Unread(c) + 1) = Len(ls) - Unread(c)
    BY <1>1, <1>4
  <2> QED
    BY <1>1, <1>6, <2>1 DEF NumRead
<1>8. u \in Seq(Seq(Symbols))
  <2> HIDE DEF n
  <2> QED
    BY <1>1, RestOfSeq
<1>9. in'[c] = Sent(Append(u, line))
  BY <1>1, <1>3, <1>8, SentAppend
<1>10. SubSeq(lines'[c], n + 1, Len(lines'[c])) = Append(u, line)
  <2> HIDE DEF n
  <2> QED
    BY <1>1, RestAppend
<1>11. \A k \in 1 .. Len(lines'[c]) : lines'[c][k] \in Lines[c] /\ Speaks(lines'[c][k])
  <2>1. ASSUME NEW k \in 1 .. Len(ls) + 1 PROVE k \in 1 .. Len(ls) \/ k = Len(ls) + 1
    BY <1>1
  <2>2. \A k \in 1 .. Len(ls) : ls[k] \in Lines[c] /\ Speaks(ls[k])
    BY DEF Understood
  <2>3. Len(lines'[c]) = Len(ls) + 1
    BY <1>5
  <2> QED
    BY <1>5, <2>1, <2>2, <2>3
<1>12. n \in 0 .. Len(lines'[c])
  <2> HIDE DEF n, ls
  <2>1. Len(lines'[c]) = Len(ls) + 1
    BY <1>5 DEF ls
  <2> QED
    BY <1>1, <2>1
<1>13. Understood(c)'
  BY <1>7, <1>9, <1>10, <1>11, <1>12 DEF Understood
<1> QED
  BY <1>5, <1>7, <1>13

(* One line more, and what it asks for.                                    *)
LEMMA MeaningsMore ==
  ASSUME NEW S, NEW ls \in Seq(S), NEW line \in S
  PROVE  [k \in DOMAIN Append(ls, line) |-> Meaning(Append(ls, line)[k])]
           = Append([k \in DOMAIN ls |-> Meaning(ls[k])], Meaning(line))
<1> DEFINE r == Meaning(line)
           a == [k \in DOMAIN ls |-> Meaning(ls[k])]
           b == [k \in DOMAIN Append(ls, line) |-> Meaning(Append(ls, line)[k])]
<1>1. /\ Len(ls) \in Nat /\ DOMAIN ls = 1 .. Len(ls)
      /\ Append(ls, line) \in Seq(S) /\ Len(Append(ls, line)) = Len(ls) + 1
      /\ \A k \in 1 .. Len(ls) : Append(ls, line)[k] = ls[k]
      /\ Append(ls, line)[Len(ls) + 1] = line
  BY AppendProperties, LenProperties
<1>2. DOMAIN Append(ls, line) = 1 .. Len(ls) + 1
  BY <1>1, LenProperties
<1> DEFINE M(x) == Meaning(x)
           L    == Len(ls)
           u    == Append(ls, line)
<1>3. a = [k \in 1 .. L |-> M(ls[k])] /\ b = [k \in 1 .. L + 1 |-> M(u[k])]
  BY <1>1, <1>2
<1>4. r = M(line)
  OBVIOUS
<1> DEFINE T == {M(ls[k]) : k \in 1 .. L} \cup {r}
<1> HIDE DEF M, L, u, r
<1>5. L \in Nat /\ (\A k \in 1 .. L : u[k] = ls[k]) /\ u[L + 1] = line
  BY <1>1 DEF L, u
<1>6. a \in Seq(T) /\ Len(a) = L /\ \A k \in 1 .. L : a[k] = M(ls[k])
  <2> HIDE DEF a
  <2> QED
    BY <1>3, <1>5
<1> HIDE DEF a, T
<1>7. /\ Append(a, r) \in Seq(T) /\ Len(Append(a, r)) = L + 1
      /\ \A k \in 1 .. L : Append(a, r)[k] = a[k]
      /\ Append(a, r)[L + 1] = r
  <2>1. a \in Seq(T) /\ r \in T
    BY <1>6 DEF T
  <2>2. /\ Append(a, r) \in Seq(T) /\ Len(Append(a, r)) = Len(a) + 1
        /\ \A k \in 1 .. Len(a) : Append(a, r)[k] = a[k]
        /\ Append(a, r)[Len(a) + 1] = r
    BY <2>1, AppendProperties
  <2> QED
    BY <1>6, <2>2
<1> DEFINE w == Append(a, r)
<1>8. /\ w \in Seq(T) /\ Len(w) = L + 1 /\ (\A k \in 1 .. L : w[k] = a[k])
       /\ w[L + 1] = r
  BY <1>7
<1> HIDE DEF w
<1>9. ASSUME NEW k \in 1 .. L + 1 PROVE M(u[k]) = w[k]
  <2>1. CASE k \in 1 .. L
    BY <1>5, <1>6, <1>8, <2>1
  <2>2. CASE k = L + 1
    <3>1. M(u[L + 1]) = r
      BY <1>4, <1>5
    <3> QED
      BY <1>8, <2>2, <3>1
  <2> QED
    BY <1>5, <2>1, <2>2
<1>10. DOMAIN w = 1 .. L + 1 /\ w = [k \in DOMAIN w |-> w[k]]
  <2>1. w \in Seq(T) /\ Len(w) = L + 1
    BY <1>8
  <2> HIDE DEF w
  <2> QED
    BY <2>1, LenProperties
<1> HIDE DEF b
<1>11. w = [k \in 1 .. L + 1 |-> M(u[k])]
  BY <1>9, <1>10 DEF w
<1> QED
  BY <1>3, <1>11 DEF w

LEMMA ServedSend ==
  ASSUME IInv, NEW c \in Clients, NEW line \in Lines[c], Send(c, line)
  PROVE  Served
<1>1. /\ link[c] = "up" /\ Running /\ link' = link
      /\ lines' = [lines EXCEPT ![c] = Append(@, line)]
      /\ in' = [in EXCEPT ![c] = @ \o line \o <<"CR", "LF">>]
      /\ spoilt' = IF Speaks(line) THEN spoilt ELSE spoilt \cup {c}
      /\ UNCHANGED <<server, disk, out, closed, backlog>>
  BY DEF Send
<1>2. Base /\ Understands /\ PeersOk
  BY <1>1 DEF IInv, Base
<1>3. /\ \A d \in Clients : d # c => /\ link'[d] = link[d] /\ lines'[d] = lines[d]
                                     /\ in'[d] = in[d]
      /\ lines'[c] = Append(lines[c], line)
      /\ in'[c] = in[c] \o line \o <<"CR", "LF">>
  BY <1>1, <1>2 DEF PeersOk
<1>4. spoilt' \in {spoilt, spoilt \cup {c}}
  BY <1>1
<1>5. /\ Running' /\ (Ending' <=> Ending) /\ SameLost /\ serving' = serving /\ store' = store
      /\ pc' = pc /\ job' = job
      /\ \A d \in Clients : d # c => SameFor(d)
      /\ \A d \in Clients \ spoilt : d # c => Understood(d)'
      /\ serving \in Clients \ spoilt /\ serving # c => Understanding'
  BY <1>1, <1>3, <1>4, ClientStays
<1>6. Accepted' = Accepted /\ c \notin Left /\ Left' = Left
  BY <1>1 DEF Accepted, Left
<1>7. CASE ~Speaks(line)
  <2>1. spoilt' = spoilt \cup {c}
    BY <1>1, <1>7
  <2>2. Understands' /\ Excused(c)
    BY <1>1, <1>5, <2>1, SpoiltNow
  <2>3. Service!Next
    BY <1>1, <1>5, <1>6, <2>2, LikeOffend
  <2> QED
    BY <2>2, <2>3 DEF Served
<1>8. CASE Speaks(line) /\ c \in spoilt
  <2>1. spoilt' = spoilt
    BY <1>1, <1>8
  <2>2. SameRequests
    BY <1>5, <1>8, <2>1, KeptSame
  <2>3. UNCHANGED Service!serviceVars
    BY <1>1, <1>5, <1>6, <2>1, <2>2, LikeStutter
  <2>4. Understands'
    BY <1>5, <1>8, <2>1 DEF Understands
  <2> QED
    BY <2>3, <2>4 DEF Served
<1>9. CASE Speaks(line) /\ c \notin spoilt
  <2>1. spoilt' = spoilt
    BY <1>1, <1>9
  <2>2. /\ Understood(c)' /\ NumRead(c)' = NumRead(c)
        /\ Len(lines'[c]) - Unread(c)' = Len(lines[c]) - Unread(c)
        /\ \A k \in 1 .. Len(lines[c]) : lines'[c][k] = lines[c][k]
    <3>1. Understood(c)
      BY <1>2, <1>9 DEF Understands
    <3> QED
      BY <1>1, <1>2, <1>3, <1>9, <3>1, LineMore
  <2>3. serving = c => Understanding'
    <3>1. ASSUME serving = c PROVE Understanding
      BY <1>2, <1>9, <3>1 DEF Understands
    <3>2. ASSUME serving = c, pc \in AnswerLabels
          PROVE  NumRead(serving)' = NumRead(serving) /\ Current' = Current
      <4>1. /\ NumRead(c) \in 1 .. Len(lines[c]) /\ Current = lines[c][NumRead(c)]
        BY <1>9, <3>2, AnswersCurrent
      <4>2. NumRead(serving)' = NumRead(c)
        BY <1>5, <2>2, <3>2
      <4>3. Current' = lines'[c][NumRead(c)]
        BY <1>5, <3>2, <4>2 DEF Current
      <4> QED
        BY <2>2, <3>2, <4>1, <4>2, <4>3
    <3> QED
      BY <1>1, <3>1, <3>2, UnderstandingStays
  <2>4. Understands'
    BY <1>5, <2>1, <2>2, <2>3 DEF Understands
  <2>5. Given(c)' = Given(c) /\ Told(c)' = Told(c)
    <3>1. (Answering(c)' <=> Answering(c)) /\ Owed(c)' = Owed(c) /\ out' = out
      BY <1>1, <1>5 DEF Answering, Owed
    <3> QED
      BY <2>2, <3>1 DEF Given, Told
  <2>6. Answered' = Answered
    BY <1>5, <2>1, <2>5 DEF Answered, Given, SameFor
  <2>7. Answers' = Answers
    BY <1>5, <2>1, <2>5 DEF Answers, Told, Kept, SameFor
  <2>8. Asked' = [Asked EXCEPT ![c] = Append(@, Meaning(line))]
    <3> DEFINE r  == Meaning(line)
               ls == lines[c]
               a  == [k \in DOMAIN ls |-> Meaning(ls[k])]
               b  == [k \in DOMAIN Append(ls, line) |-> Meaning(Append(ls, line)[k])]
    <3>1. ls \in Seq(Seq(Symbols)) /\ line \in Seq(Symbols)
      BY <1>2, ServerAssumption DEF PeersOk
    <3>2. b = Append(a, r)
      BY <3>1, MeaningsMore
    <3>3. Asked'[c] = b /\ Asked[c] = a
      BY <1>3, <1>9, <2>1 DEF Asked, Kept
    <3>4. \A d \in Clients : d # c => Asked'[d] = Asked[d]
      BY <1>3, <2>1 DEF Asked, Kept
    <3> HIDE DEF a, b, r
    <3>5. ASSUME NEW d \in Clients PROVE Asked'[d] = [Asked EXCEPT ![c] = Append(@, r)][d]
      <4>1. Asked[c] = a /\ c \in DOMAIN Asked /\ d \in DOMAIN Asked
        BY <3>3 DEF Asked
      <4> QED
        BY <3>2, <3>3, <3>4, <4>1
    <3>6. Asked' = [Asked EXCEPT ![c] = Append(@, r)]
      BY <3>5 DEF Asked
    <3> QED
      BY <3>6 DEF r
  <2>9. Meaning(line) \in Asks
    BY <1>9 DEF Asks
  <2>10. Service!Next
    BY <1>1, <1>5, <1>6, <1>9, <2>1, <2>6, <2>7, <2>8, <2>9, LikeAsk
  <2> QED
    BY <2>4, <2>10 DEF Served
<1> QED
  BY <1>7, <1>8, <1>9

-----------------------------------------------------------------------------
LEMMA ServedAtFirst == Init => IInv /\ Service!Init
<1> SUFFICES ASSUME Init PROVE IInv /\ Service!Init
  OBVIOUS
<1>1. Base
  BY BaseInit
<1>2. /\ \A c \in Clients : link[c] = "away" /\ lines[c] = <<>> /\ in[c] = <<>> /\ out[c] = <<>>
      /\ pc = "accept" /\ serving = NoClient /\ spoilt = {} /\ moved = FALSE
      /\ store \in Stores /\ job = Idle
  BY ServerAssumption DEF Init
<1>3. <<>> \in Seq(Symbols) /\ Len(<<>>) = 0 /\ <<>> \in Seq(Seq(Symbols))
  BY EmptySeq
<1>4. ASSUME NEW c \in Clients PROVE Unread(c) = 0 /\ NumRead(c) = 0
  <2>1. Positions(in[c], "LF") = {}
    BY <1>2 DEF Positions
  <2>2. Unread(c) = 0
    BY <2>1, FS_EmptySet, Zenon DEF Unread
  <2> QED
    BY <1>2, <1>3, <2>2 DEF NumRead
<1>5. ASSUME NEW c \in Clients PROVE Understood(c)
  <2>1. SubSeq(<<>>, 0 + 1, 0) = <<>>
    <3>1. SubSeq(<<>>, 0 + 1, Len(<<>>)) \in Seq(Symbols)
          /\ Len(SubSeq(<<>>, 0 + 1, Len(<<>>))) = Len(<<>>) - 0
      <4>1. 0 \in 0 .. Len(<<>>)
        BY <1>3
      <4> QED
        BY <1>3, <4>1, RestOfSeq
    <3> QED
      BY <1>3, <3>1, EmptySeq
  <2>2. Sent(<<>>) = <<>>
    BY <1>3, SentEmpty
  <2>3. in[c] = Sent(SubSeq(lines[c], NumRead(c) + 1, Len(lines[c])))
    BY <1>2, <1>3, <1>4, <2>1, <2>2
  <2> QED
    BY <1>2, <1>3, <1>4, <2>3 DEF Understood
<1>6. IInv
  BY <1>1, <1>2, <1>5, ServerAssumption DEF IInv, Understands
<1>7. \A c \in Clients : Owed(c) = <<>> /\ ~Answering(c)
  BY <1>2, ServerAssumption DEF Owed, Answering
<1>8. Asked = [c \in Clients |-> <<>>]
  <2>1. \A c \in Clients : Kept(c, [k \in DOMAIN lines[c] |-> Meaning(lines[c][k])]) = <<>>
    <3>1. ASSUME NEW c \in Clients
          PROVE  [k \in DOMAIN lines[c] |-> Meaning(lines[c][k])] = <<>>
      BY <1>2
    <3> QED
      BY <3>1 DEF Kept
  <2> QED
    BY <2>1 DEF Asked
<1>9. Answered = [c \in Clients |-> 0]
  BY <1>2, <1>3, <1>4, <1>7 DEF Answered
<1>10. Answers = [c \in Clients |-> <<>>]
  <2>1. \A c \in Clients : Kept(c, out[c] \o Owed(c)) = <<>>
    <3>1. <<>> \o <<>> = <<>>
      BY <1>3, ConcatEmptySeq
    <3> QED
      BY <1>2, <1>7, <3>1 DEF Kept
  <2> QED
    BY <2>1 DEF Answers
<1>11. Running /\ ~Ending /\ Left = {} /\ Accepted = {} /\ ~Lost
  BY <1>2 DEF Running, Ending, Left, Accepted, Lost
<1>12. Service!Init
  BY <1>2, <1>8, <1>9, <1>10, <1>11, LikeInit
<1> QED
  BY <1>6, <1>12

LEMMA ServedStuttering ==
  ASSUME IInv, UNCHANGED vars
  PROVE  Served
<1>1. /\ link' = link /\ lines' = lines /\ in' = in /\ backlog' = backlog /\ out' = out
      /\ closed' = closed /\ pc' = pc /\ serving' = serving /\ job' = job
      /\ moved' = moved /\ home' = home /\ store' = store /\ spoilt' = spoilt
      /\ UNCHANGED <<server, disk>>
  BY DEF vars, peers, server, disk
<1>2. (Running' <=> Running) /\ (Ending' <=> Ending) /\ SameLost /\ Accepted' = Accepted
      /\ Left' = Left
  BY <1>1 DEF Running, Ending, SameLost, Lost, Accepted, Left
<1>3. SameRequests
  <2>1. \A d \in Clients \ spoilt : SameFor(d)
    BY <1>1, StillSame
  <2> QED
    BY <1>1, <2>1, KeptSame
<1>4. UNCHANGED Service!serviceVars
  BY <1>1, <1>2, <1>3, LikeStutter
<1>5. ASSUME Running PROVE Understands'
  <2>1. Understands
    BY <1>5 DEF IInv
  <2>2. ASSUME NEW d \in Clients \ spoilt PROVE Understood(d)'
    <3>1. Understood(d)
      BY <2>1 DEF Understands
    <3> QED
      BY <1>1, <3>1, UnderstoodStays DEF Understood
  <2>3. ASSUME serving \in Clients \ spoilt PROVE Understanding'
    <3>1. Understanding
      BY <2>1, <2>3 DEF Understands
    <3>2. NumRead(serving)' = NumRead(serving) /\ Current' = Current
      BY <1>1 DEF NumRead, Unread, Positions, Current
    <3> QED
      BY <1>1, <3>1, <3>2, UnderstandingStays
  <2> QED
    BY <1>1, <2>2, <2>3 DEF Understands
<1> QED
  BY <1>2, <1>4, <1>5 DEF Served

LEMMA EveryStepServes ==
  ASSUME IInv, [Next]_vars
  PROVE  Served
<1>1. CASE UNCHANGED vars
  BY <1>1, ServedStuttering
<1>2. CASE Server
  <2>1. UNCHANGED disk
    BY <1>2 DEF Server
  <2> QED
    BY <1>2, <2>1, ServedAccept, ServedAcceptFails, ServedRead, ServedExecute, ServedMd5,
       ServedListEntry, ServedListMd5, ServedListDone, ServedTransmit, ServedTransmitPart,
       ServedTransmitInVain DEF Server
<1>3. CASE Edit
  BY <1>3, ServedEdit
<1>4. ASSUME NEW c \in Clients, Client(c) PROVE Served
  BY <1>4, ServedDial, ServedLeave, ServedSend DEF Client
<1> QED
  BY <1>1, <1>2, <1>3, <1>4 DEF Next

(* What the server knows of its clients, in every state.                   *)
THEOREM ServerUnderstands == Spec => []IInv
<1>1. Init => IInv
  BY ServedAtFirst
<1>2. IInv /\ [Next]_vars => IInv'
  BY BaseKeeps, EveryStepServes DEF IInv, Served
<1> QED
  BY <1>1, <1>2, PTL DEF Spec

(* cgymd implements CgymService for any clients, lines, files and          *)
(* failures: a client that speaks the protocol gets one whole and true     *)
(* reply for each of its requests, in their order, and does not end it.    *)
THEOREM ServerImplementsService == Spec => ImplementsService
<1>1. Init => Service!Init
  BY ServedAtFirst
<1>2. IInv /\ [Next]_vars => [Service!Next]_Service!serviceVars
  BY EveryStepServes DEF Served
<1> QED
  BY <1>1, <1>2, ServerUnderstands, PTL DEF Spec, ImplementsService, Service!Spec

-----------------------------------------------------------------------------
(***************************************************************************)
(* What a client can take for the reply to its GET.  The units that were   *)
(* sent to it decide it: there are too few of them, or one is where        *)
(* another is expected, or they are the whole of a reply.                  *)
(***************************************************************************)
Acked(o)   == Len(o) >= 2 /\ o[1] = Word("CGYM") /\ o[2] = CRLF
OkGiven(o) == o[3] = Word("OK") /\ o[4] = CRLF

BytesGiven(o, v, from, to) ==
  OkGiven(o) /\ \A k \in 1 .. to - from : o[k + 4] = Slice(v, from, to)[k]

(* Of the greeting, the status and n bytes, and of the end of line.        *)
TooFew(o, n) == Len(o) < 4 \/ (n > 0 /\ Len(o) < n + 5)
Amiss(o, n) ==
  \/ Len(o) >= 3 /\ o[3] # Word("OK")
  \/ Len(o) >= 4 /\ o[4] # CRLF
  \/ n > 0 /\ Len(o) >= n + 5 /\ o[n + 5] # CRLF
Complete(o, v, from, to) ==
  /\ from < to /\ Len(o) >= (to - from) + 5
  /\ BytesGiven(o, v, from, to) /\ o[(to - from) + 5] = CRLF

Decided(o, from, to) ==
  Amiss(o, to - from) \/ \E v \in Versions : Complete(o, v, from, to)

(* What is still to be sent of the reply after o.  Bytes that were sent    *)
(* twice leave none of them an end of line.                                *)
GetTodo(v, from, to) == <<Plain(OkMsg), Message(Slice(v, from, to)), Message(EndMsg)>>
Sends(o, todo, v, from, to) ==
  \/ todo = GetTodo(v, from, to) /\ Len(o) = 2
  \/ /\ todo = <<Message(Slice(v, from, to)), Message(EndMsg)>>
     /\ \/ Len(o) = 3
        \/ Len(o) = 4 /\ OkGiven(o)
        \/ Len(o) > 4 /\ \A i \in 5 .. Len(o) : o[i] # CRLF
  \/ todo = <<Message(EndMsg)>> /\ Len(o) = (to - from) + 4 /\ BytesGiven(o, v, from, to)

(* The client whose first line is a GET, from the time it is greeted.      *)
FirstOf(c) == lines[c][1]
AsksGet(c) == lines[c] # <<>> /\ Speaks(FirstOf(c)) /\ FirstOf(c)[1] = "GET"
FromOf(c)  == Numerals[FirstOf(c)[3]]
UpTo(c)    == Numerals[FirstOf(c)[5]]

Course(c) ==
  \/ Decided(out[c], FromOf(c), UpTo(c))
  \/ /\ Len(out[c]) = 2
     /\ \/ /\ pc = "read"
           /\ \E rest \in Seq(Symbols) : in[c] = (FirstOf(c) \o <<"CR", "LF">>) \o rest
        \/ pc = "exec" /\ job.command = <<"GET">> /\ job.args = Arguments(FirstOf(c))
        \/ pc = "send" /\ job.todo = <<Message(ErrMsg)>>
  \/ /\ pc = "send"
     /\ \E v \in Versions : /\ HasRange(v, FromOf(c), UpTo(c))
                            /\ Sends(out[c], job.todo, v, FromOf(c), UpTo(c))

(* The client that is served: its greeting was torn, is being sent, was    *)
(* sent and nothing asked, or its first line takes its course.             *)
Misgreeted(c)   == Len(out[c]) >= 2 /\ ~Acked(out[c])
Welcomed(c) == /\ Len(out[c]) < 2 /\ pc = "send" /\ job.todo = <<Message(AckMsg)>>
               /\ job.after = "read"
               /\ out[c] = <<>> => lines[c] = <<>> /\ in[c] = <<>>
Silent(c)   == /\ Acked(out[c]) /\ Len(out[c]) = 2
               /\ lines[c] = <<>> /\ in[c] = <<>> /\ pc = "read"
Talks(c)    == Acked(out[c]) /\ lines[c] # <<>> /\ (AsksGet(c) => Course(c))
Stage(c)    == Misgreeted(c) \/ Welcomed(c) \/ Silent(c) \/ Talks(c)

(* What holds of every client, and more of the one that is served.         *)
Unmistaken(c) ==
  /\ lines[c] = <<>> /\ Acked(out[c]) => Len(out[c]) = 2
  /\ AsksGet(c) /\ Acked(out[c]) =>
       TooFew(out[c], UpTo(c) - FromOf(c)) \/ Decided(out[c], FromOf(c), UpTo(c))
Heeded(c) == c = serving /\ link[c] = "up" => Stage(c)
PartInv == Base /\ \A c \in Clients : Unmistaken(c) /\ Heeded(c)

-----------------------------------------------------------------------------
LEMMA WordsDiffer ==
  /\ Word("OK") # CRLF /\ Word("ERR") # CRLF /\ Word("OK") # Word("ERR")
  /\ Word("CGYM") # CRLF
<1>1. /\ CRLF.kind = "CRLF" /\ Word("OK").kind = "OK" /\ Word("ERR").kind = "ERR"
      /\ Word("CGYM").kind = "CGYM"
  BY DEF CRLF, Word
<1> QED
  BY <1>1

LEMMA MsgUnits ==
  /\ AckMsg \in Seq(Units) /\ Len(AckMsg) = 2 /\ AckMsg[1] = Word("CGYM") /\ AckMsg[2] = CRLF
  /\ OkMsg \in Seq(Units) /\ Len(OkMsg) = 2 /\ OkMsg[1] = Word("OK") /\ OkMsg[2] = CRLF
  /\ ErrMsg \in Seq(Units) /\ Len(ErrMsg) = 2 /\ ErrMsg[1] = Word("ERR") /\ ErrMsg[2] = CRLF
  /\ EndMsg \in Seq(Units) /\ Len(EndMsg) = 1 /\ EndMsg[1] = CRLF
BY UnitsType DEF AckMsg, OkMsg, ErrMsg, EndMsg

(* The bytes of a file are no ends of line.                                *)
LEMMA SliceUnits ==
  ASSUME NEW v \in Versions, NEW from \in Nat, NEW to \in Nat, from < to
  PROVE  /\ Slice(v, from, to) \in Seq(Units) /\ Len(Slice(v, from, to)) = to - from
         /\ \A k \in 1 .. to - from : Slice(v, from, to)[k] # CRLF
<1> DEFINE s == Slice(v, from, to)
           n == to - from
<1>1. s \in Seq(Units)
  BY SliceType
<1>2. s = [k \in 1 .. n |-> [kind |-> "byte", of |-> v, at |-> from + k - 1]]
  BY DEF Slice
<1>3. ASSUME NEW k \in 1 .. n PROVE s[k] # CRLF
  <2>1. s[k].kind = "byte"
    BY <1>2
  <2>2. CRLF.kind = "CRLF"
    BY DEF CRLF, Word
  <2> QED
    BY <2>1, <2>2
<1>4. n \in Nat
  OBVIOUS
<1> HIDE DEF s, n
<1>5. DOMAIN s = 1 .. n
  BY <1>2
<1>6. Len(s) = n
  BY <1>1, <1>4, <1>5, LenProperties
<1> QED
  BY <1>1, <1>3, <1>6 DEF s, n

(* What is sent comes after what was sent.                                 *)
LEMMA MoreUnits ==
  ASSUME NEW o \in Seq(Units), NEW m \in Seq(Units)
  PROVE  /\ o \o m \in Seq(Units) /\ Len(o) \in Nat /\ Len(m) \in Nat
         /\ Len(o \o m) = Len(o) + Len(m)
         /\ \A i \in 1 .. Len(o) : (o \o m)[i] = o[i]
         /\ \A k \in 1 .. Len(m) : (o \o m)[Len(o) + k] = m[k]
<1> DEFINE t == o \o m
           a == Len(o)
           b == Len(m)
<1>1. /\ t \in Seq(Units) /\ Len(t) = a + b /\ a \in Nat /\ b \in Nat
      /\ \A i \in 1 .. a + b : t[i] = IF i <= a THEN o[i] ELSE m[i - a]
  BY ConcatProperties, LenProperties
<1> HIDE DEF t, a, b
<1>2. ASSUME NEW i \in 1 .. a PROVE t[i] = o[i]
  BY <1>1
<1>3. ASSUME NEW k \in 1 .. b PROVE t[a + k] = m[k]
  <2> DEFINE i == a + k
  <2>1. i \in 1 .. a + b /\ ~(i <= a) /\ i - a = k
    BY <1>1
  <2> HIDE DEF i
  <2>2. t[i] = m[k]
    BY <1>1, <2>1
  <2> QED
    BY <2>2 DEF i
<1> QED
  BY <1>1, <1>2, <1>3 DEF t, a, b

(* What was decided or was no greeting stays so.                           *)
LEMMA DecidedStays ==
  ASSUME NEW o \in Seq(Units), NEW m \in Seq(Units), NEW from \in Nat, NEW to \in Nat
  PROVE  /\ Decided(o, from, to) => Decided(o \o m, from, to)
         /\ Len(o) >= 2 => (Acked(o \o m) <=> Acked(o))
<1> DEFINE t == o \o m
           n == to - from
<1>1. /\ Len(o) \in Nat /\ Len(t) \in Nat /\ Len(t) >= Len(o) /\ n \in Int
      /\ \A i \in 1 .. Len(o) : t[i] = o[i]
  BY MoreUnits
<1> HIDE DEF t
<1>2. ASSUME Amiss(o, n) PROVE Amiss(t, n)
  <2> HIDE DEF n
  <2>1. CASE Len(o) >= 3 /\ o[3] # Word("OK")
    BY <1>1, <2>1 DEF Amiss
  <2>2. CASE Len(o) >= 4 /\ o[4] # CRLF
    BY <1>1, <2>2 DEF Amiss
  <2>3. CASE n > 0 /\ Len(o) >= n + 5 /\ o[n + 5] # CRLF
    <3>1. n + 5 \in 1 .. Len(o) /\ Len(t) >= n + 5
      BY <1>1, <2>3
    <3>2. t[n + 5] # CRLF
      BY <1>1, <2>3, <3>1
    <3> QED
      BY <2>3, <3>1, <3>2 DEF Amiss
  <2> QED
    BY <1>2, <2>1, <2>2, <2>3 DEF Amiss
<1>3. ASSUME NEW v \in Versions, Complete(o, v, from, to) PROVE Complete(t, v, from, to)
  <2>1. from < to /\ Len(o) >= n + 5 /\ OkGiven(o) /\ o[n + 5] = CRLF
    BY <1>3 DEF Complete, BytesGiven
  <2>2. \A k \in 1 .. n : o[k + 4] = Slice(v, from, to)[k]
    BY <1>3 DEF Complete, BytesGiven
  <2>3. n > 0
    BY <2>1
  <2> HIDE DEF n
  <2>4. Len(t) >= n + 5 /\ t[n + 5] = CRLF /\ t[3] = o[3] /\ t[4] = o[4]
    BY <1>1, <2>1, <2>3
  <2>5. ASSUME NEW k \in 1 .. n PROVE t[k + 4] = o[k + 4]
    BY <1>1, <2>1
  <2>6. BytesGiven(t, v, from, to)
    BY <2>1, <2>2, <2>4, <2>5 DEF BytesGiven, OkGiven, n
  <2> QED
    BY <2>1, <2>4, <2>6 DEF Complete, n
<1>4. Len(o) >= 2 => (Acked(t) <=> Acked(o))
  BY <1>1 DEF Acked
<1> QED
  BY <1>2, <1>3, <1>4 DEF Decided, t

LEMMA MessageParts ==
  ASSUME NEW m
  PROVE  /\ Message(m).msg = m /\ Message(m).retried = TRUE
         /\ Plain(m).msg = m /\ Plain(m).retried = FALSE
BY DEF Message, Plain

(* As long as something is to be sent, too little was sent or it is amiss. *)
LEMMA SendsTooFew ==
  ASSUME NEW o \in Seq(Units), NEW todo, NEW v, NEW from \in Nat, NEW to \in Nat,
         HasRange(v, from, to), Sends(o, todo, v, from, to)
  PROVE  TooFew(o, to - from) \/ Amiss(o, to - from)
<1> DEFINE n == to - from
<1>1. n \in Nat /\ n > 0 /\ Len(o) \in Nat
  BY LenProperties DEF HasRange
<1>2. Len(o) \in {2, 3, 4} \/ Len(o) = n + 4 \/ (Len(o) > 4 /\ \A i \in 5 .. Len(o) : o[i] # CRLF)
  BY DEF Sends
<1> DEFINE L == Len(o)
           p == n + 5
<1>3. CASE L < p
  BY <1>1, <1>3 DEF TooFew
<1>4. CASE L >= p
  <2> HIDE DEF n, L
  <2>1. L \in Nat /\ n \in Nat /\ n > 0
    BY <1>1 DEF L
  <2>2. p \in 5 .. L /\ L # 2 /\ L # 3 /\ L # 4 /\ L # n + 4
    BY <1>4, <2>1
  <2>3. \A i \in 5 .. L : o[i] # CRLF
    BY <1>2, <2>2 DEF L
  <2> HIDE DEF p
  <2>4. o[p] # CRLF
    BY <2>2, <2>3
  <2> QED
    BY <1>4, <2>1, <2>4 DEF Amiss, n, L, p
<1>5. L \in Nat /\ p \in Nat
  BY <1>1
<1> QED
  <2> HIDE DEF L, p
  <2> QED
    BY <1>3, <1>4, <1>5

(* A message of a reply is sent.                                           *)
LEMMA SendsWhole ==
  ASSUME NEW o \in Seq(Units), NEW todo, NEW v, NEW from \in Nat, NEW to \in Nat,
         v \in Versions, HasRange(v, from, to), Sends(o, todo, v, from, to)
  PROVE  LET t == o \o Head(todo).msg
         IN  \/ Decided(t, from, to)
             \/ Tail(todo) # <<>> /\ Sends(t, Tail(todo), v, from, to)
<1> DEFINE n == to - from
           s == Slice(v, from, to)
<1>1. n \in Nat /\ n > 0 /\ Len(o) \in Nat /\ from < to
  BY LenProperties DEF HasRange
<1>2. s \in Seq(Units) /\ Len(s) = n /\ \A k \in 1 .. n : s[k] # CRLF
  BY <1>1, SliceUnits
<1>3. CASE todo = GetTodo(v, from, to) /\ Len(o) = 2
  <2> DEFINE t == o \o OkMsg
  <2> DEFINE a == Plain(OkMsg)
             b == Message(s)
             e == Message(EndMsg)
  <2>a. todo = <<a, b, e>>
    BY <1>3 DEF GetTodo
  <2>b. a.msg = OkMsg /\ a.retried = FALSE
    BY MessageParts
  <2> HIDE DEF a, b, e
  <2>c. Head(todo) = a /\ Tail(todo) = <<b, e>> /\ Tail(todo) # <<>>
    BY <2>a
  <2>1. /\ Head(todo).msg = OkMsg
        /\ Tail(todo) = <<Message(s), Message(EndMsg)>> /\ Tail(todo) # <<>>
    BY <2>b, <2>c DEF b, e
  <2>2. OkMsg \in Seq(Units) /\ Len(OkMsg) = 2 /\ OkMsg[1] = Word("OK") /\ OkMsg[2] = CRLF
    BY MsgUnits
  <2>3. /\ Len(t) = Len(o) + Len(OkMsg)
        /\ \A k \in 1 .. Len(OkMsg) : t[Len(o) + k] = OkMsg[k]
    BY <2>2, MoreUnits
  <2> HIDE DEF t
  <2>4. Len(t) = 4 /\ t[2 + 1] = Word("OK") /\ t[2 + 2] = CRLF
    BY <1>3, <2>2, <2>3
  <2>5. OkGiven(t)
    BY <2>4 DEF OkGiven
  <2>6. Sends(t, <<Message(s), Message(EndMsg)>>, v, from, to)
    BY <2>4, <2>5 DEF Sends
  <2> QED
    BY <2>1, <2>6 DEF t
<1>4. CASE /\ todo = <<Message(s), Message(EndMsg)>>
           /\ \/ Len(o) = 3
              \/ Len(o) = 4 /\ OkGiven(o)
              \/ Len(o) > 4 /\ \A i \in 5 .. Len(o) : o[i] # CRLF
  <2> DEFINE t == o \o s
  <2> DEFINE b == Message(s)
             e == Message(EndMsg)
  <2>a. todo = <<b, e>>
    BY <1>4
  <2>b. b.msg = s /\ b.retried = TRUE
    BY MessageParts
  <2> HIDE DEF b, e
  <2>c. Head(todo) = b /\ Tail(todo) = <<e>> /\ Tail(todo) # <<>>
    BY <2>a
  <2>1. Head(todo).msg = s /\ Tail(todo) = <<Message(EndMsg)>> /\ Tail(todo) # <<>>
    BY <2>b, <2>c DEF b, e
  <2> HIDE DEF s
  <2>2. /\ Len(t) = Len(o) + Len(s) /\ \A k \in 1 .. Len(s) : t[Len(o) + k] = s[k]
        /\ \A i \in 1 .. Len(o) : t[i] = o[i]
    BY <1>2, MoreUnits
  <2> HIDE DEF t, n
  <2>3. CASE Len(o) = 3
    <3>1. 1 \in 1 .. n /\ Len(t) >= 4
      BY <1>1, <1>2, <2>2, <2>3
    <3>2. t[3 + 1] # CRLF
      BY <1>2, <2>2, <2>3, <3>1
    <3>3. Amiss(t, n)
      BY <3>1, <3>2 DEF Amiss
    <3> QED
      BY <2>1, <3>3 DEF Decided, t, n
  <2>4. CASE Len(o) = 4 /\ OkGiven(o)
    <3>1. Len(t) = n + 4 /\ t[3] = o[3] /\ t[4] = o[4]
      BY <1>1, <1>2, <2>2, <2>4
    <3>2. ASSUME NEW k \in 1 .. n PROVE t[k + 4] = s[k]
      <4>1. t[4 + k] = s[k]
        BY <1>2, <2>2, <2>4
      <4>2. k + 4 = 4 + k
        OBVIOUS
      <4> QED
        BY <4>1, <4>2
    <3>3. BytesGiven(t, v, from, to)
      BY <2>4, <3>1, <3>2 DEF BytesGiven, OkGiven, n, s
    <3>4. Sends(t, <<Message(EndMsg)>>, v, from, to)
      BY <3>1, <3>3 DEF Sends, n
    <3> QED
      BY <2>1, <3>4 DEF t
  <2>5. CASE Len(o) > 4 /\ \A i \in 5 .. Len(o) : o[i] # CRLF
    <3> DEFINE p == n + 5
    <3>1. Len(t) >= p
      BY <1>1, <1>2, <2>2, <2>5
    <3>2. ASSUME p <= Len(o) PROVE t[p] # CRLF
      <4>1. p \in 1 .. Len(o) /\ p \in 5 .. Len(o)
        BY <1>1, <3>2
      <4> HIDE DEF p
      <4>2. t[p] = o[p] /\ o[p] # CRLF
        BY <2>2, <2>5, <4>1
      <4> QED
        BY <4>2
    <3>3. ASSUME ~(p <= Len(o)) PROVE t[p] # CRLF
      <4> DEFINE k == p - Len(o)
      <4>1. k \in 1 .. n /\ Len(o) + k = p
        BY <1>1, <2>5, <3>3
      <4> HIDE DEF k, p
      <4>2. t[p] = s[k] /\ s[k] # CRLF
        BY <1>2, <2>2, <4>1
      <4> QED
        BY <4>2
    <3>4. t[p] # CRLF
      BY <3>2, <3>3
    <3>5. Amiss(t, n)
      BY <1>1, <3>1, <3>4 DEF Amiss
    <3> QED
      BY <2>1, <3>5 DEF Decided, t, n
  <2> QED
    BY <1>4, <2>3, <2>4, <2>5
<1>5. CASE todo = <<Message(EndMsg)>> /\ Len(o) = n + 4 /\ BytesGiven(o, v, from, to)
  <2> DEFINE t == o \o EndMsg
  <2> DEFINE e == Message(EndMsg)
  <2>a. todo = <<e>>
    BY <1>5
  <2>b. e.msg = EndMsg
    BY MessageParts
  <2> HIDE DEF e
  <2>c. Head(todo) = e
    BY <2>a
  <2>1. Head(todo).msg = EndMsg /\ EndMsg \in Seq(Units) /\ Len(EndMsg) = 1 /\ EndMsg[1] = CRLF
    BY <2>b, <2>c, MsgUnits
  <2>2. /\ Len(t) = Len(o) + Len(EndMsg)
        /\ \A k \in 1 .. Len(EndMsg) : t[Len(o) + k] = EndMsg[k]
        /\ \A i \in 1 .. Len(o) : t[i] = o[i]
    BY <2>1, MoreUnits
  <2> HIDE DEF t, n
  <2>3. Len(t) = n + 5 /\ t[Len(o) + 1] = CRLF /\ Len(o) + 1 = n + 5
    BY <1>1, <1>5, <2>1, <2>2
  <2>4. t[3] = o[3] /\ t[4] = o[4] /\ \A k \in 1 .. n : t[k + 4] = o[k + 4]
    BY <1>1, <1>5, <2>2
  <2>5. BytesGiven(t, v, from, to)
    BY <1>5, <2>4 DEF BytesGiven, OkGiven, n
  <2>6. Complete(t, v, from, to)
    BY <1>1, <2>3, <2>5 DEF Complete, n
  <2> QED
    BY <2>1, <2>6 DEF Decided, t
<1> QED
  BY <1>3, <1>4, <1>5 DEF Sends

(* A part of one is sent, and all of it again or, of the status, no more.  *)
LEMMA SendsPart ==
  ASSUME NEW o \in Seq(Units), NEW todo, NEW v, NEW from \in Nat, NEW to \in Nat,
         v \in Versions, HasRange(v, from, to), Sends(o, todo, v, from, to),
         NEW k \in 1 .. Len(Head(todo).msg) - 1
  PROVE  LET t == o \o SubSeq(Head(todo).msg, 1, k)
         IN  \/ Decided(t, from, to)
             \/ /\ ~Head(todo).retried
                /\ Tail(todo) # <<>> /\ Sends(t, Tail(todo), v, from, to)
             \/ Head(todo).retried /\ Sends(t, todo, v, from, to)
<1> DEFINE n == to - from
           s == Slice(v, from, to)
<1>1. n \in Nat /\ n > 0 /\ Len(o) \in Nat /\ from < to
  BY LenProperties DEF HasRange
<1>2. s \in Seq(Units) /\ Len(s) = n /\ \A j \in 1 .. n : s[j] # CRLF
  BY <1>1, SliceUnits
<1>3. ASSUME NEW m \in Seq(Units), k \in 1 .. Len(m) - 1
      PROVE  /\ SubSeq(m, 1, k) \in Seq(Units) /\ Len(SubSeq(m, 1, k)) = k
             /\ \A j \in 1 .. k : SubSeq(m, 1, k)[j] = m[j]
             /\ k \in Nat \ {0} /\ \A j \in 1 .. k : j \in 1 .. Len(m)
  <2>1. Len(m) \in Nat /\ k \in Nat \ {0} /\ k < Len(m)
    BY <1>3, LenProperties
  <2>2. \A j \in 1 .. k : j \in 1 .. Len(m)
    BY <2>1
  <2>3. \A j \in 1 .. k : m[j] \in Units
    BY <2>2, ElementOfSeq
  <2>4. /\ SubSeq(m, 1, k) \in Seq(Units) /\ Len(SubSeq(m, 1, k)) = IF 1 <= k THEN k - 1 + 1 ELSE 0
        /\ \A j \in 1 .. k - 1 + 1 : SubSeq(m, 1, k)[j] = m[1 + j - 1]
    BY <2>1, <2>3, SubSeqProperties
  <2> DEFINE u == SubSeq(m, 1, k)
  <2> HIDE DEF u
  <2>5. u \in Seq(Units) /\ Len(u) = k /\ \A j \in 1 .. k : u[j] = m[j]
    BY <2>1, <2>4 DEF u
  <2> QED
    BY <2>1, <2>2, <2>5 DEF u
<1>4. CASE todo = GetTodo(v, from, to) /\ Len(o) = 2
  <2> DEFINE u == SubSeq(OkMsg, 1, k)
             t == o \o u
  <2> DEFINE a == Plain(OkMsg)
             b == Message(s)
             e == Message(EndMsg)
  <2>a. todo = <<a, b, e>>
    BY <1>4 DEF GetTodo
  <2>b. a.msg = OkMsg /\ a.retried = FALSE
    BY MessageParts
  <2> HIDE DEF a, b, e
  <2>c. Head(todo) = a /\ Tail(todo) = <<b, e>> /\ Tail(todo) # <<>>
    BY <2>a
  <2>1. /\ Head(todo).msg = OkMsg /\ Head(todo).retried = FALSE
        /\ Tail(todo) = <<Message(s), Message(EndMsg)>> /\ Tail(todo) # <<>>
    BY <2>b, <2>c DEF b, e
  <2>2. Len(OkMsg) = 2 /\ k = 1
    <3>1. Len(OkMsg) = 2
      BY MsgUnits
    <3>2. k \in 1 .. Len(OkMsg) - 1
      BY <2>1
    <3> QED
      BY <3>1, <3>2
  <2>3. u \in Seq(Units) /\ Len(u) = 1
    <3>1. OkMsg \in Seq(Units) /\ k \in 1 .. Len(OkMsg) - 1
      BY <2>2, MsgUnits
    <3> QED
      BY <1>3, <2>2, <3>1
  <2> HIDE DEF u
  <2>4. Len(t) = Len(o) + Len(u)
    BY <2>3, MoreUnits
  <2>5. Len(t) = 3
    BY <1>4, <2>3, <2>4
  <2>6. Sends(t, <<Message(s), Message(EndMsg)>>, v, from, to)
    BY <2>5 DEF Sends
  <2> QED
    BY <2>1, <2>6 DEF u
<1>5. CASE /\ todo = <<Message(s), Message(EndMsg)>>
           /\ \/ Len(o) = 3
              \/ Len(o) = 4 /\ OkGiven(o)
              \/ Len(o) > 4 /\ \A i \in 5 .. Len(o) : o[i] # CRLF
  <2> DEFINE u == SubSeq(s, 1, k)
             t == o \o u
  <2> DEFINE b == Message(s)
             e == Message(EndMsg)
  <2>a. todo = <<b, e>>
    BY <1>5
  <2>b. b.msg = s /\ b.retried = TRUE
    BY MessageParts
  <2> HIDE DEF b, e
  <2>c. Head(todo) = b /\ Tail(todo) = <<e>> /\ Tail(todo) # <<>>
    BY <2>a
  <2>1. /\ Head(todo).msg = s /\ Head(todo).retried = TRUE
    BY <2>b, <2>c DEF b, e
  <2>3. /\ u \in Seq(Units) /\ Len(u) = k /\ \A j \in 1 .. k : u[j] # CRLF
        /\ k \in Nat \ {0}
    BY <1>2, <1>3, <2>1
  <2> HIDE DEF u
  <2>4. /\ Len(t) = Len(o) + Len(u) /\ \A j \in 1 .. Len(u) : t[Len(o) + j] = u[j]
        /\ \A i \in 1 .. Len(o) : t[i] = o[i]
    BY <2>3, MoreUnits
  <2> HIDE DEF t, s, n
  <2>5. CASE Len(o) = 3
    <3>1. 1 \in 1 .. k /\ Len(t) >= 4
      BY <2>3, <2>4, <2>5
    <3>2. t[3 + 1] # CRLF
      BY <2>3, <2>4, <2>5, <3>1
    <3>3. Amiss(t, n)
      BY <3>1, <3>2 DEF Amiss
    <3> QED
      BY <2>1, <3>3 DEF Decided, t, n, u
  <2>6. CASE Len(o) >= 4 /\ \A i \in 5 .. Len(o) : o[i] # CRLF
    <3>1. Len(t) > 4
      BY <1>1, <2>3, <2>4, <2>6
    <3>2. ASSUME NEW i \in 5 .. Len(t) PROVE t[i] # CRLF
      <4>1. CASE i <= Len(o)
        <5>1. i \in 1 .. Len(o) /\ i \in 5 .. Len(o)
          BY <1>1, <4>1
        <5> QED
          BY <2>4, <2>6, <5>1
      <4>2. CASE ~(i <= Len(o))
        <5> DEFINE j == i - Len(o)
        <5>1. j \in 1 .. k /\ Len(o) + j = i
          BY <1>1, <2>3, <2>4, <4>2
        <5> HIDE DEF j
        <5>2. t[i] = u[j]
          BY <2>4, <5>1
        <5> QED
          BY <2>3, <5>1, <5>2
      <4> QED
        BY <4>1, <4>2
    <3>3. Sends(t, todo, v, from, to)
      BY <1>5, <3>1, <3>2 DEF Sends, s
    <3> QED
      BY <2>1, <3>3 DEF t, u
  <2>7. Len(o) = 4 => \A i \in 5 .. Len(o) : o[i] # CRLF
    OBVIOUS
  <2> QED
    <3>1. Len(o) > 4 => Len(o) >= 4
      BY <1>1
    <3>2. \/ Len(o) = 3
          \/ Len(o) = 4
          \/ Len(o) > 4 /\ \A i \in 5 .. Len(o) : o[i] # CRLF
      BY <1>5
    <3>3. CASE Len(o) = 4
      <4>1. Len(o) >= 4
        BY <3>3
      <4> QED
        BY <2>6, <2>7, <3>3, <4>1
    <3>4. CASE Len(o) > 4 /\ \A i \in 5 .. Len(o) : o[i] # CRLF
      BY <2>6, <3>1, <3>4
    <3> QED
      BY <2>5, <3>2, <3>3, <3>4
<1>6. CASE todo = <<Message(EndMsg)>>
  <2> DEFINE e == Message(EndMsg)
  <2>a. todo = <<e>>
    BY <1>6
  <2>b. e.msg = EndMsg
    BY MessageParts
  <2> HIDE DEF e
  <2>c. Head(todo) = e
    BY <2>a
  <2>1. Head(todo).msg = EndMsg /\ Len(EndMsg) = 1
    BY <2>b, <2>c, MsgUnits
  <2>2. k \in 1 .. Len(EndMsg) - 1
    BY <2>1
  <2>3. FALSE
    BY <2>1, <2>2
  <2> QED
    BY <2>3
<1> QED
  BY <1>4, <1>5, <1>6 DEF Sends

(***************************************************************************)
(* What the client makes of it.                                            *)
(***************************************************************************)
Socks   == [fd : {1}, state : SockStates, buf : Seq(Units), pos : Nat, status : Statuses]
Conns   == [st : {"up"}, srv : {1}, greeted : {TRUE}, req : {0}, flight : {<<>>},
            avail : Seq(Units), fin : BOOLEAN]
Results == [segm : Socks, conn : Conns, rc : 0 .. 6]

LEMMA ResultTo ==
  ASSUME NEW r \in Results, NEW state \in SockStates
  PROVE  /\ To(r, state) \in Results /\ To(r, state).segm.state = state
         /\ To(r, state).segm.buf = r.segm.buf /\ To(r, state).segm.pos = r.segm.pos
         /\ To(r, state).conn = r.conn /\ To(r, state).rc = r.rc
<1> DEFINE t == [r.segm EXCEPT !.state = state]
<1>1. r.segm \in Socks /\ r.conn \in Conns /\ r.rc \in 0 .. 6
  BY DEF Results
<1>2. t \in Socks /\ t.state = state /\ t.buf = r.segm.buf /\ t.pos = r.segm.pos
  BY <1>1 DEF Socks
<1>3. To(r, state) = [segm |-> t, conn |-> r.conn, rc |-> r.rc]
  BY DEF To, Results
<1> HIDE DEF t
<1> QED
  BY <1>1, <1>2, <1>3 DEF Results

LEMMA ResultMark ==
  ASSUME NEW r \in Results, NEW status \in Statuses
  PROVE  /\ Mark(r, status) \in Results /\ Mark(r, status).segm.state = r.segm.state
         /\ Mark(r, status).segm.buf = r.segm.buf /\ Mark(r, status).segm.pos = r.segm.pos
         /\ Mark(r, status).conn = r.conn /\ Mark(r, status).rc = r.rc
<1> DEFINE t == [r.segm EXCEPT !.status = status]
<1>1. r.segm \in Socks /\ r.conn \in Conns /\ r.rc \in 0 .. 6
  BY DEF Results
<1>2. t \in Socks /\ t.state = r.segm.state /\ t.buf = r.segm.buf /\ t.pos = r.segm.pos
  BY <1>1 DEF Socks
<1>3. Mark(r, status) = [segm |-> t, conn |-> r.conn, rc |-> r.rc]
  BY DEF Mark, Results
<1> HIDE DEF t
<1> QED
  BY <1>1, <1>2, <1>3 DEF Results

LEMMA ResultReturn ==
  ASSUME NEW r \in Results, NEW rc \in 0 .. 6
  PROVE  Return(r, rc) \in Results /\ Return(r, rc).segm = r.segm /\ Return(r, rc).rc = rc
BY DEF Return, Results

(* recv() with nothing in the buffer: all that is wanted, or less.         *)
LEMMA Received ==
  ASSUME NEW s \in Socks, s.pos = 0, NEW c \in Conns, NEW len \in Nat, len > 0
  PROVE  LET r == cgym_recv(s, c, len)
             a == c.avail
         IN  /\ r \in Results /\ r.segm.state = s.state
             /\ \/ /\ Len(a) >= len /\ r.rc = 0
                   /\ r.segm.buf = SubSeq(a, 1, len) /\ r.segm.pos = 0
                   /\ r.conn.avail = SubSeq(a, len + 1, Len(a))
                \/ Len(a) < len /\ r.rc \in {1, 2}
<1> DEFINE a    == c.avail
           L    == Len(a)
           want == len - s.pos
           n    == IF L < want THEN L ELSE want
           got  == SubSeq(s.buf, 1, s.pos) \o SubSeq(a, 1, n)
           rest == [c EXCEPT !.avail = SubSeq(a, n + 1, L)]
           r    == cgym_recv(s, c, len)
<1>1. a \in Seq(Units) /\ L \in Nat /\ s.buf \in Seq(Units) /\ \A i \in 1 .. L : a[i] \in Units
  <2>1. a \in Seq(Units) /\ s.buf \in Seq(Units)
    BY DEF Socks, Conns
  <2> QED
    BY <2>1, LenProperties, ElementOfSeq
<1>2. want = len /\ n \in 0 .. L /\ n <= len /\ (L >= len => n = len) /\ (L < len => n = L)
  <2> HIDE DEF L
  <2> QED
    BY <1>1
<1>3. r = IF n = 0
          THEN [segm |-> s, conn |-> c, rc |-> IF Eof(c) THEN 2 ELSE 1]
          ELSE IF n = want
          THEN [segm |-> [s EXCEPT !.buf = got, !.pos = 0], conn |-> rest, rc |-> 0]
          ELSE [segm |-> [s EXCEPT !.buf = got, !.pos = s.pos + n], conn |-> rest, rc |-> 1]
  BY DEF cgym_recv
<1>4. got = SubSeq(a, 1, n) /\ got \in Seq(Units)
  <2>1. SubSeq(s.buf, 1, 0) = <<>>
    BY <1>1, SubSeqProperties
  <2>2. SubSeq(a, 1, n) \in Seq(Units)
    <3> HIDE DEF a, L, n
    <3>1. \A i \in 1 .. n : a[i] \in Units
      BY <1>1, <1>2
    <3>2. n \in Int
      BY <1>1, <1>2
    <3> QED
      BY <3>1, <3>2, SubSeqProperties
  <2> HIDE DEF a, n, L
  <2>3. <<>> \o SubSeq(a, 1, n) = SubSeq(a, 1, n)
    BY <2>2, ConcatEmptySeq
  <2> QED
    BY <2>1, <2>2, <2>3
<1>5. SubSeq(a, n + 1, L) \in Seq(Units)
  <2> HIDE DEF a, n, L
  <2>1. \A i \in n + 1 .. L : a[i] \in Units
    BY <1>1, <1>2
  <2>2. n + 1 \in Int /\ L \in Int
    BY <1>1, <1>2
  <2> QED
    BY <2>1, <2>2, SubSeqProperties
<1>6. rest \in Conns /\ rest.avail = SubSeq(a, n + 1, L)
  <2> DEFINE b == SubSeq(a, n + 1, L)
  <2>1. b \in Seq(Units)
    BY <1>5
  <2> HIDE DEF b
  <2>2. [c EXCEPT !.avail = b] \in Conns /\ [c EXCEPT !.avail = b].avail = b
    BY <2>1 DEF Conns
  <2> QED
    BY <2>2 DEF b
<1> HIDE DEF a, n, got, rest, want, L, r
<1>7. CASE n = 0
  <2>1. r = [segm |-> s, conn |-> c, rc |-> IF Eof(c) THEN 2 ELSE 1]
    BY <1>3, <1>7
  <2>2. (IF Eof(c) THEN 2 ELSE 1) \in {1, 2}
    OBVIOUS
  <2>3. r.segm = s /\ r.conn = c /\ r.rc \in {1, 2} /\ r \in Results
    BY <2>1, <2>2 DEF Results
  <2>4. L < len
    BY <1>1, <1>2, <1>7
  <2> QED
    BY <2>3, <2>4 DEF r, L, a
<1>8. CASE n # 0 /\ n = want
  <2> DEFINE t == [s EXCEPT !.buf = got, !.pos = 0]
  <2>1. t \in Socks /\ t.buf = got /\ t.pos = 0 /\ t.state = s.state
    BY <1>4 DEF Socks
  <2>2. r = [segm |-> t, conn |-> rest, rc |-> 0]
    BY <1>3, <1>8
  <2> HIDE DEF t
  <2>3. r.segm = t /\ r.conn = rest /\ r.rc = 0 /\ r \in Results
    BY <1>6, <2>1, <2>2 DEF Results
  <2>4. L >= len /\ n = len
    BY <1>1, <1>2, <1>8
  <2> QED
    BY <1>4, <1>6, <2>1, <2>3, <2>4 DEF r, L, a
<1>9. CASE n # 0 /\ n # want
  <2> DEFINE p == s.pos + n
             t == [s EXCEPT !.buf = got, !.pos = p]
  <2>1. p \in Nat
    BY <1>1, <1>2
  <2>2. r = [segm |-> t, conn |-> rest, rc |-> 1]
    BY <1>3, <1>9
  <2> HIDE DEF p
  <2>3. t \in Socks /\ t.state = s.state
    BY <1>4, <2>1 DEF Socks
  <2> HIDE DEF t
  <2>4. r.segm = t /\ r.rc = 1 /\ r \in Results
    BY <1>6, <2>2, <2>3 DEF Results
  <2>5. L < len
    BY <1>1, <1>2, <1>9
  <2> QED
    BY <2>3, <2>4, <2>5 DEF r, L, a
<1> QED
  BY <1>7, <1>8, <1>9

(* The status of the reply to a GET.                                       *)
LEMMA StatusTaken ==
  ASSUME NEW c \in Conns
  PROVE  LET q == AfterGetStatus(Waits, c)
             a == c.avail
         IN  /\ q \in Results
             /\ q.segm.state = "RECV_GET_DATA" =>
                  /\ Len(a) >= 2 /\ a[1] = Word("OK") /\ a[2] = CRLF /\ q.segm.pos = 0
                  /\ q.conn.avail = SubSeq(a, 3, Len(a))
             /\ q.segm.state # "RECV_GET_DATA" => q.rc # 0
<1> DEFINE r == cgym_recv(Waits, c, 2)
           q == AfterGetStatus(Waits, c)
           a == c.avail
<1>1. /\ Waits \in Socks /\ Waits.pos = 0 /\ Waits.state = "RECV_GET_REPLY"
      /\ "RECV_GET_DATA" \in SockStates /\ "CONNECTED" \in SockStates
      /\ "STARTED" \in Statuses /\ "IDLE" \in Statuses
  BY DEF Waits, Socks, SockStates, Statuses
<1>2. OkMsg \in Seq(Units) /\ Len(OkMsg) = 2 /\ OkMsg[1] = Word("OK") /\ OkMsg[2] = CRLF
  BY MsgUnits
<1>3. q = IF r.rc = 0
          THEN IF r.segm.buf = OkMsg THEN Mark(To(r, "RECV_GET_DATA"), "STARTED")
                                     ELSE Return(To(r, "CONNECTED"), 2)
          ELSE IF r.rc > 1 THEN Mark(To(r, "CONNECTED"), "IDLE") ELSE r
  BY <1>1, <1>2 DEF AfterGetStatus, GetStatus
<1>4. /\ r \in Results /\ r.segm.state = "RECV_GET_REPLY"
      /\ \/ /\ Len(a) >= 2 /\ r.rc = 0
            /\ r.segm.buf = SubSeq(a, 1, 2) /\ r.segm.pos = 0
            /\ r.conn.avail = SubSeq(a, 2 + 1, Len(a))
         \/ Len(a) < 2 /\ r.rc \in {1, 2}
  BY <1>1, Received
<1> HIDE DEF r, q
<1>5. CASE r.rc = 0 /\ r.segm.buf = OkMsg
  <2> DEFINE t == To(r, "RECV_GET_DATA")
  <2>1. /\ t \in Results /\ t.segm.state = "RECV_GET_DATA" /\ t.segm.pos = r.segm.pos
        /\ t.conn = r.conn
    BY <1>1, <1>4, ResultTo
  <2>2. q = Mark(t, "STARTED")
    BY <1>3, <1>5
  <2> HIDE DEF t
  <2>3. /\ q \in Results /\ q.segm.state = "RECV_GET_DATA" /\ q.segm.pos = r.segm.pos
        /\ q.conn = r.conn
    <3>1. /\ Mark(t, "STARTED") \in Results
          /\ Mark(t, "STARTED").segm.state = t.segm.state
          /\ Mark(t, "STARTED").segm.pos = t.segm.pos
          /\ Mark(t, "STARTED").conn = t.conn
      BY <1>1, <2>1, ResultMark
    <3> QED
      BY <2>1, <2>2, <3>1
  <2>4. a \in Seq(Units) /\ Len(a) \in Nat
    BY LenProperties DEF Conns
  <2>5. Len(a) >= 2 /\ OkMsg = SubSeq(a, 1, 2)
    BY <1>4, <1>5
  <2>6. a[1] = OkMsg[1] /\ a[2] = OkMsg[2]
    <3> HIDE DEF a
    <3>1. \A i \in 1 .. 2 : a[i] \in Units
      <4>1. \A i \in 1 .. 2 : i \in 1 .. Len(a)
        BY <2>4, <2>5
      <4> QED
        BY <2>4, <4>1, ElementOfSeq
    <3>2. \A i \in 1 .. 2 - 1 + 1 : SubSeq(a, 1, 2)[i] = a[1 + i - 1]
      BY <3>1, SubSeqProperties
    <3>3. SubSeq(a, 1, 2)[1] = a[1] /\ SubSeq(a, 1, 2)[2] = a[2]
      BY <3>2
    <3> QED
      BY <2>5, <3>3
  <2>7. r.segm.pos = 0 /\ r.conn.avail = SubSeq(a, 3, Len(a))
    BY <1>4, <1>5
  <2> QED
    BY <1>2, <2>3, <2>5, <2>6, <2>7 DEF q
<1>6. CASE r.rc = 0 /\ r.segm.buf # OkMsg
  <2> DEFINE t == To(r, "CONNECTED")
  <2>1. t \in Results /\ t.segm.state = "CONNECTED"
    BY <1>1, <1>4, ResultTo
  <2>2. q = Return(t, 2)
    BY <1>3, <1>6
  <2> HIDE DEF t
  <2>3. 2 \in 0 .. 6
    OBVIOUS
  <2>4. Return(t, 2) \in Results /\ Return(t, 2).segm = t.segm /\ Return(t, 2).rc = 2
    BY <1>1, <2>1, <2>3, ResultReturn
  <2> QED
    BY <2>1, <2>2, <2>4 DEF q
<1>7. CASE r.rc # 0 /\ r.rc > 1
  <2> DEFINE t == To(r, "CONNECTED")
  <2>1. t \in Results /\ t.segm.state = "CONNECTED" /\ t.rc = r.rc
    BY <1>1, <1>4, ResultTo
  <2>2. q = Mark(t, "IDLE")
    BY <1>3, <1>7
  <2> HIDE DEF t
  <2>3. /\ Mark(t, "IDLE") \in Results /\ Mark(t, "IDLE").segm.state = t.segm.state
        /\ Mark(t, "IDLE").rc = t.rc
    BY <1>1, <2>1, ResultMark
  <2> QED
    BY <1>7, <2>1, <2>2, <2>3 DEF q
<1>8. CASE r.rc # 0 /\ ~(r.rc > 1)
  BY <1>3, <1>4, <1>8 DEF q
<1> QED
  BY <1>5, <1>6, <1>7, <1>8

LEMMA ResultClear ==
  ASSUME NEW r \in Results
  PROVE  ClearOnError(r).rc = r.rc /\ (r.rc <= 1 => ClearOnError(r) = r)
<1>1. r.rc \in 0 .. 6 /\ Clear(r).rc = r.rc
  BY DEF Clear, Results
<1> QED
  BY <1>1 DEF ClearOnError

(* The bytes and the end of line after them.                               *)
LEMMA DataTaken ==
  ASSUME NEW s \in Socks, s.pos = 0, NEW c \in Conns, NEW n \in Nat, n > 0
  PROVE  LET g == GetData(s, c, n)
             a == c.avail
         IN  /\ g \in Results
             /\ g.rc = 0 => /\ Len(a) >= n + 1 /\ a[n + 1] = CRLF
                            /\ g.segm.buf \in Seq(Units) /\ Len(g.segm.buf) = n + 1
                            /\ \A k \in 1 .. n + 1 : g.segm.buf[k] = a[k]
<1> DEFINE m == n + 1
           r == cgym_recv(s, c, m)
           g == GetData(s, c, n)
           a == c.avail
<1>1. m \in Nat /\ m > 0
  OBVIOUS
<1>2. g = IF r.rc = 0
          THEN IF r.segm.buf[m] = CRLF THEN Mark(To(r, "CONNECTED"), "DONE") ELSE Return(r, 5)
          ELSE IF r.rc > 1 THEN Return(Mark(r, "IDLE"), 4) ELSE r
  BY DEF GetData
<1> HIDE DEF m
<1>3. /\ r \in Results
      /\ \/ Len(a) >= m /\ r.rc = 0 /\ r.segm.buf = SubSeq(a, 1, m)
         \/ Len(a) < m /\ r.rc \in {1, 2}
  BY <1>1, Received
<1>4. /\ "CONNECTED" \in SockStates /\ "DONE" \in Statuses /\ "IDLE" \in Statuses
      /\ 4 \in 0 .. 6 /\ 5 \in 0 .. 6
  BY DEF SockStates, Statuses
<1> HIDE DEF r, g
<1>5. CASE r.rc = 0 /\ r.segm.buf[m] = CRLF
  <2> DEFINE t == To(r, "CONNECTED")
             b == SubSeq(a, 1, m)
  <2>1. t \in Results /\ t.segm.buf = r.segm.buf
    BY <1>3, <1>4, ResultTo
  <2>2. g = Mark(t, "DONE")
    BY <1>2, <1>5
  <2> HIDE DEF t
  <2>3. Mark(t, "DONE") \in Results /\ Mark(t, "DONE").segm.buf = t.segm.buf
    BY <1>4, <2>1, ResultMark
  <2>4. Len(a) >= m /\ r.segm.buf = b
    BY <1>3, <1>5
  <2>5. a \in Seq(Units) /\ Len(a) \in Nat
    BY LenProperties DEF Conns
  <2>6. b \in Seq(Units) /\ Len(b) = m /\ \A k \in 1 .. m : b[k] = a[k]
    <3> HIDE DEF a, b
    <3>1. \A i \in 1 .. m : a[i] \in Units
      <4>1. \A i \in 1 .. m : i \in 1 .. Len(a)
        BY <1>1, <2>4, <2>5
      <4> QED
        BY <2>5, <4>1, ElementOfSeq
    <3>2. /\ SubSeq(a, 1, m) \in Seq(Units) /\ Len(SubSeq(a, 1, m)) = IF 1 <= m THEN m - 1 + 1 ELSE 0
          /\ \A i \in 1 .. m - 1 + 1 : SubSeq(a, 1, m)[i] = a[1 + i - 1]
      BY <1>1, <3>1, SubSeqProperties
    <3>3. b = SubSeq(a, 1, m)
      BY DEF b, a
    <3> QED
      BY <1>1, <3>2, <3>3
  <2>7. m \in 1 .. m
    BY <1>1
  <2> HIDE DEF b
  <2>8. a[m] = CRLF
    BY <1>5, <2>4, <2>6, <2>7
  <2> QED
    BY <2>1, <2>2, <2>3, <2>4, <2>6, <2>8 DEF g, m
<1>6. CASE r.rc = 0 /\ r.segm.buf[m] # CRLF
  <2>1. g = Return(r, 5)
    BY <1>2, <1>6
  <2>2. Return(r, 5) \in Results /\ Return(r, 5).rc = 5
    BY <1>3, <1>4, ResultReturn
  <2> QED
    BY <2>1, <2>2 DEF g
<1>7. CASE r.rc # 0 /\ r.rc > 1
  <2> DEFINE t == Mark(r, "IDLE")
  <2>1. t \in Results
    BY <1>3, <1>4, ResultMark
  <2>2. g = Return(t, 4)
    BY <1>2, <1>7
  <2> HIDE DEF t
  <2>3. Return(t, 4) \in Results /\ Return(t, 4).rc = 4
    BY <1>4, <2>1, ResultReturn
  <2> QED
    BY <2>2, <2>3 DEF g
<1>8. CASE r.rc # 0 /\ ~(r.rc > 1)
  <2>1. g = r
    BY <1>2, <1>8
  <2> QED
    BY <1>3, <1>8, <2>1 DEF g
<1> QED
  BY <1>5, <1>6, <1>7, <1>8

LEMMA AfterTwo ==
  ASSUME NEW S, NEW s \in Seq(S), Len(s) >= 2
  PROVE  LET u == SubSeq(s, 3, Len(s))
         IN  /\ u \in Seq(S) /\ Len(u) = Len(s) - 2
             /\ \A k \in 1 .. Len(s) - 2 : u[k] = s[2 + k]
<1>1. 2 \in 0 .. Len(s)
  BY LenProperties
<1>2. /\ SubSeq(s, 2 + 1, Len(s)) \in Seq(S) /\ Len(SubSeq(s, 2 + 1, Len(s))) = Len(s) - 2
      /\ \A k \in 1 .. Len(s) - 2 : SubSeq(s, 2 + 1, Len(s))[k] = s[2 + k]
  BY <1>1, RestOfSeq
<1>3. 2 + 1 = 3
  OBVIOUS
<1> QED
  BY <1>2, <1>3

(* What a reply that is taken was made of.                                 *)
LEMMA ReplyTaken ==
  ASSUME NEW c \in Conns, NEW n \in Int, cgym_recv_get_reply(Waits, c, n).rc = 0
  PROVE  LET a   == c.avail
             buf == cgym_recv_get_reply(Waits, c, n).segm.buf
         IN  /\ Len(a) >= 2 /\ a[1] = Word("OK") /\ a[2] = CRLF
             /\ n > 0 => /\ Len(a) >= n + 3 /\ a[n + 3] = CRLF
                         /\ buf \in Seq(Units) /\ Len(buf) = n + 1
                         /\ \A k \in 1 .. n + 1 : buf[k] = a[k + 2]
<1> DEFINE a == c.avail
           q == AfterGetStatus(Waits, c)
           r == cgym_recv_get_reply(Waits, c, n)
           g == GetData(q.segm, q.conn, n)
           b == q.conn.avail
<1>1. /\ q \in Results
      /\ q.segm.state = "RECV_GET_DATA" =>
           /\ Len(a) >= 2 /\ a[1] = Word("OK") /\ a[2] = CRLF /\ q.segm.pos = 0
           /\ b = SubSeq(a, 3, Len(a))
      /\ q.segm.state # "RECV_GET_DATA" => q.rc # 0
  BY StatusTaken
<1>2. r = ClearOnError(IF q.segm.state = "RECV_GET_DATA" THEN g ELSE q)
  BY DEF cgym_recv_get_reply
<1>3. q.segm \in Socks /\ q.conn \in Conns
  BY <1>1 DEF Results
<1>4. r.rc = 0
  OBVIOUS
<1> HIDE DEF q, r
<1>5. q.segm.state = "RECV_GET_DATA"
  <2>1. q.segm.state # "RECV_GET_DATA" => r = ClearOnError(q)
    BY <1>2
  <2> QED
    BY <1>1, <1>4, <2>1, ResultClear
<1>6. ASSUME n > 0
      PROVE  /\ Len(a) >= n + 3 /\ a[n + 3] = CRLF
             /\ r.segm.buf \in Seq(Units) /\ Len(r.segm.buf) = n + 1
             /\ \A k \in 1 .. n + 1 : r.segm.buf[k] = a[k + 2]
  <2>1. n \in Nat
    BY <1>6
  <2>2. /\ g \in Results
        /\ g.rc = 0 => /\ Len(b) >= n + 1 /\ b[n + 1] = CRLF
                       /\ g.segm.buf \in Seq(Units) /\ Len(g.segm.buf) = n + 1
                       /\ \A k \in 1 .. n + 1 : g.segm.buf[k] = b[k]
    BY <1>1, <1>3, <1>5, <1>6, <2>1, DataTaken
  <2>3. r = ClearOnError(g)
    BY <1>2, <1>5
  <2> HIDE DEF g
  <2>4. g.rc = 0 /\ r = g
    BY <1>4, <2>2, <2>3, ResultClear
  <2>5. a \in Seq(Units) /\ Len(a) \in Nat /\ Len(a) >= 2 /\ b = SubSeq(a, 3, Len(a))
    BY <1>1, <1>5, LenProperties DEF Conns
  <2> HIDE DEF a, b
  <2>6. /\ SubSeq(a, 3, Len(a)) \in Seq(Units)
        /\ Len(SubSeq(a, 3, Len(a))) = Len(a) - 2
        /\ \A k \in 1 .. Len(a) - 2 : SubSeq(a, 3, Len(a))[k] = a[2 + k]
    BY <2>5, AfterTwo
  <2>7. b = SubSeq(a, 3, Len(a))
    BY <2>5
  <2>8. Len(b) = Len(a) - 2 /\ \A k \in 1 .. Len(a) - 2 : b[k] = a[2 + k]
    BY <2>6, <2>7
  <2>9. Len(b) >= n + 1 /\ b[n + 1] = CRLF
    BY <2>2, <2>4
  <2>10. Len(a) >= n + 3 /\ a[n + 3] = CRLF
    <3>1. n + 1 \in 1 .. Len(a) - 2 /\ 2 + (n + 1) = n + 3 /\ Len(a) >= n + 3
      BY <2>1, <2>5, <2>8, <2>9
    <3>2. b[n + 1] = a[2 + (n + 1)]
      BY <2>8, <3>1
    <3> QED
      BY <2>9, <3>1, <3>2
  <2>11. ASSUME NEW k \in 1 .. n + 1 PROVE r.segm.buf[k] = a[k + 2]
    <3>1. k \in 1 .. Len(a) - 2 /\ 2 + k = k + 2
      BY <2>1, <2>5, <2>8, <2>9
    <3>2. b[k] = a[2 + k]
      BY <2>8, <3>1
    <3>3. r.segm.buf[k] = b[k]
      BY <2>2, <2>4
    <3> QED
      BY <3>1, <3>2, <3>3
  <2> QED
    BY <2>2, <2>4, <2>10, <2>11
<1> QED
  BY <1>1, <1>5, <1>6 DEF r, a

(* Of a reply that is decided, or too short, no other bytes are taken.     *)
LEMMA NoneMistaken ==
  ASSUME NEW o \in Seq(Units), NEW from \in Nat, NEW to \in Nat,
         TooFew(o, to - from) \/ Decided(o, from, to), Len(o) >= 2,
         NEW c \in Conns, c.avail = SubSeq(o, 3, Len(o)),
         cgym_recv_get_reply(Waits, c, to - from).rc = 0
  PROVE  \E v \in Versions :
           cgym_recv_get_reply(Waits, c, to - from).segm.buf = Slice(v, from, to) \o EndMsg
<1> DEFINE a   == SubSeq(o, 3, Len(o))
           n   == to - from
           buf == cgym_recv_get_reply(Waits, c, n).segm.buf
<1>1. /\ a \in Seq(Units) /\ Len(a) = Len(o) - 2
      /\ \A k \in 1 .. Len(o) - 2 : a[k] = o[2 + k]
  BY AfterTwo
<1> HIDE DEF a
<1>2. c \in Conns /\ c.avail = a
  BY DEF a
<1>3. n \in Int /\ Len(o) \in Nat
  BY LenProperties
<1>4. /\ Len(a) >= 2 /\ a[1] = Word("OK") /\ a[2] = CRLF
      /\ n > 0 => /\ Len(a) >= n + 3 /\ a[n + 3] = CRLF
                  /\ buf \in Seq(Units) /\ Len(buf) = n + 1
                  /\ \A k \in 1 .. n + 1 : buf[k] = a[k + 2]
  BY <1>2, <1>3, ReplyTaken
<1>5. Len(o) >= 4 /\ o[3] = Word("OK") /\ o[4] = CRLF
  <2>1. 1 \in 1 .. Len(o) - 2 /\ 2 \in 1 .. Len(o) - 2
    BY <1>1, <1>3, <1>4
  <2>2. a[1] = o[2 + 1] /\ a[2] = o[2 + 2]
    BY <1>1, <2>1
  <2> QED
    BY <1>1, <1>3, <1>4, <2>2
<1>6. n > 0 => Len(o) >= n + 5 /\ o[n + 5] = CRLF
  <2> HIDE DEF n
  <2>1. ASSUME n > 0 PROVE Len(o) >= n + 5 /\ o[n + 5] = CRLF
    <3>1. n + 3 \in 1 .. Len(o) - 2 /\ 2 + (n + 3) = n + 5
      BY <1>1, <1>3, <1>4, <2>1
    <3>2. a[n + 3] = o[2 + (n + 3)]
      BY <1>1, <3>1
    <3> QED
      BY <1>1, <1>3, <1>4, <2>1, <3>1, <3>2
  <2> QED
    BY <2>1
<1>7. ~TooFew(o, n) /\ ~Amiss(o, n)
  <2> HIDE DEF n
  <2> QED
    BY <1>3, <1>5, <1>6 DEF TooFew, Amiss
<1>8. PICK v \in Versions : Complete(o, v, from, to)
  BY <1>7 DEF Decided
<1>9. n > 0 /\ from < to
  BY <1>8 DEF Complete
<1> DEFINE s == Slice(v, from, to)
<1>10. s \in Seq(Units) /\ Len(s) = n
  BY <1>9, SliceUnits
<1>11. \A k \in 1 .. n : o[k + 4] = s[k]
  BY <1>8 DEF Complete, BytesGiven
<1> DEFINE t == s \o EndMsg
<1>12. EndMsg \in Seq(Units) /\ Len(EndMsg) = 1 /\ EndMsg[1] = CRLF
  BY MsgUnits
<1> HIDE DEF s
<1>13. /\ t \in Seq(Units) /\ Len(t) = n + 1 /\ \A i \in 1 .. n : t[i] = s[i]
       /\ t[n + 1] = CRLF
  <2>1. /\ t \in Seq(Units) /\ Len(t) = Len(s) + Len(EndMsg)
        /\ \A i \in 1 .. Len(s) : t[i] = s[i]
        /\ \A k \in 1 .. Len(EndMsg) : t[Len(s) + k] = EndMsg[k]
    BY <1>10, <1>12, MoreUnits
  <2> HIDE DEF t, n
  <2> QED
    BY <1>10, <1>12, <2>1
<1>14. ASSUME NEW k \in 1 .. n + 1 PROVE buf[k] = t[k]
  <2>1. k \in 1 .. Len(o) - 2 /\ k + 2 \in 1 .. Len(o) - 2 /\ 2 + (k + 2) = k + 4
    <3>1. Len(o) >= n + 5
      BY <1>6, <1>9
    <3> HIDE DEF n
    <3> QED
      BY <1>3, <1>9, <3>1
  <2>2. buf[k] = a[k + 2]
    BY <1>4, <1>9
  <2>3. a[k + 2] = o[2 + (k + 2)]
    BY <1>1, <2>1
  <2>4. buf[k] = o[k + 4]
    BY <2>1, <2>2, <2>3
  <2> HIDE DEF t, n, buf
  <2>5. CASE k \in 1 .. n
    BY <1>11, <1>13, <2>4, <2>5
  <2>6. CASE k = n + 1
    <3>1. (n + 1) + 4 = n + 5
      BY <1>3
    <3> QED
      BY <1>6, <1>9, <1>13, <2>4, <2>6, <3>1
  <2>7. k \in 1 .. n \/ k = n + 1
    BY <1>3, <1>9
  <2> QED
    BY <2>5, <2>6, <2>7
<1>15. buf \in Seq(Units) /\ Len(buf) = n + 1
  BY <1>4, <1>9
<1>16. buf = t
  <2> HIDE DEF buf, t, n
  <2> QED
    BY <1>13, <1>14, <1>15, SeqEqual
<1> QED
  BY <1>16 DEF s

-----------------------------------------------------------------------------
(***************************************************************************)
(* The steps.  What the thread does once it serves a client.               *)
(***************************************************************************)
Thread == Read \/ Execute \/ Md5 \/ ListEntry \/ ListMd5 \/ ListDone
            \/ Transmit \/ TransmitPart \/ TransmitInVain

LEMMA ThreadMoves ==
  ASSUME Base, Thread
  PROVE  /\ pc \in Busy /\ Moves
         /\ link' = link /\ lines' = lines /\ backlog' = backlog
<1>1. pc \in Busy /\ link' = link /\ lines' = lines /\ backlog' = backlog
  BY DEF Thread, Read, Execute, Md5, ListEntry, ListMd5, ListDone, Transmit, TransmitPart,
         TransmitInVain, Busy, peers
<1>2. PeersOk /\ ServerOk /\ JobOk(job, pc)
  BY DEF Base
<1>3. CASE Read
  <2>1. Moves
    BY <1>2, <1>3, ReadCases DEF Moves, Busy, Remains
  <2> QED
    BY <1>1, <2>1
<1>4. CASE Execute
  BY <1>1, <1>4, ExecuteMoves
<1>5. CASE Md5
  <2>1. JobOk(job, "md5")
    BY <1>2, <1>5 DEF Md5
  <2>2. Moves
    BY <1>2, <1>5, <2>1, Md5Cases, ReplyingMoves DEF Moves
  <2> QED
    BY <1>1, <2>2
<1>6. CASE ListEntry
  <2>1. JobOk(job, "list")
    BY <1>2, <1>6 DEF ListEntry
  <2>2. Moves
    BY <1>2, <1>6, <2>1, ListEntryCases DEF Moves, Busy, Remains
  <2> QED
    BY <1>1, <2>2
<1>7. CASE ListDone
  <2>1. JobOk(job, "list")
    BY <1>2, <1>7 DEF ListDone
  <2>2. Moves
    BY <1>2, <1>7, <2>1, ListDoneCases, ReplyingMoves
  <2> QED
    BY <1>1, <2>2
<1>10. CASE ListMd5
  <2>1. JobOk(job, "list")
    BY <1>2, <1>10 DEF ListMd5
  <2>2. Moves
    BY <1>2, <1>10, <2>1, ListMd5Cases DEF Moves, Busy
  <2> QED
    BY <1>1, <2>2
<1>8. CASE Transmit \/ TransmitInVain
  <2>1. JobOk(job, "send")
    BY <1>2, <1>8 DEF Transmit, TransmitInVain
  <2>2. SendNext \/ EndThread \/ Crash
    BY <1>8 DEF Transmit, TransmitInVain
  <2> QED
    BY <1>1, <2>1, <2>2, SendNextMoves DEF Moves
<1>9. CASE TransmitPart
  <2>1. JobOk(job, "send")
    BY <1>2, <1>9 DEF TransmitPart
  <2> QED
    BY <1>1, <1>9, <2>1, TransmitPartCases, SendNextMoves DEF Moves, Busy
<1> QED
  BY <1>3, <1>4, <1>5, <1>6, <1>7, <1>8, <1>9, <1>10 DEF Thread

-----------------------------------------------------------------------------
Keeps(c) == Unmistaken(c)' /\ Heeded(c)'

LEMMA GetAsked ==
  ASSUME Base, NEW c \in Clients, AsksGet(c)
  PROVE  /\ FirstOf(c) \in Seq(Symbols) /\ Speaks(FirstOf(c)) /\ FirstOf(c)[1] = "GET"
         /\ FromOf(c) \in Nat /\ UpTo(c) \in Nat
         /\ FirstOf(c)[3] \in DOMAIN Numerals /\ FirstOf(c)[5] \in DOMAIN Numerals
         /\ Arguments(FirstOf(c)) = << <<FirstOf(c)[3]>>, <<FirstOf(c)[5]>>,
                                       NameFrom(FirstOf(c), 7) >>
         /\ Meaning(FirstOf(c)) = Request("get", NameFrom(FirstOf(c), 7), FromOf(c), UpTo(c))
<1> DEFINE f == FirstOf(c)
<1>1. lines[c] \in Seq(Seq(Symbols)) /\ lines[c] # <<>> /\ Speaks(f) /\ f[1] = "GET"
  BY DEF Base, PeersOk, AsksGet
<1>2. 1 \in 1 .. Len(lines[c])
  BY <1>1, LenProperties, EmptySeq
<1>3. f \in Seq(Symbols)
  BY <1>1, <1>2, ElementOfSeq DEF FirstOf
<1> HIDE DEF f
<1>4. /\ Numeral(f, 3) /\ Numeral(f, 5)
      /\ Arguments(f) = << <<f[3]>>, <<f[5]>>, NameFrom(f, 7) >>
      /\ Meaning(f) = Request("get", NameFrom(f, 7), Numerals[f[3]], Numerals[f[5]])
  BY <1>1, <1>3, Spoken
<1>5. f[3] \in DOMAIN Numerals /\ f[5] \in DOMAIN Numerals
  BY <1>4 DEF Numeral
<1>6. Numerals[f[3]] \in Nat /\ Numerals[f[5]] \in Nat
  BY <1>5, ServerAssumption
<1> QED
  BY <1>1, <1>3, <1>4, <1>5, <1>6 DEF f, FromOf, UpTo

LEMMA UnmistakenStays ==
  ASSUME NEW c, lines'[c] = lines[c], out'[c] = out[c], Unmistaken(c)
  PROVE  Unmistaken(c)'
BY DEF Unmistaken, AsksGet, FirstOf, FromOf, UpTo

LEMMA HeededUnless ==
  ASSUME NEW c, c # serving' \/ link'[c] # "up"
  PROVE  Heeded(c)'
BY DEF Heeded

(* What is not the concern of a client leaves it as it is.                 *)
LEMMA SameStays ==
  ASSUME NEW c, lines'[c] = lines[c], out'[c] = out[c], in'[c] = in[c], link'[c] = link[c],
         \/ c # serving'
         \/ serving' = serving /\ pc' = pc /\ job' = job,
         Unmistaken(c), Heeded(c)
  PROVE  Keeps(c)
<1>1. Unmistaken(c)'
  BY UnmistakenStays
<1>2. CASE c # serving'
  BY <1>1, <1>2, HeededUnless DEF Keeps
<1>3. CASE serving' = serving /\ pc' = pc /\ job' = job
  <2>1. FirstOf(c)' = FirstOf(c) /\ FromOf(c)' = FromOf(c) /\ UpTo(c)' = UpTo(c)
    BY DEF FirstOf, FromOf, UpTo
  <2>2. AsksGet(c)' <=> AsksGet(c)
    BY <2>1 DEF AsksGet
  <2>3. Course(c)' <=> Course(c)
    BY <1>3, <2>1 DEF Course
  <2>4. Talks(c)' <=> Talks(c)
    BY <2>2, <2>3 DEF Talks
  <2>5. (Misgreeted(c) \/ Welcomed(c) \/ Silent(c))' <=> Misgreeted(c) \/ Welcomed(c) \/ Silent(c)
    BY <1>3 DEF Misgreeted, Welcomed, Silent
  <2>6. Stage(c)' <=> Stage(c)
    BY <2>4, <2>5 DEF Stage
  <2>7. Heeded(c)'
    BY <1>3, <2>6 DEF Heeded
  <2> QED
    BY <1>1, <2>7 DEF Keeps
<1> QED
  BY <1>2, <1>3

LEMMA PartInit == Init => PartInv
<1> SUFFICES ASSUME Init PROVE PartInv
  OBVIOUS
<1>1. Base
  BY BaseInit
<1>2. ASSUME NEW c \in Clients PROVE Unmistaken(c) /\ Heeded(c)
  <2>1. lines[c] = <<>> /\ out[c] = <<>> /\ link[c] = "away" /\ Len(out[c]) = 0
    BY <1>2 DEF Init
  <2>2. ~Acked(out[c])
    BY <2>1 DEF Acked
  <2> QED
    BY <2>1, <2>2 DEF Unmistaken, Heeded
<1> QED
  BY <1>1, <1>2 DEF PartInv

LEMMA PartStutters ==
  ASSUME PartInv, UNCHANGED vars
  PROVE  \A c \in Clients : Keeps(c)
<1>1. lines' = lines /\ out' = out /\ in' = in /\ link' = link /\ serving' = serving
      /\ pc' = pc /\ job' = job
  BY DEF vars, peers, server
<1> QED
  BY <1>1, SameStays DEF PartInv

LEMMA PartEdit ==
  ASSUME PartInv, Edit
  PROVE  \A c \in Clients : Keeps(c)
<1>1. lines' = lines /\ out' = out /\ in' = in /\ link' = link /\ serving' = serving
      /\ pc' = pc /\ job' = job
  BY DEF Edit, peers, server
<1> QED
  BY <1>1, SameStays DEF PartInv

LEMMA PartDial ==
  ASSUME PartInv, NEW d \in Clients, Dial(d)
  PROVE  \A c \in Clients : Keeps(c)
<1>1. /\ lines' = lines /\ out' = out /\ in' = in /\ serving' = serving
      /\ pc' = pc /\ job' = job /\ link[d] = "away" /\ Running
      /\ link' = [link EXCEPT ![d] = "up"]
  BY DEF Dial, server
<1>2. d # serving
  BY <1>1 DEF PartInv, Base, Connected, Quiet
<1>3. ASSUME NEW c \in Clients PROVE Keeps(c)
  <2>1. c # d => link'[c] = link[c]
    BY <1>1 DEF PartInv, Base, PeersOk
  <2>2. Unmistaken(c) /\ Heeded(c)
    BY DEF PartInv
  <2>3. CASE c = d
    BY <1>1, <1>2, <2>2, <2>3, UnmistakenStays, HeededUnless DEF Keeps
  <2>4. CASE c # d
    BY <1>1, <2>1, <2>2, <2>4, SameStays
  <2> QED
    BY <2>3, <2>4
<1> QED
  BY <1>3

LEMMA PartLeave ==
  ASSUME PartInv, NEW d \in Clients, Leave(d)
  PROVE  \A c \in Clients : Keeps(c)
<1>1. /\ lines' = lines /\ out' = out /\ serving' = serving
      /\ pc' = pc /\ job' = job
      /\ link' = [link EXCEPT ![d] = "gone"]
      /\ in' = in \/ \E line \in Torn : in' = [in EXCEPT ![d] = @ \o line]
  BY DEF Leave, server
<1>2. ASSUME NEW c \in Clients PROVE Keeps(c)
  <2>1. /\ c # d => link'[c] = link[c] /\ in'[c] = in[c]
        /\ link'[d] = "gone"
    BY <1>1 DEF PartInv, Base, PeersOk
  <2>2. Unmistaken(c) /\ Heeded(c)
    BY DEF PartInv
  <2>3. CASE c = d
    BY <1>1, <2>1, <2>2, <2>3, UnmistakenStays, HeededUnless DEF Keeps
  <2>4. CASE c # d
    BY <1>1, <2>1, <2>2, <2>4, SameStays
  <2> QED
    BY <2>3, <2>4
<1> QED
  BY <1>2

LEMMA PartAccept ==
  ASSUME PartInv, Accept
  PROVE  \A c \in Clients : Keeps(c)
<1>1. /\ lines' = lines /\ out' = out /\ in' = in /\ link' = link /\ pc = "accept"
      /\ pc' = "send" /\ serving' = Head(backlog) /\ backlog # <<>>
      /\ job' = [Idle EXCEPT !.todo = <<Message(AckMsg)>>]
  BY DEF Accept
<1>2. job'.todo = <<Message(AckMsg)>> /\ job'.after = "read"
  BY <1>1 DEF Idle
<1>3. /\ serving' \in Clients /\ serving' \in ToSet(backlog)
  BY AcceptCases DEF PartInv
<1>4. Quiet(serving')
  BY <1>1, <1>3 DEF PartInv, Base, Connected, Running
<1>5. ASSUME NEW c \in Clients PROVE Keeps(c)
  <2>1. Unmistaken(c) /\ Heeded(c)
    BY DEF PartInv
  <2>2. Unmistaken(c)'
    BY <1>1, <2>1, UnmistakenStays
  <2>3. CASE c = serving'
    <3>1. out'[c] = <<>> /\ lines'[c] = <<>> /\ in'[c] = <<>>
      BY <1>1, <1>4, <2>3 DEF Quiet
    <3>2. Len(<<>>) = 0
      OBVIOUS
    <3>3. Welcomed(c)'
      BY <1>1, <1>2, <3>1, <3>2 DEF Welcomed
    <3> QED
      BY <2>2, <3>3 DEF Keeps, Heeded, Stage
  <2>4. CASE c # serving'
    BY <2>2, <2>4, HeededUnless DEF Keeps
  <2> QED
    BY <2>3, <2>4
<1> QED
  BY <1>5

LEMMA PartAcceptFails ==
  ASSUME PartInv, AcceptFails
  PROVE  \A c \in Clients : Keeps(c)
<1>1. lines' = lines /\ out' = out /\ in' = in /\ link' = link /\ serving' = NoClient
  BY DEF AcceptFails, Crash, PartInv, Base, ServerOk
<1>2. ASSUME NEW c \in Clients PROVE Keeps(c)
  <2>1. c # serving'
    BY <1>1, ServerAssumption
  <2> QED
    BY <1>1, <2>1, SameStays DEF PartInv
<1> QED
  BY <1>2

LEMMA ThreadFrame ==
  ASSUME Base, Thread, UNCHANGED disk
  PROVE  Frame
<1>1. pc \in Busy
  BY ThreadMoves
<1>2. CASE Read
  BY <1>2, ReadParts
<1>3. CASE Execute
  <2>1. /\ UNCHANGED <<peers, out, disk>>
        /\ spoilt' = spoilt \/ \E name : Excuses(name)
    BY <1>3 DEF Execute
  <2> QED
    BY <1>1, <1>3, <2>1, ExecuteMoves, SilentFrame
<1>4. CASE Md5 \/ ListEntry \/ ListMd5 \/ ListDone \/ TransmitInVain
  <2>1. /\ UNCHANGED <<peers, out>> /\ moved' = moved
        /\ spoilt' = spoilt \/ \E name : Excuses(name)
    BY <1>4 DEF Md5, ListEntry, ListMd5, ListDone, TransmitInVain
  <2>2. moved' \in BOOLEAN
    BY <2>1 DEF Base, ServerOk
  <2> QED
    BY <1>1, <2>1, <2>2, SilentFrame
<1>5. CASE Transmit
  BY <1>5, TransmitParts
<1>6. CASE TransmitPart
  <2>1. PICK m \in Seq(Units) : Emit(m)
    BY <1>6, TransmitPartCases
  <2>2. UNCHANGED <<peers, disk, moved>> /\ spoilt' = spoilt \cup {serving}
    BY <1>6 DEF TransmitPart
  <2>3. spoilt' \in SUBSET Clients
    BY <1>1, <2>2, BusyServes DEF Base, PeersOk
  <2> QED
    BY <1>1, <2>1, <2>2, <2>3, EmitFrame
<1> QED
  BY <1>2, <1>3, <1>4, <1>5, <1>6 DEF Thread

(* A step of the thread: the other clients, and the one it no longer       *)
(* serves or cannot reach.                                                 *)
LEMMA ThreadUnmistaken ==
  ASSUME PartInv, Thread, UNCHANGED disk, NEW c \in Clients
  PROVE  /\ lines'[c] = lines[c] /\ link'[c] = link[c]
         /\ c # serving => Keeps(c)
         /\ out'[c] = out[c] => Unmistaken(c)'
         /\ (~Remains \/ link[c] # "up") => Heeded(c)'
<1>1. /\ pc \in Busy /\ Moves /\ link' = link /\ lines' = lines /\ Frame
  BY ThreadMoves, ThreadFrame DEF PartInv
<1>2. serving \in Clients /\ serving # NoClient
  BY <1>1, BusyServes DEF PartInv
<1>3. serving' \in {serving, NoClient} /\ (~Remains => serving' = NoClient)
  BY <1>1 DEF Moves, EndThread, Crash, Remains
<1>4. ASSUME c # serving PROVE Keeps(c)
  <2>1. in'[c] = in[c] /\ out'[c] = out[c]
    BY <1>1, <1>4 DEF Frame, PartInv, Base, PeersOk, ServerOk
  <2>2. c # serving'
    BY <1>3, <1>4, ServerAssumption
  <2> QED
    BY <1>1, <1>4, <2>1, <2>2, SameStays DEF PartInv
<1>5. out'[c] = out[c] => Unmistaken(c)'
  BY <1>1, UnmistakenStays DEF PartInv
<1>6. ASSUME ~Remains \/ link[c] # "up" PROVE Heeded(c)'
  <2>1. c # serving' \/ link'[c] # "up"
    BY <1>1, <1>3, <1>6, ServerAssumption
  <2> QED
    BY <2>1, HeededUnless
<1> QED
  BY <1>1, <1>4, <1>5, <1>6

(* A step that sends nothing.                                              *)
LEMMA SameLine ==
  ASSUME NEW c, lines'[c] = lines[c]
  PROVE  /\ FirstOf(c)' = FirstOf(c) /\ FromOf(c)' = FromOf(c) /\ UpTo(c)' = UpTo(c)
         /\ AsksGet(c)' <=> AsksGet(c)
BY DEF FirstOf, FromOf, UpTo, AsksGet

LEMMA SilentStage ==
  ASSUME NEW c, lines'[c] = lines[c], out'[c] = out[c], Stage(c),
         pc \notin {"read", "exec", "send"}
  PROVE  Stage(c)'
<1>1. Misgreeted(c) \/ Talks(c)
  BY DEF Stage, Welcomed, Silent
<1>2. CASE Misgreeted(c)
  BY <1>2 DEF Misgreeted, Stage
<1>3. CASE Talks(c)
  <2>1. AsksGet(c) => Decided(out[c], FromOf(c), UpTo(c))
    BY <1>3 DEF Talks, Course
  <2>2. AsksGet(c)' => Course(c)'
    BY <2>1, SameLine DEF Course
  <2>3. Talks(c)'
    BY <1>3, <2>2 DEF Talks
  <2> QED
    BY <2>3 DEF Stage
<1> QED
  BY <1>1, <1>2, <1>3

(* The line of the GET is read.                                            *)
LEMMA CourseRead ==
  ASSUME Base, Read, NEW c \in Clients, c = serving, AsksGet(c), NEW rest \in Seq(Symbols),
         in[c] = (FirstOf(c) \o <<"CR", "LF">>) \o rest
  PROVE  pc' = "exec" /\ job'.command = <<"GET">> /\ job'.args = Arguments(FirstOf(c))
<1> DEFINE line == FirstOf(c)
           str  == Append(line, "SP")
           eof  == link[serving] = "gone"
<1>1. PeersOk /\ ServerOk /\ JobOk(job, pc)
  BY DEF Base
<1>2. line \in Seq(Symbols) /\ Speaks(line) /\ line[1] = "GET"
  BY GetAsked
<1> HIDE DEF line
<1>3. Positions(line, "CR") = {} /\ Len(line) < MaxStored
  BY <1>2 DEF Speaks
<1>4. readline(in[serving], eof) = {Line(str, rest)}
  <2>1. in[serving] = (line \o <<"CR", "LF">>) \o rest
    BY DEF line
  <2> HIDE DEF eof
  <2> QED
    BY <1>2, <1>3, <2>1, ReadsLine
<1>5. PICK r \in readline(in[serving], link[serving] = "gone") :
           /\ in' = [in EXCEPT ![serving] = r.rest]
           /\ \/ ~r.ok /\ EndThread
              \/ /\ r.ok /\ closed' = closed /\ serving' = serving
                 /\ \/ pc' = "exec" /\ JobOk(job', "exec")
                    \/ pc' = "send" /\ JobOk(job', "send") /\ job'.after = "exec"
                 /\ \E x \in {<<>>, << <<"junk">> >>} :
                      LET words == Words(r.str).words \o x
                      IN  /\ ~Words(r.str).past => x = <<>>
                          /\ Len(words) \in 1 .. 4 =>
                               /\ pc' = "exec"
                               /\ job'.command = words[1]
                               /\ job'.args = SubSeq(words, 2, Len(words))
  BY <1>1, ReadCases
<1>6. r.str = str /\ r.rest = rest /\ r.ok = TRUE
  BY <1>4, <1>5 DEF Line
<1> DEFINE words == Words(str).words
<1>7. AreWords(words, <<line[1]>>, Arguments(line)) /\ Words(str).past = FALSE
  BY <1>2, SpokenWords
<1> HIDE DEF words, str
<1>8. words \in Seq(Seq(Symbols)) /\ words \o <<>> = words
  BY <1>7, ConcatEmptySeq DEF AreWords
<1>9. /\ Len(words) \in 1 .. 4 =>
           pc' = "exec" /\ job'.command = words[1]
              /\ job'.args = SubSeq(words, 2, Len(words))
  BY <1>5, <1>6, <1>7, <1>8 DEF words
<1>10. pc' = "exec" /\ job'.command = <<line[1]>> /\ job'.args = Arguments(line)
  BY <1>7, <1>9 DEF AreWords
<1> QED
  BY <1>2, <1>10 DEF line

LEMMA StageRead ==
  ASSUME PartInv, Read, NEW c \in Clients, c = serving, link[c] = "up", Stage(c),
         lines'[c] = lines[c], out'[c] = out[c]
  PROVE  Stage(c)'
<1>1. pc = "read" /\ Base
  BY DEF Read, PartInv
<1>2. CASE Misgreeted(c)
  BY <1>2 DEF Misgreeted, Stage
<1>3. CASE Silent(c)
  <2>1. readline(in[serving], link[serving] = "gone") # {}
    BY DEF Read
  <2>2. in[serving] = <<>> /\ (link[serving] = "gone") = FALSE
    BY <1>3 DEF Silent
  <2>3. readline(in[serving], link[serving] = "gone") = {}
    BY <2>2, ReadsNothing
  <2> QED
    BY <2>1, <2>3
<1>4. CASE Talks(c)
  <2>1. ASSUME AsksGet(c) PROVE Course(c)'
    <3>1. CASE Decided(out[c], FromOf(c), UpTo(c))
      BY <3>1, SameLine DEF Course
    <3>2. CASE /\ Len(out[c]) = 2
               /\ \E rest \in Seq(Symbols) : in[c] = (FirstOf(c) \o <<"CR", "LF">>) \o rest
      <4>1. pc' = "exec" /\ job'.command = <<"GET">> /\ job'.args = Arguments(FirstOf(c))
        BY <1>1, <2>1, <3>2, CourseRead
      <4> QED
        BY <3>2, <4>1, SameLine DEF Course
    <3> QED
      BY <1>1, <1>4, <2>1, <3>1, <3>2 DEF Talks, Course
  <2>2. Talks(c)'
    BY <1>4, <2>1, SameLine DEF Talks
  <2> QED
    BY <2>2 DEF Stage
<1> QED
  BY <1>1, <1>2, <1>3, <1>4 DEF Stage, Welcomed

LEMMA SendingTodo ==
  ASSUME job \in Jobs, NEW todo, NEW after, Sending(job, todo, after)
  PROVE  pc' = "send" /\ job'.todo = todo
BY DEF Sending, Stay, Jobs

(* The GET is executed.                                                    *)
LEMMA CourseExecute ==
  ASSUME Base, Execute, NEW c \in Clients, AsksGet(c), Remains,
         job.command = <<"GET">>, job.args = Arguments(FirstOf(c))
  PROVE  /\ pc' = "send"
         /\ \/ job'.todo = <<Message(ErrMsg)>>
            \/ \E v \in Versions : /\ HasRange(v, FromOf(c), UpTo(c))
                                   /\ job'.todo = GetTodo(v, FromOf(c), UpTo(c))
<1> DEFINE f == FirstOf(c)
<1>1. /\ f[3] \in DOMAIN Numerals /\ f[5] \in DOMAIN Numerals
      /\ job.args = << <<f[3]>>, <<f[5]>>, NameFrom(f, 7) >>
  BY GetAsked
<1>2. /\ Len(job.args) = 3 /\ job.args[1] = <<f[3]>> /\ job.args[2] = <<f[5]>>
      /\ job.args[1][1] = f[3] /\ job.args[2][1] = f[5]
  BY <1>1
<1>3. /\ IsNumber(job.args[1]) /\ IsNumber(job.args[2])
      /\ Numerals[job.args[1][1]] = FromOf(c) /\ Numerals[job.args[2][1]] = UpTo(c)
  BY <1>1, <1>2 DEF IsNumber, FromOf, UpTo
<1> HIDE DEF f
<1>4. <<"GET">>[1] = "GET" /\ <<"SIZE">>[1] = "SIZE" /\ <<"LIST">>[1] = "LIST"
      /\ <<"QUIT">>[1] = "QUIT" /\ <<"GET">> # <<>>
  OBVIOUS
<1>5. job.command # <<"SIZE">> /\ job.command # <<"LIST">> /\ job.command # <<"QUIT">>
      /\ job.command # <<>>
  BY <1>4
<1>6. Get
  BY <1>2, <1>5 DEF Execute, Size, List, Unset, Unknown, Is, Lacks
<1>7. job \in Jobs /\ ServerOk
  BY DEF Base, JobOk
<1> DEFINE v == Fopen(job.args[3])
<1>8. v \in Versions \cup {NoVersion}
  BY <1>7, FopenType DEF ServerOk
<1> HIDE DEF v
<1>9. CASE HasRange(v, FromOf(c), UpTo(c))
  <2>1. v \in Versions
    BY <1>8, <1>9 DEF HasRange
  <2>2. Sending(job, GetTodo(v, FromOf(c), UpTo(c)), "read")
    BY <1>3, <1>6, <1>9 DEF Get, GetTodo, v
  <2> QED
    BY <1>7, <1>9, <2>1, <2>2, SendingTodo
<1>10. CASE ~HasRange(v, FromOf(c), UpTo(c))
  <2>1. Sending(job, <<Message(ErrMsg)>>, "exit")
    BY <1>3, <1>6, <1>10 DEF Get, Fail, v
  <2> QED
    BY <1>7, <2>1, SendingTodo
<1> QED
  BY <1>9, <1>10

LEMMA StageExecute ==
  ASSUME PartInv, Execute, NEW c \in Clients, c = serving, Remains, Stage(c),
         lines'[c] = lines[c], out'[c] = out[c]
  PROVE  Stage(c)'
<1>1. pc = "exec" /\ Base
  BY DEF Execute, PartInv
<1>2. CASE Misgreeted(c)
  BY <1>2 DEF Misgreeted, Stage
<1>3. CASE Talks(c)
  <2>1. ASSUME AsksGet(c) PROVE Course(c)'
    <3>1. CASE Decided(out[c], FromOf(c), UpTo(c))
      BY <3>1, SameLine DEF Course
    <3>2. CASE /\ Len(out[c]) = 2
               /\ job.command = <<"GET">> /\ job.args = Arguments(FirstOf(c))
      <4>1. /\ pc' = "send"
            /\ \/ job'.todo = <<Message(ErrMsg)>>
               \/ \E v \in Versions : /\ HasRange(v, FromOf(c), UpTo(c))
                                      /\ job'.todo = GetTodo(v, FromOf(c), UpTo(c))
        BY <1>1, <2>1, <3>2, CourseExecute
      <4>2. CASE job'.todo = <<Message(ErrMsg)>>
        BY <3>2, <4>1, <4>2 DEF Course
      <4>3. ASSUME NEW v \in Versions, HasRange(v, FromOf(c), UpTo(c)),
                   job'.todo = GetTodo(v, FromOf(c), UpTo(c))
            PROVE  Course(c)'
        <5>1. Sends(out'[c], job'.todo, v, FromOf(c), UpTo(c))
          BY <3>2, <4>3 DEF Sends
        <5> QED
          BY <4>1, <4>3, <5>1, SameLine DEF Course
      <4> QED
        BY <4>1, <4>2, <4>3
    <3> QED
      BY <1>1, <1>3, <2>1, <3>1, <3>2 DEF Talks, Course
  <2>2. Talks(c)'
    BY <1>3, <2>1, SameLine DEF Talks
  <2> QED
    BY <2>2 DEF Stage
<1> QED
  BY <1>1, <1>2, <1>3 DEF Stage, Welcomed, Silent

(* Something is sent to a client that was greeted.                         *)
LEMMA TalksOn ==
  ASSUME NEW c \in Clients, Talks(c), NEW m \in Seq(Units), out[c] \in Seq(Units),
         out'[c] = out[c] \o m, lines'[c] = lines[c], Base,
         AsksGet(c) =>
           \/ Decided(out'[c], FromOf(c), UpTo(c))
           \/ \E v \in Versions : /\ HasRange(v, FromOf(c), UpTo(c)) /\ pc' = "send"
                                  /\ Sends(out'[c], job'.todo, v, FromOf(c), UpTo(c))
  PROVE  Keeps(c)
<1>1. Acked(out[c]) /\ lines[c] # <<>> /\ out'[c] \in Seq(Units)
  BY MoreUnits DEF Talks
<1>2. Acked(out'[c])
  BY <1>1, DecidedStays DEF Acked
<1>3. AsksGet(c)' => Course(c)'
  BY SameLine DEF Course
<1>4. Stage(c)'
  BY <1>1, <1>2, <1>3 DEF Talks, Stage
<1>5. ASSUME AsksGet(c)
      PROVE  \/ TooFew(out'[c], UpTo(c) - FromOf(c))
             \/ Decided(out'[c], FromOf(c), UpTo(c))
  <2>1. FromOf(c) \in Nat /\ UpTo(c) \in Nat
    BY <1>5, GetAsked
  <2>2. ASSUME NEW v \in Versions, HasRange(v, FromOf(c), UpTo(c)),
               Sends(out'[c], job'.todo, v, FromOf(c), UpTo(c))
        PROVE  \/ TooFew(out'[c], UpTo(c) - FromOf(c))
               \/ Amiss(out'[c], UpTo(c) - FromOf(c))
    BY <1>1, <2>1, <2>2, SendsTooFew
  <2> QED
    BY <1>5, <2>2 DEF Decided
<1>6. Unmistaken(c)'
  BY <1>1, <1>5, SameLine DEF Unmistaken
<1> QED
  BY <1>4, <1>6 DEF Keeps, Heeded

LEMMA MisgreetedOn ==
  ASSUME NEW c \in Clients, NEW m \in Seq(Units), out[c] \in Seq(Units),
         out'[c] = out[c] \o m, Misgreeted(c)
  PROVE  Keeps(c)
<1>1. Len(out'[c]) >= 2 /\ ~Acked(out'[c])
  <2>1. Len(out[c]) \in Nat /\ Len(m) \in Nat /\ Len(out'[c]) = Len(out[c]) + Len(m)
    BY MoreUnits
  <2> QED
    BY <2>1, DecidedStays DEF Misgreeted
<1> QED
  BY <1>1 DEF Keeps, Heeded, Stage, Misgreeted, Unmistaken

(* The greeting, or the first part of it.                                  *)
LEMMA AckSent ==
  ASSUME NEW o \in Seq(Units), Len(o) < 2, NEW m \in Seq(Units)
  PROVE  /\ o = <<>> /\ m = AckMsg => Acked(o \o m) /\ Len(o \o m) = 2
         /\ o = <<>> /\ Len(m) = 1 => o \o m # <<>> /\ Len(o \o m) < 2
         /\ o # <<>> /\ Len(m) > 0 /\ m[1] = Word("CGYM") => Len(o \o m) >= 2 /\ ~Acked(o \o m)
<1> DEFINE t == o \o m
<1>1. /\ t \in Seq(Units) /\ Len(o) \in Nat /\ Len(m) \in Nat /\ Len(t) = Len(o) + Len(m)
      /\ \A k \in 1 .. Len(m) : t[Len(o) + k] = m[k]
  BY MoreUnits
<1> HIDE DEF t
<1>2. Len(<<>>) = 0
  OBVIOUS
<1>3. o # <<>> => Len(o) = 1
  <2>1. o # <<>> => Len(o) # 0
    BY EmptySeq
  <2> DEFINE l == Len(o)
  <2>2. l \in Nat /\ l < 2
    BY <1>1
  <2> HIDE DEF l
  <2>3. l = 0 \/ l = 1
    BY <2>2
  <2> QED
    BY <2>1, <2>3 DEF l
<1>4. ASSUME o = <<>>, m = AckMsg PROVE Acked(t) /\ Len(t) = 2
  <2>1. Len(o) = 0 /\ Len(m) = 2 /\ m[1] = Word("CGYM") /\ m[2] = CRLF
    BY <1>2, <1>4, MsgUnits
  <2>2. t[0 + 1] = m[1] /\ t[0 + 2] = m[2]
    BY <1>1, <2>1
  <2> QED
    BY <1>1, <2>1, <2>2 DEF Acked
<1>5. ASSUME o = <<>>, Len(m) = 1 PROVE t # <<>> /\ Len(t) < 2
  BY <1>1, <1>2, <1>5
<1>6. ASSUME o # <<>>, Len(m) > 0, m[1] = Word("CGYM") PROVE Len(t) >= 2 /\ ~Acked(t)
  <2>1. Len(o) = 1 /\ 1 \in 1 .. Len(m)
    BY <1>1, <1>3, <1>6
  <2>2. t[1 + 1] = m[1]
    BY <1>1, <2>1
  <2> QED
    BY <1>1, <1>6, <2>1, <2>2, WordsDiffer DEF Acked
<1> QED
  BY <1>4, <1>5, <1>6 DEF t

LEMMA ErrSent ==
  ASSUME NEW o \in Seq(Units), Len(o) = 2, NEW m \in Seq(Units), Len(m) > 0,
         m[1] = Word("ERR"), NEW from, NEW to
  PROVE  Decided(o \o m, from, to)
<1> DEFINE t == o \o m
<1>1. /\ Len(m) \in Nat /\ Len(t) = Len(o) + Len(m)
      /\ \A k \in 1 .. Len(m) : t[Len(o) + k] = m[k]
  BY MoreUnits
<1> HIDE DEF t
<1>2. Len(t) >= 3 /\ t[2 + 1] = m[1]
  BY <1>1
<1>3. Amiss(t, to - from)
  BY <1>2, WordsDiffer DEF Amiss
<1> QED
  BY <1>3 DEF Decided, t

LEMMA Emitted ==
  ASSUME Base, NEW c \in Clients, c = serving, NEW m, Emit(m)
  PROVE  out[c] \in Seq(Units) /\ out'[c] = out[c] \o m
BY DEF Base, ServerOk, Emit

LEMMA PartTransmit ==
  ASSUME PartInv, Transmit, UNCHANGED disk, NEW c \in Clients, c = serving
  PROVE  Keeps(c)
<1> DEFINE m == Head(job.todo).msg
<1>1. /\ pc = "send" /\ JobOk(job, "send") /\ link[c] = "up" /\ Emit(m) /\ SendNext
      /\ Base /\ lines' = lines /\ in' = in
  BY TransmitParts DEF PartInv
<1>2. m \in Seq(Units) /\ Len(m) \in Nat
  BY <1>1, HeadOk, LenProperties
<1>3. out[c] \in Seq(Units) /\ out'[c] = out[c] \o m
  BY <1>1, Emitted
<1>4. Stage(c)
  BY <1>1 DEF PartInv, Heeded
<1>5. CASE Misgreeted(c)
  BY <1>2, <1>3, <1>5, MisgreetedOn
<1>6. CASE Welcomed(c)
  <2>1. Len(out[c]) < 2 /\ job.todo = <<Message(AckMsg)>> /\ job.after = "read"
        /\ (out[c] = <<>> => lines[c] = <<>> /\ in[c] = <<>>)
    BY <1>6 DEF Welcomed
  <2> DEFINE a == Message(AckMsg)
  <2>2. a.msg = AckMsg
    BY MessageParts
  <2>3. job.todo = <<a>>
    BY <2>1
  <2> HIDE DEF a
  <2>4. Head(job.todo) = a /\ Tail(job.todo) = <<>>
    BY <2>3
  <2>5. m = AckMsg /\ Len(m) > 0 /\ m[1] = Word("CGYM")
    <3>1. m = AckMsg
      BY <2>2, <2>4
    <3> HIDE DEF m
    <3> QED
      BY <3>1, MsgUnits
  <2>6. pc' = "read"
    BY <1>1, <2>1, <2>4, SendNextCases
  <2> HIDE DEF m
  <2>7. CASE out[c] = <<>>
    <3>1. Acked(out'[c]) /\ Len(out'[c]) = 2 /\ lines'[c] = <<>> /\ in'[c] = <<>>
      BY <1>1, <1>2, <1>3, <2>1, <2>5, <2>7, AckSent
    <3>2. Silent(c)'
      BY <2>6, <3>1 DEF Silent
    <3>3. Unmistaken(c)'
      BY <3>1 DEF Unmistaken, AsksGet
    <3> QED
      BY <3>2, <3>3 DEF Keeps, Heeded, Stage
  <2>8. CASE out[c] # <<>>
    <3>1. Len(out'[c]) >= 2 /\ ~Acked(out'[c])
      BY <1>2, <1>3, <2>1, <2>5, <2>8, AckSent
    <3> QED
      BY <3>1 DEF Keeps, Heeded, Stage, Misgreeted, Unmistaken
  <2> QED
    BY <2>7, <2>8
<1>7. CASE Talks(c)
  <2>1. ASSUME AsksGet(c)
        PROVE  \/ Decided(out'[c], FromOf(c), UpTo(c))
               \/ \E v \in Versions : /\ HasRange(v, FromOf(c), UpTo(c)) /\ pc' = "send"
                                      /\ Sends(out'[c], job'.todo, v, FromOf(c), UpTo(c))
    <3>1. FromOf(c) \in Nat /\ UpTo(c) \in Nat
      BY <1>1, <2>1, GetAsked
    <3>2. CASE Decided(out[c], FromOf(c), UpTo(c))
      BY <1>2, <1>3, <3>1, <3>2, DecidedStays
    <3>3. CASE Len(out[c]) = 2 /\ job.todo = <<Message(ErrMsg)>>
      <4> DEFINE a == Message(ErrMsg)
      <4>1. a.msg = ErrMsg
        BY MessageParts
      <4>2. job.todo = <<a>>
        BY <3>3
      <4> HIDE DEF a
      <4>3. Head(job.todo) = a
        BY <4>2
      <4>4. m = ErrMsg /\ Len(m) > 0 /\ m[1] = Word("ERR")
        BY <4>1, <4>3, MsgUnits
      <4> HIDE DEF m
      <4> QED
        BY <1>2, <1>3, <3>3, <4>4, ErrSent
    <3>4. ASSUME NEW v \in Versions, HasRange(v, FromOf(c), UpTo(c)),
                 Sends(out[c], job.todo, v, FromOf(c), UpTo(c))
          PROVE  \/ Decided(out'[c], FromOf(c), UpTo(c))
                 \/ /\ HasRange(v, FromOf(c), UpTo(c)) /\ pc' = "send"
                    /\ Sends(out'[c], job'.todo, v, FromOf(c), UpTo(c))
      <4>1. \/ Decided(out'[c], FromOf(c), UpTo(c))
            \/ /\ Tail(job.todo) # <<>>
               /\ Sends(out'[c], Tail(job.todo), v, FromOf(c), UpTo(c))
        BY <1>3, <3>1, <3>4, SendsWhole
      <4>2. Tail(job.todo) # <<>> => pc' = "send" /\ job'.todo = Tail(job.todo)
        BY <1>1, SendNextCases
      <4> QED
        BY <3>4, <4>1, <4>2
    <3> QED
      BY <1>1, <1>7, <2>1, <3>2, <3>3, <3>4 DEF Talks, Course
  <2> HIDE DEF m
  <2> QED
    BY <1>1, <1>2, <1>3, <1>7, <2>1, TalksOn
<1> QED
  BY <1>1, <1>4, <1>5, <1>6, <1>7 DEF Stage, Silent

LEMMA PartTransmitPart ==
  ASSUME PartInv, TransmitPart, NEW c \in Clients, c = serving
  PROVE  Keeps(c)
<1> DEFINE h == Head(job.todo)
<1>1. /\ pc = "send" /\ JobOk(job, "send") /\ link[c] = "up" /\ Base
      /\ lines' = lines /\ in' = in
  BY DEF PartInv, TransmitPart, peers, Base
<1>2. /\ \/ /\ pc' = "send" /\ job'.todo = job.todo /\ job'.after = job.after
         \/ ~h.retried /\ SendNext
  BY <1>1, TransmitPartCases
<1>3. PICK k \in 1 .. Len(h.msg) - 1 :
        Emit(SubSeq(h.msg, 1, k)) /\ (~h.retried => SendNext)
  BY DEF TransmitPart
<1> DEFINE m == SubSeq(h.msg, 1, k)
<1>4. m \in Seq(Units) /\ Len(m) = k /\ k > 0 /\ k \in Nat /\ m[1] = h.msg[1]
  <2> DEFINE s == h.msg
  <2>1. s \in Seq(Units) /\ Len(s) \in Nat /\ k \in 1 .. Len(s) - 1
    BY <1>1, HeadOk, LenProperties
  <2> HIDE DEF s, h
  <2>2. \A i \in 1 .. k : s[i] \in Units
    <3>1. \A i \in 1 .. k : i \in 1 .. Len(s)
      BY <2>1
    <3> QED
      BY <2>1, <3>1, ElementOfSeq
  <2>3. k \in Int /\ 1 <= k /\ k - 1 + 1 = k /\ 1 \in 1 .. k
    BY <2>1
  <2>4. /\ SubSeq(s, 1, k) \in Seq(Units)
        /\ Len(SubSeq(s, 1, k)) = IF 1 <= k THEN k - 1 + 1 ELSE 0
        /\ \A i \in 1 .. k - 1 + 1 : SubSeq(s, 1, k)[i] = s[1 + i - 1]
    BY <2>2, <2>3, SubSeqProperties
  <2>5. SubSeq(s, 1, k)[1] = s[1]
    BY <2>3, <2>4
  <2>6. m = SubSeq(s, 1, k)
    BY DEF s
  <2> HIDE DEF m
  <2> QED
    BY <2>1, <2>3, <2>4, <2>5, <2>6 DEF s
<1>5. out[c] \in Seq(Units) /\ out'[c] = out[c] \o m
  BY <1>1, <1>3, Emitted
<1>6. Stage(c)
  BY <1>1 DEF PartInv, Heeded
<1>7. CASE Misgreeted(c)
  BY <1>4, <1>5, <1>7, MisgreetedOn
<1>8. CASE Welcomed(c)
  <2>1. Len(out[c]) < 2 /\ job.todo = <<Message(AckMsg)>> /\ job.after = "read"
        /\ (out[c] = <<>> => lines[c] = <<>> /\ in[c] = <<>>)
    BY <1>8 DEF Welcomed
  <2> DEFINE a == Message(AckMsg)
  <2>2. a.msg = AckMsg /\ a.retried = TRUE
    BY MessageParts
  <2>3. job.todo = <<a>>
    BY <2>1
  <2> HIDE DEF a
  <2>4. h = a
    BY <2>3
  <2>5. Len(m) = 1 /\ m[1] = Word("CGYM")
    <3>1. Len(h.msg) = 2 /\ h.msg[1] = Word("CGYM")
      BY <2>2, <2>4, MsgUnits
    <3> HIDE DEF h
    <3>2. k = 1
      BY <3>1
    <3> QED
      BY <1>4, <3>1, <3>2
  <2>6. pc' = "send" /\ job'.todo = <<Message(AckMsg)>> /\ job'.after = "read"
    BY <1>2, <2>1, <2>2, <2>4
  <2> HIDE DEF m, h
  <2>7. CASE out[c] = <<>>
    <3>1. out'[c] # <<>> /\ Len(out'[c]) < 2
      BY <1>4, <1>5, <2>1, <2>5, <2>7, AckSent
    <3>2. Welcomed(c)'
      BY <2>6, <3>1 DEF Welcomed
    <3>3. ~Acked(out'[c])
      <4>1. Len(out'[c]) \in Nat
        BY <1>4, <1>5, MoreUnits, LenProperties
      <4> QED
        BY <3>1, <4>1 DEF Acked
    <3>4. Unmistaken(c)'
      BY <3>3 DEF Unmistaken
    <3> QED
      BY <3>2, <3>4 DEF Keeps, Heeded, Stage
  <2>8. CASE out[c] # <<>>
    <3>1. Len(out'[c]) >= 2 /\ ~Acked(out'[c])
      BY <1>4, <1>5, <2>1, <2>5, <2>8, AckSent
    <3> QED
      BY <3>1 DEF Keeps, Heeded, Stage, Misgreeted, Unmistaken
  <2> QED
    BY <2>7, <2>8
<1>9. CASE Talks(c)
  <2>1. ASSUME AsksGet(c)
        PROVE  \/ Decided(out'[c], FromOf(c), UpTo(c))
               \/ \E v \in Versions : /\ HasRange(v, FromOf(c), UpTo(c)) /\ pc' = "send"
                                      /\ Sends(out'[c], job'.todo, v, FromOf(c), UpTo(c))
    <3>1. FromOf(c) \in Nat /\ UpTo(c) \in Nat
      BY <1>1, <2>1, GetAsked
    <3>2. CASE Decided(out[c], FromOf(c), UpTo(c))
      <4> HIDE DEF m
      <4> QED
        BY <1>4, <1>5, <3>1, <3>2, DecidedStays
    <3>3. CASE Len(out[c]) = 2 /\ job.todo = <<Message(ErrMsg)>>
      <4> DEFINE a == Message(ErrMsg)
      <4>1. a.msg = ErrMsg
        BY MessageParts
      <4>2. job.todo = <<a>>
        BY <3>3
      <4> HIDE DEF a
      <4>3. h = a
        BY <4>2
      <4>4. m[1] = Word("ERR")
        BY <1>4, <4>1, <4>3, MsgUnits
      <4> HIDE DEF m, h
      <4> QED
        BY <1>4, <1>5, <3>3, <4>4, ErrSent
    <3>4. ASSUME NEW v \in Versions, HasRange(v, FromOf(c), UpTo(c)),
                 Sends(out[c], job.todo, v, FromOf(c), UpTo(c))
          PROVE  \/ Decided(out'[c], FromOf(c), UpTo(c))
                 \/ /\ HasRange(v, FromOf(c), UpTo(c)) /\ pc' = "send"
                    /\ Sends(out'[c], job'.todo, v, FromOf(c), UpTo(c))
      <4>1. \/ Decided(out'[c], FromOf(c), UpTo(c))
            \/ /\ ~h.retried /\ Tail(job.todo) # <<>>
               /\ Sends(out'[c], Tail(job.todo), v, FromOf(c), UpTo(c))
            \/ h.retried /\ Sends(out'[c], job.todo, v, FromOf(c), UpTo(c))
        BY <1>3, <1>5, <3>1, <3>4, SendsPart
      <4>2. h.retried => pc' = "send" /\ job'.todo = job.todo
        BY <1>2
      <4>3. ~h.retried /\ Tail(job.todo) # <<>> => pc' = "send" /\ job'.todo = Tail(job.todo)
        BY <1>1, <1>3, SendNextCases
      <4> QED
        BY <3>4, <4>1, <4>2, <4>3
    <3> QED
      BY <1>1, <1>9, <2>1, <3>2, <3>3, <3>4 DEF Talks, Course
  <2> HIDE DEF m
  <2> QED
    BY <1>1, <1>4, <1>5, <1>9, <2>1, TalksOn
<1> QED
  BY <1>1, <1>6, <1>7, <1>8, <1>9 DEF Stage, Silent

(* A step that sends nothing to the client that is served.                 *)
LEMMA ThreadHeeds ==
  ASSUME PartInv, Thread, NEW c \in Clients, c = serving, link[c] = "up", Remains,
         lines'[c] = lines[c], ~Transmit, ~TransmitPart
  PROVE  out'[c] = out[c] /\ Heeded(c)'
<1>1. Stage(c)
  BY DEF PartInv, Heeded
<1>2. ~TransmitInVain
  BY DEF TransmitInVain
<1>3. CASE Read
  <2>1. out' = out
    BY <1>3 DEF Read
  <2> QED
    BY <1>1, <1>3, <2>1, StageRead DEF Heeded
<1>4. CASE Execute
  <2>1. out' = out
    BY <1>4 DEF Execute
  <2> QED
    BY <1>1, <1>4, <2>1, StageExecute DEF Heeded
<1>5. CASE Md5 \/ ListEntry \/ ListMd5 \/ ListDone
  <2>1. out' = out /\ pc \notin {"read", "exec", "send"}
    BY <1>5 DEF Md5, ListEntry, ListMd5, ListDone
  <2> QED
    BY <1>1, <2>1, SilentStage DEF Heeded
<1> QED
  BY <1>2, <1>3, <1>4, <1>5 DEF Thread

LEMMA ThreadSilent ==
  ASSUME Thread, ~Transmit, ~TransmitPart
  PROVE  out' = out
BY DEF Thread, Read, Execute, Md5, ListEntry, ListMd5, ListDone, TransmitInVain

LEMMA PartThread ==
  ASSUME PartInv, Thread, UNCHANGED disk
  PROVE  \A c \in Clients : Keeps(c)
<1>1. ASSUME NEW c \in Clients PROVE Keeps(c)
  <2>1. /\ lines'[c] = lines[c] /\ link'[c] = link[c]
        /\ c # serving => Keeps(c)
        /\ out'[c] = out[c] => Unmistaken(c)'
        /\ (~Remains \/ link[c] # "up") => Heeded(c)'
    BY ThreadUnmistaken
  <2>2. CASE c # serving
    BY <2>1, <2>2
  <2>3. CASE c = serving /\ Transmit
    BY <2>3, PartTransmit
  <2>4. CASE c = serving /\ TransmitPart
    BY <2>4, PartTransmitPart
  <2>5. CASE c = serving /\ ~Transmit /\ ~TransmitPart
    <3>1. out' = out
      BY <2>5, ThreadSilent
    <3>2. Heeded(c)'
      BY <2>1, <2>5, ThreadHeeds
    <3> QED
      BY <2>1, <3>1, <3>2 DEF Keeps
  <2> QED
    BY <2>2, <2>3, <2>4, <2>5
<1> QED
  BY <1>1

(* The lines of a client after one more.                                   *)
LEMMA OneMoreLine ==
  ASSUME Base, NEW c \in Clients, NEW line \in Lines[c], lines'[c] = Append(lines[c], line)
  PROVE  /\ lines'[c] # <<>>
         /\ lines[c] = <<>> => FirstOf(c)' = line
         /\ lines[c] # <<>> =>
              /\ FirstOf(c)' = FirstOf(c) /\ FromOf(c)' = FromOf(c) /\ UpTo(c)' = UpTo(c)
              /\ (AsksGet(c)' <=> AsksGet(c))
<1> DEFINE l == lines[c]
           m == lines'[c]
<1>1. l \in Seq(Seq(Symbols)) /\ line \in Seq(Symbols) /\ Len(l) \in Nat
  BY ServerAssumption, LenProperties DEF Base, PeersOk
<1> HIDE DEF l
<1>2. m = Append(l, line)
  BY DEF l
<1> HIDE DEF m
<1>3. /\ Len(m) = Len(l) + 1 /\ m \in Seq(Seq(Symbols))
      /\ \A i \in 1 .. Len(l) : m[i] = l[i]
      /\ m[Len(l) + 1] = line
  BY <1>1, <1>2, AppendProperties
<1>4. m # <<>>
  BY <1>1, <1>3, EmptySeq
<1>5. Len(<<>>) = 0
  OBVIOUS
<1>6. l = <<>> => m[1] = line
  BY <1>3, <1>5
<1>7. l # <<>> => m[1] = l[1]
  <2>1. l # <<>> => Len(l) # 0
    BY <1>1, EmptySeq
  <2>2. l # <<>> => 1 \in 1 .. Len(l)
    BY <1>1, <2>1
  <2> QED
    BY <1>3, <2>2
<1>8. FirstOf(c) = l[1] /\ FirstOf(c)' = m[1]
  BY DEF FirstOf, l, m
<1>9. l # <<>> => /\ FirstOf(c)' = FirstOf(c)
                  /\ FromOf(c)' = FromOf(c) /\ UpTo(c)' = UpTo(c)
  BY <1>7, <1>8 DEF FromOf, UpTo
<1>10. l # <<>> => (AsksGet(c)' <=> AsksGet(c))
  BY <1>4, <1>9 DEF AsksGet, l, m
<1> QED
  BY <1>4, <1>6, <1>8, <1>9, <1>10 DEF l, m

(* The client that is served sends a line.                                 *)
LEMMA StageSend ==
  ASSUME PartInv, NEW c \in Clients, NEW line \in Lines[c], Stage(c), out[c] # <<>>,
         lines'[c] = Append(lines[c], line), in'[c] = in[c] \o line \o <<"CR", "LF">>,
         out'[c] = out[c], pc' = pc, job' = job
  PROVE  Stage(c)'
<1> DEFINE e == <<"CR", "LF">>
<1>1. Base /\ in[c] \in Seq(Symbols) /\ line \in Seq(Symbols) /\ e \in Seq(Symbols)
  BY ServerAssumption, LineEndType DEF PartInv, Base, PeersOk
<1>2. /\ lines'[c] # <<>>
      /\ lines[c] = <<>> => FirstOf(c)' = line
      /\ lines[c] # <<>> =>
           /\ FirstOf(c)' = FirstOf(c) /\ FromOf(c)' = FromOf(c) /\ UpTo(c)' = UpTo(c)
           /\ (AsksGet(c)' <=> AsksGet(c))
  BY <1>1, OneMoreLine
<1>3. in'[c] = (in[c] \o line) \o e
  OBVIOUS
<1> HIDE DEF e
<1>4. CASE Misgreeted(c)
  BY <1>4 DEF Misgreeted, Stage
<1>5. CASE Welcomed(c)
  BY <1>5 DEF Welcomed, Stage
<1>6. CASE Silent(c)
  <2>1. in'[c] = (line \o e) \o <<>>
    <3>1. in[c] \o line = line
      BY <1>1, <1>6, ConcatEmptySeq DEF Silent
    <3>2. line \o e \in Seq(Symbols)
      BY <1>1, ConcatProperties
    <3>3. (line \o e) \o <<>> = line \o e
      BY <3>2, ConcatEmptySeq
    <3> QED
      BY <1>3, <3>1, <3>3
  <2>2. <<>> \in Seq(Symbols)
    BY EmptySeq
  <2>3. \E rest \in Seq(Symbols) : in'[c] = (FirstOf(c)' \o e) \o rest
    BY <1>2, <1>6, <2>1, <2>2 DEF Silent
  <2>4. Course(c)'
    BY <1>6, <2>3 DEF Silent, Course, e
  <2>5. Talks(c)'
    BY <1>2, <1>6, <2>4 DEF Silent, Talks
  <2> QED
    BY <2>5 DEF Stage
<1>7. CASE Talks(c)
  <2>1. lines[c] # <<>> /\ Acked(out[c])
    BY <1>7 DEF Talks
  <2>2. ASSUME AsksGet(c) PROVE Course(c)'
    <3> DEFINE f == FirstOf(c)
    <3>1. ASSUME NEW rest \in Seq(Symbols), in[c] = (f \o e) \o rest
          PROVE  \E more \in Seq(Symbols) : in'[c] = (f \o e) \o more
      <4> DEFINE g == f \o e
                 le == line \o e
      <4>1. f \in Seq(Symbols)
        BY <1>1, <2>2, GetAsked
      <4>2. g \in Seq(Symbols) /\ le \in Seq(Symbols)
        BY <1>1, <4>1, ConcatProperties
      <4>3. rest \o le \in Seq(Symbols)
        BY <4>2, ConcatProperties
      <4>4. \A a, b, d \in Seq(Symbols) : (a \o b) \o d = a \o (b \o d)
        BY Regrouped
      <4>5. in'[c] = in[c] \o le
        BY <1>1, <1>3, <4>4
      <4> HIDE DEF g, le
      <4>6. in[c] = g \o rest
        BY <3>1 DEF g
      <4>7. (g \o rest) \o le = g \o (rest \o le)
        BY <4>2, <4>4
      <4>8. in'[c] = g \o (rest \o le)
        BY <4>5, <4>6, <4>7
      <4> QED
        BY <4>3, <4>8 DEF g
    <3>2. Course(c)
      BY <1>7, <2>2 DEF Talks
    <3>3. FirstOf(c)' = FirstOf(c) /\ FromOf(c)' = FromOf(c) /\ UpTo(c)' = UpTo(c)
      BY <1>2, <2>1
    <3>4. (\E rest \in Seq(Symbols) : in[c] = (f \o e) \o rest)
            => \E more \in Seq(Symbols) : in'[c] = (f \o e) \o more
      BY <3>1
    <3> QED
      BY <3>2, <3>3, <3>4 DEF Course, e
  <2>3. Talks(c)'
    BY <1>2, <2>1, <2>2 DEF Talks
  <2> QED
    BY <2>3 DEF Stage
<1> QED
  BY <1>4, <1>5, <1>6, <1>7 DEF Stage

LEMMA PartSend ==
  ASSUME PartInv, NEW d \in Clients, NEW line \in Lines[d], Send(d, line)
  PROVE  \A c \in Clients : Keeps(c)
<1>1. /\ out' = out /\ link' = link /\ serving' = serving /\ pc' = pc /\ job' = job
      /\ out[d] # <<>>
      /\ lines' = [lines EXCEPT ![d] = Append(@, line)]
      /\ in' = [in EXCEPT ![d] = @ \o line \o <<"CR", "LF">>]
  BY DEF Send, CanSend, server
<1>2. /\ lines'[d] = Append(lines[d], line)
      /\ in'[d] = in[d] \o line \o <<"CR", "LF">>
      /\ \A c \in Clients : c # d => lines'[c] = lines[c] /\ in'[c] = in[c]
  BY <1>1 DEF PartInv, Base, PeersOk
<1>3. ASSUME NEW c \in Clients, c # d PROVE Keeps(c)
  BY <1>1, <1>2, <1>3, SameStays DEF PartInv
<1>4. Base /\ Unmistaken(d) /\ Heeded(d)
  BY DEF PartInv
<1>5. /\ lines'[d] # <<>>
      /\ lines[d] # <<>> =>
           /\ FirstOf(d)' = FirstOf(d) /\ FromOf(d)' = FromOf(d) /\ UpTo(d)' = UpTo(d)
           /\ (AsksGet(d)' <=> AsksGet(d))
  BY <1>2, <1>4, OneMoreLine
<1>6. Unmistaken(d)'
  <2>1. CASE lines[d] = <<>>
    <3>1. Acked(out[d]) => Len(out[d]) = 2
      BY <1>4, <2>1 DEF Unmistaken
    <3> DEFINE n == UpTo(d)' - FromOf(d)'
               L == Len(out[d])
    <3> HIDE DEF n, L
    <3>2. L = 2 => L < 4
      OBVIOUS
    <3>3. Acked(out[d]) => L < 4
      BY <3>1, <3>2 DEF L
    <3>4. Acked(out[d]) => TooFew(out[d], n)
      BY <3>3, Zenon DEF TooFew, L
    <3> QED
      BY <1>1, <1>5, <3>4 DEF Unmistaken, n
  <2>2. CASE lines[d] # <<>>
    BY <1>1, <1>4, <1>5, <2>2 DEF Unmistaken
  <2> QED
    BY <2>1, <2>2
<1>7. Heeded(d)'
  <2>1. ASSUME d = serving, link[d] = "up" PROVE Stage(d)'
    <3>1. Stage(d)
      BY <1>4, <2>1 DEF Heeded
    <3> QED
      BY <1>1, <1>2, <3>1, StageSend
  <2> QED
    BY <1>1, <2>1 DEF Heeded
<1> QED
  BY <1>3, <1>6, <1>7 DEF Keeps

LEMMA EveryStepParts ==
  ASSUME PartInv, [Next]_vars
  PROVE  PartInv'
<1>1. Base'
  BY BaseKeeps DEF PartInv
<1>2. \A c \in Clients : Keeps(c)
  <2>1. CASE UNCHANGED vars
    BY <2>1, PartStutters
  <2>2. CASE Server
    <3>1. UNCHANGED disk /\ (Accept \/ AcceptFails \/ Thread)
      BY <2>2 DEF Server, Thread
    <3> QED
      BY <3>1, PartAccept, PartAcceptFails, PartThread
  <2>3. CASE Edit
    BY <2>3, PartEdit
  <2>4. ASSUME NEW d \in Clients, Client(d) PROVE \A c \in Clients : Keeps(c)
    BY <2>4, PartDial, PartLeave, PartSend DEF Client
  <2> QED
    BY <2>1, <2>2, <2>3, <2>4 DEF Next
<1> QED
  BY <1>1, <1>2 DEF PartInv, Keeps

LEMMA GreetedIsAcked ==
  ASSUME NEW o \in Seq(Units), IsPrefix(AckMsg, o)
  PROVE  Acked(o)
<1> DEFINE a == AckMsg
<1>1. a \in Seq(Units) /\ Len(a) = 2 /\ a[1] = Word("CGYM") /\ a[2] = CRLF /\ Len(o) \in Nat
  BY MsgUnits, LenProperties
<1> HIDE DEF a
<1>2. Len(a) <= Len(o) /\ SubSeq(a, 1, Len(a)) = SubSeq(o, 1, Len(a))
  BY DEF IsPrefix, a
<1>3. SubSeq(a, 1, 2) = SubSeq(o, 1, 2) /\ 2 <= Len(o)
  BY <1>1, <1>2
<1>4. a[1] = o[1] /\ a[2] = o[2]
  BY <1>1, <1>3
<1> QED
  BY <1>1, <1>3, <1>4 DEF Acked

LEMMA PartImplies == PartInv => PartNotTaken
<1> SUFFICES ASSUME PartInv,
                    NEW c \in Clients, lines[c] # <<>>, Speaks(lines[c][1]),
                    lines[c][1][1] = "GET", IsPrefix(AckMsg, out[c])
             PROVE  LET m == Meaning(lines[c][1])
                        r == cgym_recv_get_reply(Waits, Arrived(c), m.to - m.from)
                    IN  r.rc = 0 => \E v \in Versions :
                                      r.segm.buf = Slice(v, m.from, m.to) \o EndMsg
  BY DEF PartNotTaken
<1> DEFINE m == Meaning(lines[c][1])
           a == Arrived(c)
           o == out[c]
           from == FromOf(c)
           to == UpTo(c)
           r == cgym_recv_get_reply(Waits, a, to - from)
<1>1. AsksGet(c) /\ Base /\ Unmistaken(c) /\ o \in Seq(Units)
  BY DEF AsksGet, FirstOf, PartInv, Base, ServerOk
<1>2. /\ from \in Nat /\ to \in Nat
      /\ Meaning(FirstOf(c)) = Request("get", NameFrom(FirstOf(c), 7), FromOf(c), UpTo(c))
  BY <1>1, GetAsked
<1>3. m.from = from /\ m.to = to
  BY <1>2 DEF Request, FirstOf
<1>4. Acked(o)
  BY <1>1, GreetedIsAcked
<1>5. Len(o) >= 2 /\ (TooFew(o, to - from) \/ Decided(o, from, to))
  BY <1>1, <1>4 DEF Unmistaken, Acked
<1> DEFINE fin == c \in closed
<1>6. a = [st |-> "up", srv |-> 1, greeted |-> TRUE, req |-> 0, flight |-> <<>>,
           avail |-> SubSeq(o, 3, Len(o)), fin |-> fin]
  <2>1. Len(AckMsg) + 1 = 3
    BY MsgUnits
  <2> QED
    BY <2>1 DEF Arrived
<1>7. a \in Conns /\ a.avail = SubSeq(o, 3, Len(o))
  <2>1. fin \in BOOLEAN
    OBVIOUS
  <2>2. SubSeq(o, 3, Len(o)) \in Seq(Units)
    BY <1>1, <1>5, AfterTwo
  <2> DEFINE rest == SubSeq(o, 3, Len(o))
  <2> HIDE DEF rest, fin, o, a
  <2>3. <<>> \in Seq(Units) /\ rest \in Seq(Units)
    BY <2>2, EmptySeq DEF rest
  <2>4. a = [st |-> "up", srv |-> 1, greeted |-> TRUE, req |-> 0, flight |-> <<>>,
             avail |-> rest, fin |-> fin]
    BY <1>6 DEF rest
  <2>5. a \in Conns /\ a.avail = rest
    BY <2>1, <2>3, <2>4 DEF Conns
  <2> QED
    BY <2>5 DEF rest
<1> HIDE DEF a, o, from, to, fin
<1>8. r.rc = 0 => \E v \in Versions : r.segm.buf = Slice(v, from, to) \o EndMsg
  <2>1. ASSUME r.rc = 0 PROVE \E v \in Versions : r.segm.buf = Slice(v, from, to) \o EndMsg
    BY <1>1, <1>2, <1>5, <1>7, <2>1, NoneMistaken
  <2> QED
    BY <2>1
<1> QED
  BY <1>3, <1>8 DEF a

(* Of what was sent twice after a partial send no client takes bytes for   *)
(* the ones its GET asked, whatever the file, the range and the parts.     *)
THEOREM PartsNotTaken == Spec => []PartNotTaken
<1>1. PartInv /\ [Next]_vars => PartInv'
  BY EveryStepParts
<1> QED
  BY <1>1, PartInit, PartImplies, PTL DEF Spec
=============================================================================
