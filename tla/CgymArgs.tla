------------------------------- MODULE CgymArgs -------------------------------
(***************************************************************************)
(* The client's command line: main() of cgym/src/cgym.c and                *)
(* cgym_server_info_create() of libcgym/src/server.c.                      *)
(*                                                                         *)
(* argv is a sequence of words without argv[0].  A word is a record of its *)
(* text and, when strtol() takes the whole text for a number, its value.   *)
(***************************************************************************)
EXTENDS CgymSegments, Sequences

Text(t)   == [text |-> t, value |-> 0]
Number(n) == [text |-> "number", value |-> n]

(* *tail is '\0': also for an empty word, which is 0.                      *)
IsNumber(word) == word.text \in {"number", ""}

(* host:port is a server when the port is a number.                        *)
NULL == "NULL"
cgym_server_info_create(word) ==
  IF word.text = "host:junk" THEN NULL ELSE word.text

Servers(argv, from) ==
  [k \in 1 .. Len(argv) - from + 1 |-> cgym_server_info_create(argv[from + k - 1])]

(* What main() calls.                                                      *)
Usage == [call |-> "usage"]
cgym_list(server, path) == [call |-> "cgym_list", server |-> server, path |-> path]
cgym_get(path, segments, slist) ==
  [call |-> "cgym_get", path |-> path, segments |-> segments, slist |-> slist]

ListCommand(argv) ==
  IF Len(argv) \in 2 .. 3
  THEN cgym_list(cgym_server_info_create(argv[Len(argv)]),
                 IF Len(argv) = 3 THEN argv[2] ELSE Text("/"))
  ELSE Usage

(* -n is an option when a number follows it, and else the file.  The value *)
(* of strtol(), a long, is assigned to an int.                             *)
IsOption(argv) == argv[2] = Text("-n") /\ IsNumber(argv[3])

M_GetCommand(argv) ==
  IF Len(argv) < 3 \/ (IsOption(argv) /\ Len(argv) < 4) THEN Usage
  ELSE IF IsOption(argv)
  THEN cgym_get(argv[4], ToInt(argv[3].value), Servers(argv, 5))
  ELSE cgym_get(argv[2], ToInt(Len(argv) - 2), Servers(argv, 3))

GetCommand(argv) ==
  IF Len(argv) < 3 \/ (IsOption(argv) /\ Len(argv) < 5) THEN Usage
  ELSE IF IsOption(argv)
  THEN cgym_get(argv[4], ToInt(argv[3].value), Servers(argv, 5))
  ELSE cgym_get(argv[2], ToInt(Len(argv) - 2), Servers(argv, 3))

main(argv) ==
  IF argv = <<>> THEN Usage
  ELSE IF argv[1] = Text("list") THEN ListCommand(argv)
  ELSE IF argv[1] = Text("get") THEN GetCommand(argv)
  ELSE Usage

-----------------------------------------------------------------------------
(* The usage message (cgym.c:10-11), read as a grammar:                    *)
(* list [DIRECTORY] server, and get [-n N] file server1 ... serverN, where *)
(* there are as many segments as servers when -n is not given.             *)
Readings(argv) ==
  LET n == Len(argv)
      Is(verb, words) == words /\ argv[1] = Text(verb)
      If(P, c)        == IF P THEN {c} ELSE {}
  IN  If(Is("list", n = 2), cgym_list(cgym_server_info_create(argv[2]), Text("/")))
        \cup If(Is("list", n = 3),
                cgym_list(cgym_server_info_create(argv[3]), argv[2]))
        \cup If(Is("get", n >= 3), cgym_get(argv[2], n - 2, Servers(argv, 3)))
        \cup If(Is("get", n >= 5) /\ argv[2] = Text("-n") /\ IsNumber(argv[3]),
                cgym_get(argv[4], ToInt(argv[3].value), Servers(argv, 5)))

(* The file "-n" on a first server whose name is a number has the readings *)
(* of an option, and too few words for it.                                 *)
Ambiguous(argv) ==
  /\ Len(argv) \in 3 .. 4
  /\ argv[1] = Text("get") /\ argv[2] = Text("-n") /\ IsNumber(argv[3])
=============================================================================
