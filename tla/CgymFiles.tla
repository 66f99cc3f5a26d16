------------------------------ MODULE CgymFiles ------------------------------
(***************************************************************************)
(* The files a server holds, their names, and what it has to send for a    *)
(* request about them.  A name is a sequence of characters that starts     *)
(* with "/" and has no two of them in a row, a store gives the version held*)
(* under each name of a file.                                              *)
(***************************************************************************)
EXTENDS CgymSock, SequencesExt

CONSTANTS
  Dirs,      \* the names of directories, with that of the home directory, "/"
  ReadDir,   \* what readdir() gives for each, but "." and "..", in its order
  Unreadable \* the names of files that stat() finds and fopen() does not open

ASSUME FilesAssumption == <<"/">> \in Dirs

(* What is called base in directory dir.                                   *)
Join(dir, base) == (IF dir = <<"/">> THEN dir ELSE Append(dir, "/")) \o base

Entries   == UNION {{Join(dir, base) : base \in ToSet(ReadDir[dir])} : dir \in Dirs}
FileNames == Entries \ Dirs
Stores    == [FileNames -> Versions \cup {NoVersion}]

Held(st, name)   == IF name \in FileNames THEN st[name] ELSE NoVersion
Opened(st, name) == IF name \in Unreadable THEN NoVersion ELSE Held(st, name)

-----------------------------------------------------------------------------
(* The directory that opendir() finds under a name: "/d" and "/d/" are one.*)
Denoted(name) ==
  IF Len(name) > 1 /\ name[Len(name)] = "/" THEN SubSeq(name, 1, Len(name) - 1)
                                             ELSE name

FileItem(name, v) == [kind |-> "file", name |-> name, of |-> v]
DirItem(name)     == [kind |-> "dir", name |-> name, of |-> NoVersion]

(* What is listed under the name shown of a file or directory: a file that *)
(* is not there any more is a "lstat error".                               *)
Shown(st, name, shown) ==
  IF name \in Dirs THEN <<DirItem(shown)>>
  ELSE IF st[name] # NoVersion THEN <<FileItem(shown, st[name])>>
  ELSE <<>>

(* What is in directory dir, the last entry of readdir() first.            *)
Listing(st, dir) ==
  LET bases == ReadDir[dir]
      after[k \in 0 .. Len(bases)] ==
        IF k = 0 THEN <<>>
        ELSE LET name == Join(dir, bases[k]) IN Shown(st, name, name) \o after[k - 1]
  IN  after[Len(bases)]

ListLine(item)   == <<item, CRLF>>
ListReply(items) ==
  OkMsg \o FlattenSeq([k \in DOMAIN items |-> ListLine(items[k])]) \o EndMsg

-----------------------------------------------------------------------------
(* The requests of libcgym (libcgym.h:20-23, cgym_list.c:16).              *)
Request(op, name, from, to) == [op |-> op, name |-> name, from |-> from, to |-> to]

(* Their replies, given at one moment.                                     *)
Reply(r, st) ==
  LET v == Held(st, r.name)
      w == Opened(st, r.name)
  IN  CASE r.op = "size" -> IF v # NoVersion THEN SizeReply(v) ELSE ErrMsg
        [] r.op = "get"  -> IF HasRange(w, r.from, r.to)
                            THEN GetReply(w, r.from, r.to) ELSE ErrMsg
        [] r.op = "list" -> IF Denoted(r.name) \in Dirs
                            THEN ListReply(Listing(st, Denoted(r.name)))
                            ELSE ErrMsg
=============================================================================
