----------------------------- MODULE CgymDownload -----------------------------
(***************************************************************************)
(* What cgym_get() promises, whatever the servers and the network do: it   *)
(* learns once what the file is, fetches each piece once and from one      *)
(* version of the file, writes nothing before it has all of them, and says *)
(* that it succeeded only of a file that is the one described.  CgymGet    *)
(* implements it.                                                          *)
(***************************************************************************)
EXTENDS CgymSock, CgymSegments

CONSTANT NrSegm        \* the -n argument

VARIABLES
  phase,   \* "describe", "fetch", "delivered" or "failed"
  entry,   \* the version that was described
  got,     \* the pieces, empty when they are still to be fetched
  file     \* what was written

downloadVars == <<phase, entry, got, file>>

Count(v) == ClampSegments(NrSegm, SizeOf[v])

(* Piece k of a file of which version v is had, for the entry en.          *)
From(k, en)  == SegmStart(k - 1, Count(en), SizeOf[en])
Until(k, en) == SegmStop(k - 1, Count(en), SizeOf[en])
Piece(k, v, en) == Slice(v, From(k, en), Until(k, en))

Init ==
  /\ phase = "describe" /\ entry = NoVersion /\ got = <<>> /\ file = <<>>

Describe ==
  /\ phase = "describe" /\ phase' = "fetch"
  /\ entry' \in Versions
  /\ got' = [k \in 1 .. Count(entry') |-> <<>>]
  /\ UNCHANGED file

Fetch(k) ==
  /\ phase = "fetch"
  /\ got[k] = <<>> /\ got'[k] # <<>>
  /\ \E v \in Versions : got'[k] = Piece(k, v, entry)
  /\ got' = [got EXCEPT ![k] = got'[k]]
  /\ UNCHANGED <<phase, entry, file>>

Complete == phase = "fetch" /\ \A k \in DOMAIN got : got[k] # <<>>

(* The file is the first n bytes of the pieces put side by side.           *)
Written(n) ==
  /\ Len(file') = n
  /\ \A k \in DOMAIN got : \A j \in DOMAIN got[k] :
       From(k, entry) + j <= n => file'[From(k, entry) + j] = got[k][j]

Deliver ==
  /\ Complete
  /\ Written(SizeOf[entry])
  /\ phase' = IF file' = Content(entry) THEN "delivered" ELSE "failed"
  /\ UNCHANGED <<entry, got>>

(* It may fail at any time; when it is writing, a part of the file remains.*)
Fail ==
  /\ phase \in {"describe", "fetch"} /\ phase' = "failed"
  /\ \/ UNCHANGED file
     \/ Complete /\ \E n \in 0 .. SizeOf[entry] : Written(n)
  /\ UNCHANGED <<entry, got>>

Next ==
  \/ Describe \/ Deliver \/ Fail
  \/ \E k \in DOMAIN got : Fetch(k)

Spec == Init /\ [][Next]_downloadVars
=============================================================================
