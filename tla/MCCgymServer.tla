----------------------------- MODULE MCCgymServer -----------------------------
(***************************************************************************)
(* Small instances of CgymServer.                                          *)
(***************************************************************************)
EXTENDS CgymServerProps

CONSTANTS v1, v2, c1, c2

MCVersions == {v1, v2}
MCSizes    == (v1 :> 2) @@ (v2 :> 1)
MCNumerals == ("0" :> 0) @@ ("1" :> 1) @@ ("2" :> 2)

dd == <<"/", "d", "d">>
f  == dd \o <<"/", "f">>
g  == <<"/", "g">>
MCDirs    == {<<"/">>, dd}
MCReadDir == (<<"/">> :> << <<"d", "d">>, <<"g">> >>) @@ (dd :> << <<"f">> >>)
MCUnreadable == {g}

MCSymbols == {"SIZE", "GET", "LIST", "QUIT", "SP", "CR", "LF", "/", "d", "f",
              "g", "0", "2", "junk"}

(* What libcgym sends.                                                     *)
SizeF   == <<"SIZE", "SP">> \o f
GetF    == <<"GET", "SP", "0", "SP", "2", "SP">> \o f
ListTop == <<"LIST", "SP", "/">>
ListDir == <<"LIST", "SP">> \o dd
Quit    == <<"QUIT">>

(* The same for a file that cannot be opened; it is in the home directory. *)
SizeG   == <<"SIZE", "SP">> \o g
GetG    == <<"GET", "SP", "0", "SP", "2", "SP">> \o g

(* What it sends for an empty name, one with two spaces or one too long,   *)
(* and what other programs may send.                                       *)
NoName   == <<"SIZE", "SP">>
Spaced   == GetF \o <<"SP", "f", "SP", "f">>
Long     == SizeF \o <<"f", "f", "f", "f", "f", "f", "f", "f", "f", "f">>
Empty    == <<>>

(* One client that sends most of these, and one that sends one line.       *)
MCLines == (c1 :> {SizeF, GetF, ListTop, ListDir, SizeG, GetG, Spaced, Long, Empty})
             @@ (c2 :> {GetF, Quit})
MCTorn  == {SizeF}
MCMaxLines == (c1 :> 2) @@ (c2 :> 1)

(* Lines that are answered, cut, not understood or fatal.                  *)
MCFewLines == (c1 :> {SizeF, Long, NoName, Empty}) @@ (c2 :> {GetF})
MCNames    == [c \in Clients |-> {SizeF, Long}]
MCOneLine  == [c \in Clients |-> 1]

MCInitial == {(f :> v1) @@ (g :> v1)}
=============================================================================
