------------------------------ MODULE MCCgymList ------------------------------
(***************************************************************************)
(* Two programs that list directories, one of them any directory.          *)
(***************************************************************************)
EXTENDS CgymList

CONSTANTS v1, c1, c2

MCVersions == {v1}
MCSizes    == (v1 :> 1)
MCNumerals == ("0" :> 0)

dd == <<"/", "d", "d">>
f  == dd \o <<"/", "f">>
g  == dd \o <<"/", "g">>
u  == <<"/", "u", "u">>
h  == u \o <<"/", "h">>
MCDirs    == {<<"/">>, dd, u}
MCReadDir == (<<"/">> :> << <<"d", "d">>, <<"u", "u">> >>)
               @@ (dd :> << <<"f">>, <<"g">> >>) @@ (u :> << <<"h">> >>)
MCUnreadable == {h}
MCInitial == {[n \in {f, g, h} |-> v1], [n \in {f, g, h} |-> NoVersion]}

MCSymbols == {"LIST", "SP", "CR", "LF", "/", "d", "f", "g", "h", "u", "x", "junk"}

ListOf(path) == <<"LIST", "SP">> \o path
Missing    == <<"/", "x", "x">>
Spaced     == dd \o <<"SP", "f", "SP", "f", "SP", "f", "SP", "f">>

MCLines == (c1 :> {ListOf(<<"/">>), ListOf(dd), ListOf(u), ListOf(Missing), ListOf(Spaced),
                   ListOf(<<>>)})
             @@ (c2 :> {ListOf(dd)})
MCMaxLines == [c \in Clients |-> 1]
=============================================================================
