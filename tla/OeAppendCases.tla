--------------------------- MODULE OeAppendCases ----------------------------
(***************************************************************************)
(* Two files, handed in with and without parameters, for one of two        *)
(* machines or for all, to a recipe that lists one of them.                *)
(***************************************************************************)
EXTENDS Sequences

CONSTANT None

ExtraPaths == <<"FILESEXTRAPATHS", ":prepend", None>>
SrcUri == <<"SRC_URI", "", None>>
Uri(f, p) == [file |-> f, par |-> p]
L(name, op, val) == [name |-> name, op |-> op, val |-> val, lead |-> FALSE]
Two == {"m", "n"}

Existing == {<<>>, <<L(ExtraPaths, ":=", <<"files">>)>>, <<L(ExtraPaths, ":=", <<"elsewhere">>)>>,
             <<L(ExtraPaths, ":=", <<"files">>), L(ExtraPaths, ":=", <<"PN">>)>>,
             <<L(SrcUri, "+=", <<Uri("g", None)>>)>>}
AllStarts ==
    {[update |-> FALSE, lines |-> ls, base |-> b] : ls \in Existing, b \in {<<Uri("f", None)>>, <<Uri("h", None)>>}}
    \cup {[update |-> TRUE, lines |-> <<L(SrcUri, "=", b)>>, base |-> <<>>] :
             b \in {<<Uri("f", None), Uri("g", None)>>, <<Uri("h", None)>>}}

Src(f, c, p, l, i) == [file |-> f, content |-> c, par |-> p, listed |-> l, install |-> i]
Sources == {<<>>, <<Src("f", "1", None, FALSE, None)>>, <<Src("f", "2", "p", FALSE, "bin")>>,
            <<Src("h", "1", None, TRUE, "bin")>>,
            <<Src("f", "1", None, FALSE, "bin"), Src("g", "1", "p", FALSE, "bin")>>}
AllCalls == {[srcs |-> s, machine |-> m, remove |-> {}] : s \in Sources, m \in {None} \cup Two}
            \cup {[srcs |-> s, machine |-> None, remove |-> {Uri("g", None)}] :
                     s \in {<<>>, <<Src("f", "2", "p", FALSE, None)>>}}
=============================================================================
