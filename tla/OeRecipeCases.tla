--------------------------- MODULE OeRecipeCases ----------------------------
(***************************************************************************)
(* Recipes with every mix of one line for SRC_URI in the include file and  *)
(* up to two in the recipe file, among comments and other variables.       *)
(***************************************************************************)
EXTENDS Sequences

CONSTANT None

Line(v, op, val) == [name |-> <<v, "", None>>, op |-> op, val |-> val]
Key(v, kw, ov, val) == [name |-> <<v, kw, ov>>, op |-> "=", val |-> val]
Note(c) == [name |-> <<"#", "", None>>, op |-> "", val |-> <<c>>]

Order == <<"SUMMARY", "LICENSE", "PV", "SRC_URI", "S">>
All == <<"X">> \o Order
Meta == <<"SUMMARY">>
Lists == {"SRC_URI"}

Classes == {<<>>, <<Line("SRC_URI", "=", <<"a">>), Line("S", "?=", <<"s0">>)>>}
Incs == {<<>>, <<Note("i")>> \o <<Line("SUMMARY", "=", <<"old">>), Line("SRC_URI", "=", <<"a", "b">>)>>}
BbLines == {<<>>, <<Line("SRC_URI", "+=", <<"b">>)>>, <<Line("SRC_URI", "=", <<"b">>)>>,
            <<Line("SRC_URI", "?=", <<"d">>)>>,
            <<Key("SRC_URI", ":append", None, <<"c">>)>>, <<Key("SRC_URI", ":append", "m", <<"c">>)>>,
            <<Key("SRC_URI", ":append", "other", <<"c">>)>>,
            <<Line("SRC_URI", "=", <<"a">>), Line("SRC_URI", "=+", <<"b">>)>>}
Tails == {<<>>, <<Line("PV", "=", <<"1">>), Note("p"), Line("S", "=", <<"s1">>)>>,
          <<Line("S", "=", <<"s2">>), Line("LICENSE", "=", <<"l">>), Line("S", "+=", <<"s3">>)>>}
AllRecipes == {[class |-> c, inc |-> i, bb |-> <<Note("h")>> \o t \o b] :
                   c \in Classes, i \in Incs, b \in BbLines, t \in Tails}
               \cup {[class |-> <<>>, inc |-> i, bb |-> b \o t] : i \in Incs, b \in BbLines, t \in Tails}

\* Include files that set SRC_URI, recipe files that add to it.
IncRecipes == {[class |-> <<>>, inc |-> <<Line("SRC_URI", "=", i)>>, bb |-> <<Line("SRC_URI", "+=", <<"b">>)>>] :
                   i \in {<<"a">>, <<"a", "c">>}}

OneMore == [{"SRC_URI"} -> {<<"a", "b", "c">>}]

AllRequests == [{"SRC_URI"} -> {<<"a", "b">>, <<"a", "b", "c">>, <<"d">>}]
               \cup [{"S", "X"} -> {<<"s2">>, <<"z">>}]
               \cup [{"LICENSE", "SUMMARY"} -> {<<"l">>}] \cup [{"SUMMARY", "X"} -> {<<"z">>}] 
               \cup [{"PV"} -> {<<"1">>, <<"2">>}]
Machine == {"m"}
=============================================================================
