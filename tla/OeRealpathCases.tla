-------------------------- MODULE OeRealpathCases ---------------------------
(***************************************************************************)
(* Trees of a directory a and entries b, a/b and a/c of every kind: links  *)
(* to each other, to themselves, in loops, up, out of the root and to what *)
(* is missing.                                                             *)
(***************************************************************************)
EXTENDS Naturals, Sequences, TLC

CONSTANT None

Of(kind) == [kind |-> kind, abs |-> FALSE, target |-> <<>>]
To(abs, names) == [kind |-> "link", abs |-> abs, target |-> names]

AtB == {None, Of("dir"), To(FALSE, <<"a">>), To(TRUE, <<"a", "c">>), To(FALSE, <<".">>)}
AtAB == {None, Of("file"), To(FALSE, <<"..", "b">>), To(FALSE, <<"..", "..", "a", "c">>),
                   To(FALSE, <<"c", "..", "c">>)}
AtAC == {None, To(FALSE, <<"b">>), To(FALSE, <<"..">>)}

Tree(b, ab, ac) ==
    LET all == (<<"a">> :> Of("dir") @@ <<"b">> :> b @@ <<"a", "b">> :> ab @@ <<"a", "c">> :> ac)
    IN  [p \in {q \in DOMAIN all : all[q] # None} |-> all[p]]

AllTrees == {Tree(b, ab, ac) : b \in AtB, ab \in AtAB, ac \in AtAC}
AllFiles == {<<"a", "b">>, <<"b", "b">>, <<"a", "c", "b">>, <<"..", "x">>, <<"a", ".", "c", "..", "b">>}
AllUpdates == <<"b">> :> {None, To(FALSE, <<"a">>)}
              @@ <<"a", "b">> :> {None, To(FALSE, <<"..", "b">>)}
=============================================================================
