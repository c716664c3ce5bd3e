--------------------------- MODULE OeOuthashCases ---------------------------
(***************************************************************************)
(* A small output tree and one with a change of every kind, walked on two  *)
(* hosts.                                                                  *)
(***************************************************************************)
EXTENDS Naturals, Sequences

CONSTANTS Path, None

E(type, perm, owner, mtime, data, link, host) ==
    [type |-> type, perm |-> perm, owner |-> owner, mtime |-> mtime, data |-> data, link |-> link, host |-> host]
File(data) == E("file", {"ur", "uw", "gr"}, "root", 5, data, None, FALSE)
DirE == E("dir", {"ur", "ux"}, "root", 5, <<>>, None, FALSE)
Link(to, host) == E("link", {"ur"}, "root", 5, <<>>, to, host)

Tree == [p \in {<<>>, <<"a">>, <<"b">>, <<"b", "a">>, <<"b", "c">>, <<"c">>, <<"d">>} |->
            IF p \in {<<>>, <<"b">>} THEN DirE ELSE IF p = <<"c">> THEN Link("b", TRUE)
            ELSE IF p = <<"b", "a">> THEN File(<<"x", Path>>)
            ELSE IF p = <<"d">> THEN Link("/usr/x", FALSE) ELSE File(<<"x">>)]
Changed ==
    {Tree} \cup {[Tree EXCEPT ![<<"b", "a">>] = e] :
        e \in {File(<<"x", "y">>), File(<<"x">>), [Tree[<<"b", "a">>] EXCEPT !.perm = {"ur", "ux"}],
               [Tree[<<"b", "a">>] EXCEPT !.perm = {"ur", "uw", "gw", "ot", "ox"}], [Tree[<<"b", "a">>] EXCEPT !.owner = "me"],
               [Tree[<<"b", "a">>] EXCEPT !.mtime = 3], [Tree[<<"b", "a">>] EXCEPT !.mtime = 9],
               [File(<<8, 1>>) EXCEPT !.type = "block"], DirE, Link("x", FALSE)}}
    \cup {[Tree EXCEPT ![<<"c">>] = Link("a", FALSE)], [Tree EXCEPT ![<<"d">>] = Link("/usr/x", TRUE)],
          [p \in DOMAIN Tree \ {<<"a">>} |-> Tree[p]],
          [p \in DOMAIN Tree \cup {<<"fixmepath">>} |-> IF p \in DOMAIN Tree THEN Tree[p] ELSE File(<<Path>>)]}
AllPairs == {<<x, y>> : x \in Changed, y \in Changed}
AllOptions ==
    {[task |-> "package", owners |-> TRUE, stamps |-> TRUE, root |-> FALSE, filter |-> {}],
     [task |-> "populate_sysroot", owners |-> FALSE, stamps |-> FALSE, root |-> TRUE, filter |-> {"a"}],
     [task |-> "package_write_rpm", owners |-> FALSE, stamps |-> FALSE, root |-> TRUE, filter |-> {}]}
Order == <<"a", "b", "c", "d", "fixmepath">>
=============================================================================
