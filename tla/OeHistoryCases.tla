--------------------------- MODULE OeHistoryCases ---------------------------
(***************************************************************************)
(* Two packages, one named like the start of the other, and images with a  *)
(* directory and files named by their version.                             *)
(***************************************************************************)
EXTENDS Naturals, Sequences, FiniteSets

CONSTANT None

Folder(n) == <<"/", "d", n>>
AllPaths == <<Folder("1"), Folder("1") \o <<".", "3">>, Folder("1") \o <<"/", "b">>,
              Folder("2"), Folder("2") \o <<".", "3">>, Folder("2") \o <<"/", "b">>, Folder("3")>>
Plain == [type |-> "-", mode |-> 1, owner |-> "root", target |-> None]
List(paths) == [p \in paths |-> Plain]
InDir(paths) == \A p \in paths : Len(p) > 4 => SubSeq(p, 1, 3) \in paths \/ p[4] = "."
AllTrees ==
  {List(s) : s \in {t \in SUBSET {AllPaths[i] : i \in DOMAIN AllPaths} : InDir(t)}}
  \cup {[List({Folder("1")}) EXCEPT ![Folder("1")] = x] :
          x \in {[Plain EXCEPT !.type = "l", !.target = "t"], [Plain EXCEPT !.mode = 2, !.owner = "me"]}}

NoDeps == [n \in {} |-> 0]
V(op, ver) == [op |-> op, ver |-> ver]
AllPackages == {<<"f">>, <<"f", "dbg">>}
F(size, rev, deps, files) == [size |-> size, rev |-> rev, deps |-> deps, files |-> files]
Item(d, n) == <<d, n>>
AllFields ==
  {F(s, <<1>>, NoDeps, {}) : s \in {0, 100, 105, 120}}
  \cup {F(100, r, NoDeps, {}) : r \in {<<2>>, <<1, 0>>}}
  \cup {F(100, <<1>>, d, {}) :
           d \in {[n \in {<<"f">>} |-> V("", 0)], [n \in {<<"g">>} |-> V(">=", 1)],
                  [n \in {<<"g">>} |-> V(">=", 2)], [n \in {<<"g">>, <<"f">>} |-> V("", 0)],
                  [n \in {<<"g">>} |-> V("", 0)]}}
  \cup {F(100, <<1>>, NoDeps, i) :
           i \in {{Item("p", 1)}, {Item("q", 1)}, {Item("p", 1), Item("r", 1)}, {Item("q", 1), Item("r", 2)},
                  {Item("q", 1), Item("r", 1)}, {Item("p", 1), Item("s", 1)}}}
Rev(t, l) == [image |-> t, latest |-> l, script |-> [p \in AllPackages |-> None]]
AllBases ==
  {Rev(t, [p \in AllPackages |-> None]) : t \in AllTrees}
  \cup {Rev(List({}), [p \in AllPackages |-> IF p = q THEN f ELSE None]) : f \in AllFields, q \in AllPackages}
=============================================================================
