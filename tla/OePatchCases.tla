---------------------------- MODULE OePatchCases ----------------------------
(***************************************************************************)
(* Three patches of every mix of kinds, among URLs that are no patches or  *)
(* are limited to other versions; the task is started up to three times.   *)
(***************************************************************************)
EXTENDS Naturals

CONSTANT None

Url(n, k) == [name |-> n, kind |-> k, ext |-> TRUE, dir |-> FALSE, apply |-> None, subpath |-> FALSE,
              mindate |-> None, maxdate |-> None, minrev |-> None, maxrev |-> None,
              rev |-> None, notrev |-> None, minver |-> None, maxver |-> None]
Source == [Url("x", "broken") EXCEPT !.ext = FALSE]
Skipped == {Source, [Url("x", "broken") EXCEPT !.apply = "no"],
            [Url("x", "broken") EXCEPT !.apply = "yes", !.dir = TRUE],
            [Url("x", "broken") EXCEPT !.maxver = 1], [Url("x", "broken") EXCEPT !.minrev = 8],
            [Url("x", "broken") EXCEPT !.rev = "v1"], [Url("x", "broken") EXCEPT !.notrev = "v2"],
            [Url("x", "broken") EXCEPT !.mindate = 9]}
Kinds == {"clean", "plain", "fuzzy", "broken"}
PatchUrls ==
    {<<Url("a", k), Source, Url("b", l), Url("c", m)>> : k \in Kinds, l \in Kinds, m \in {"clean", "plain", "fuzzy"}}
    \cup {<<Url("a", "clean"), x, Url("b", "plain"), Url("c", "clean")>> : x \in Skipped}
    \cup {<<[Source EXCEPT !.subpath = TRUE], Url("a", k), [Url("b", l) EXCEPT !.rev = "v2"]>> : k, l \in Kinds}
Now == [date |-> 5, rev |-> 5, within |-> {"v2"}, ver |-> 2]
AllTools == {"patch", "git", "quilt"}
AllResolvers == {"noop", "user"}
=============================================================================
