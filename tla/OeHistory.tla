------------------------------ MODULE OeHistory ------------------------------
(***************************************************************************)
(* The report on a build history (lib/oe/buildhistory_analysis.py): what   *)
(* process_changes tells of the difference between an earlier revision of  *)
(* the history and its head, and what of it a ChangeRecord shows.          *)
(*                                                                         *)
(* A path is a sequence of tokens: "/", digits, and words without either.  *)
(***************************************************************************)
EXTENDS Naturals, Integers, FiniteSets, SequencesExt

CONSTANTS
  NotThere,     \* a file that the revision does not have, a report not made
  Digits,       \* the digit tokens
  PathOrder,    \* the paths of an image, in the order the build lists them
  FileLists,    \* the file lists an image can have: path -> attributes
  Packages,     \* names of packages: sequences of words
  Fields,       \* the contents `latest` can have
  Scripts,      \* the texts a maintainer script can have
  Bases,        \* the revisions the report starts from
  MaxBuilds     \* bound: builds committed since the revision compared with

VARIABLES
  revision1,  \* the revision compared with
  revision2,  \* HEAD
  builds,     \* builds committed since revision1
  reportAll,  \* report_all of the report
  told        \* the report: a set of change records, or NotThere

historyVars == <<revision1, revision2, builds, reportAll, told>>

\* What a revision holds: the file list of an image, and of each package what
\* `latest` says and its script.
Revisions ==
  [image : FileLists, latest : [Packages -> Fields \cup {NotThere}],
   script : [Packages -> Scripts \cup {NotThere}]]

ASSUME HistoryAssumption ==
  /\ PathOrder \in Seq(Seq(STRING)) /\ "X" \notin Digits
  /\ \A t \in FileLists : DOMAIN t \subseteq {PathOrder[i] : i \in DOMAIN PathOrder}
  /\ \A f \in Fields : IsFiniteSet(f.files)
  /\ Bases \subseteq Revisions

-----------------------------------------------------------------------------
(* Lists of files.                                                         *)

StartsWith(p, q) == Len(q) <= Len(p) /\ SubSeq(p, 1, Len(q)) = q

Translate(p) == [i \in DOMAIN p |-> IF p[i] \in Digits THEN "X" ELSE p[i]]

\* The components of p up to the first in which p and q differ; both have the
\* same text but for digits.
CommonDir(p, q) ==
  LET diff == CHOOSE i \in DOMAIN p : p[i] # q[i] /\ \A j \in 1..(i - 1) : p[j] = q[j]
      ends == {i \in diff..Len(p) : i = Len(p) \/ p[i + 1] = "/"}
  IN  SubSeq(p, 1, CHOOSE i \in ends : \A j \in ends : i <= j)

\* addition2.replace(commondir, commondir2): no path holds commondir twice.
Renamed(p, to, from) == from \o SubSeq(p, Len(to) + 1, Len(p))

\* The changes of a path both lists have.
AttrChanges(p, x, y, own) ==
  {c \in {"type", "perms", "owner", "link"} :
     \/ c = "type" /\ x.type # y.type
     \/ c = "perms" /\ x.mode # y.mode
     \/ c = "owner" /\ own /\ x.owner # y.owner
     \/ c = "link" /\ y.type = "l" /\ x.target # y.target}

\* Mutant: whatever begins like the directory goes with it.
FollowersOf_Any(s, to, from) == {p \in s.adds : StartsWith(p, to)}

\* The additions that go with a renamed directory, and what they were called.
FollowersOf(s, to, from) ==
  {p \in s.adds : StartsWith(p, to) /\ Renamed(p, to, from) \in s.rems}

\* One turn of the loop over the additions, which passes over a path that is none,
\* or none any longer; `gone` are the removals the loop began with, `left` the
\* additions it began with (bdict), and `a` is the old list.
PairUp(s, p, gone, left, a) ==
  LET alike == {r \in gone : Translate(r) = Translate(p)}
  IN  IF p \notin s.adds \/ Cardinality(alike) # 1 THEN s
      ELSE LET r    == CHOOSE x \in alike : TRUE
               to   == CommonDir(p, r)
               from == CommonDir(r, p)
               with == FollowersOf(s, to, from)
           IN  IF from \notin left /\ to \notin DOMAIN a /\ to \notin {m[2] : m \in s.renames}
               THEN [s EXCEPT !.renames = @ \cup {<<from, to>>},
                              !.adds = @ \ with,
                              !.rems = @ \ {Renamed(q, to, from) : q \in with}]
               ELSE [s EXCEPT !.moves = @ \cup {<<r, p>>},
                              !.adds = @ \ {p},
                              !.rems = @ \ {r}]

\* The loop, over all paths.
PairAll(gone, left, a) ==
  LET turn[i \in 0..Len(PathOrder)] ==
        IF i = 0 THEN [adds |-> left, rems |-> gone, renames |-> {}, moves |-> {}]
        ELSE PairUp(turn[i - 1], PathOrder[i], gone, left, a)
  IN  turn[Len(PathOrder)]

CompareFileLists(a, b, own) ==
  LET end == PairAll(DOMAIN a \ DOMAIN b, DOMAIN b \ DOMAIN a, a)
  IN  (UNION {{[change |-> c, path |-> p, to |-> p] : c \in AttrChanges(p, a[p], b[p], own)} :
                 p \in DOMAIN a \cap DOMAIN b})
      \cup {[change |-> "move", path |-> m[1], to |-> m[2]] : m \in end.renames \cup end.moves}
      \cup {[change |-> "add", path |-> p, to |-> p] : p \in end.adds}
      \cup {[change |-> "remove", path |-> p, to |-> p] : p \in end.rems}

-----------------------------------------------------------------------------
(* The fields of a package: its size, its revision, its dependencies with  *)
(* the versions they ask for, its files.                                   *)

\* Strips the dependencies whose demand only grew: x and y map a name to
\* [op, ver].
ComparePkgLists(x, y) ==
  LET strip == {k \in DOMAIN x \cap DOMAIN y :
                  \/ x[k] = y[k]
                  \/ x[k].op = y[k].op /\ x[k].op \in {">=", "="} /\ x[k].ver <= y[k].ver}
      strips == {k \in strip : x[k].op # "" /\ y[k].op # ""}
  IN  [a |-> [k \in DOMAIN x \ strips |-> x[k]], b |-> [k \in DOMAIN y \ strips |-> y[k]]]

\* The revision as a number, padded with zeros to n digits.
Padded(ds, n) ==
  LET val[i \in 0..n] == IF i = 0 THEN 0
                         ELSE 10 * val[i - 1] + (IF i <= Len(ds) THEN ds[i] ELSE 0)
  IN  val[n]

AbsDiff(x, y) == IF x > y THEN x - y ELSE y - x

\* The fields compare_dict_blobs passes over although they differ.
PassedOver(k, pkg, x, y) ==
  CASE k = "PKGSIZE" -> x.size # 0 /\ 100 * AbsDiff(x.size, y.size) < 10 * x.size
    [] k = "RDEPENDS" ->
         LET d == ComparePkgLists(x.deps, y.deps)
         IN  \/ d.a = d.b
             \/ /\ pkg \in DOMAIN x.deps \ DOMAIN y.deps
                /\ x.deps[pkg].op = ""
                /\ [n \in DOMAIN x.deps \ {pkg} |-> x.deps[n]] = y.deps
    [] k = "FILELIST" -> Last(pkg) \in {"dbg", "src"} /\ y.files # {}
    [] k = "PKGR" ->
         LET n == IF Len(x.rev) > Len(y.rev) THEN Len(x.rev) ELSE Len(y.rev)
         IN  AbsDiff(Padded(x.rev, n), Padded(y.rev, n)) = 1
    [] OTHER -> FALSE

Differs(k, x, y) ==
  \/ k = "PKGSIZE" /\ x.size # y.size
  \/ k = "RDEPENDS" /\ x.deps # y.deps
  \/ k = "PKGR" /\ x.rev # y.rev
  \/ k = "FILELIST" /\ x.files # y.files

CompareDictBlobs(pkg, x, y, rall) ==
  {[what |-> "field", path |-> pkg, field |-> k, old |-> x, new |-> y, files |-> {}] :
     k \in {f \in {"PKGSIZE", "RDEPENDS", "PKGR", "FILELIST"} :
              Differs(f, x, y) /\ (rall \/ ~PassedOver(f, pkg, x, y))}}

\* The directories detect_renamed_dirs pairs: <<dir, name>> are the items.
DirsOf(items) == {f[1] : f \in items}

NamesIn(items, d) == {f[2] : f \in {g \in items : g[1] = d}}

RenamedDirs(x, y) ==
  LET ab == DirsOf(x) \ DirsOf(y)
      ba == DirsOf(y) \ DirsOf(x)
      order == SetToSeq(ab)
      pairs[i \in 0..Len(order)] ==
        IF i = 0 THEN {}
        ELSE LET free == {d \in ba : /\ d \notin {m[2] : m \in pairs[i - 1]}
                                     /\ NamesIn(x, order[i]) = NamesIn(y, d)}
             IN  pairs[i - 1] \cup (IF free = {} THEN {}
                                    ELSE {<<order[i], CHOOSE d \in free : TRUE>>})
  IN  pairs[Len(order)]

\* The items the record of a FILELIST shows as removed and as added.
ShownItems(x, y) ==
  LET dirs == UNION {{m[1], m[2]} : m \in RenamedDirs(x, y)}
      a    == {f \in x : f[1] \notin dirs}
      b    == {f \in y : f[1] \notin dirs}
  IN  [renamed |-> RenamedDirs(x, y), removed |-> a \ b, added |-> b \ a]

\* A record that shows nothing prints nothing (_str_internal): a FILELIST of
\* which directories were renamed and nothing else.
Printed(c) ==
  CASE c.what = "field" /\ c.field = "FILELIST" ->
         LET s == ShownItems(c.old.files, c.new.files) IN s.removed # {} \/ s.added # {}
    [] c.what = "field" /\ c.field = "RDEPENDS" ->
         LET d == ComparePkgLists(c.old.deps, c.new.deps) IN d.a # d.b
    [] c.what = "image" -> c.files # {}
    [] OTHER -> TRUE

-----------------------------------------------------------------------------
(* The revisions.                                                          *)

\* The scripts told: one the head changed; one it has anew, unless a package
\* whose path begins that path is new; one it no longer has.
ScriptChanges(x, y) ==
  LET new == {p \in Packages : x.latest[p] = NotThere /\ y.latest[p] # NotThere}
      rec(p) == [what |-> "script", path |-> p, field |-> "pkg_postinst",
                 old |-> x.script[p], new |-> y.script[p], files |-> {}]
  IN  {rec(p) : p \in {q \in Packages :
         /\ x.script[q] # y.script[q]
         /\ x.script[q] = NotThere => \A n \in new : ~StartsWith(q, n)}}

ProcessChanges(x, y, rall) ==
  LET files == CompareFileLists(x.image, y.image, TRUE)
  IN  (UNION {CompareDictBlobs(p, x.latest[p], y.latest[p], rall) :
                p \in {q \in Packages : NotThere \notin {x.latest[q], y.latest[q]}}})
      \cup ScriptChanges(x, y)
      \cup (IF files = {} THEN {}
            ELSE {[what |-> "image", path |-> <<>>, field |-> "files-in-image.txt",
                   old |-> NotThere, new |-> NotThere, files |-> files]})

\* Every record of these fields is monitored: a version is, whatever
\* report_ver, once either revision has one.
Report(x, y, rall) == {c \in ProcessChanges(x, y, rall) : Printed(c)}

-----------------------------------------------------------------------------

HistoryInit ==
  /\ revision1 \in Bases
  /\ revision2 = revision1
  /\ builds = 0
  /\ reportAll = FALSE
  /\ told = NotThere

Commit(rev) ==
  /\ builds < MaxBuilds
  /\ revision2' = rev
  /\ builds' = builds + 1
  /\ told' = NotThere
  /\ UNCHANGED <<revision1, reportAll>>

\* A build commits the new list of an image, or a package it built anew or
\* no longer builds.
BuildImage == \E t \in FileLists : Commit([revision2 EXCEPT !.image = t])

BuildPackage ==
  \E p \in Packages, f \in Fields, t \in Scripts \cup {NotThere} :
    Commit([revision2 EXCEPT !.latest[p] = f, !.script[p] = t])

DropPackage ==
  \E p \in Packages :
    /\ revision2.latest[p] # NotThere
    /\ Commit([revision2 EXCEPT !.latest[p] = NotThere, !.script[p] = NotThere])

\* buildhistory-diff
Diff ==
  /\ told = NotThere
  /\ \E rall \in BOOLEAN :
       /\ reportAll' = rall
       /\ told' = Report(revision1, revision2, rall)
  /\ UNCHANGED <<revision1, revision2, builds>>

HistoryNext == BuildImage \/ BuildPackage \/ DropPackage \/ Diff

HistorySpec == HistoryInit /\ [][HistoryNext]_historyVars

-----------------------------------------------------------------------------
\* Every file that came or went is named by the report, by itself or by a
\* move that maps it to a file that went or came; and the report names no
\* addition or removal that is none.
FilesTold ==
  LET F    == UNION {c.files : c \in told}
      a    == DOMAIN revision1.image
      b    == DOMAIN revision2.image
      came == b \ a
      went == a \ b
  IN  /\ \A p \in came : \E c \in F :
            \/ c.change = "add" /\ c.path = p
            \/ c.change = "move" /\ StartsWith(p, c.to) /\ Renamed(p, c.to, c.path) \in went
      /\ \A p \in went : \E c \in F :
            \/ c.change = "remove" /\ c.path = p
            \/ c.change = "move" /\ StartsWith(p, c.path) /\ Renamed(p, c.path, c.to) \in came
      /\ \A c \in F : /\ c.change = "add" => c.path \in came
                      /\ c.change = "remove" => c.path \in went
                      /\ c.change = "move" => \E p \in came : StartsWith(p, c.to)

\* A dependency on another package that came or went is told.
DepsTold ==
  \A p \in Packages :
    LET x == revision1.latest[p]
        y == revision2.latest[p]
    IN  NotThere \notin {x, y} =>
          \A n \in (DOMAIN x.deps \cup DOMAIN y.deps) \ (DOMAIN x.deps \cap DOMAIN y.deps) :
            n # p => \E c \in told : c.what = "field" /\ c.field = "RDEPENDS" /\ c.path = p

\* An item that came to a directory both revisions of a package have, or went
\* from one, is shown, but for the debug and source packages; whatever other
\* directories were renamed.
ItemsTold ==
  \A p \in Packages :
    LET x == revision1.latest[p]
        y == revision2.latest[p]
    IN  NotThere \notin {x, y} =>
          \A f \in (x.files \ y.files) \cup (y.files \ x.files) :
            (f[1] \in DirsOf(x.files) \cap DirsOf(y.files) /\ Last(p) \notin {"dbg", "src"}) =>
              \E c \in told :
                /\ c.what = "field" /\ c.field = "FILELIST" /\ c.path = p
                /\ LET s == ShownItems(c.old.files, c.new.files)
                   IN  f \in s.removed \cup s.added

\* What the report is read for: whatever of the files of an image, of the
\* dependencies and the files of a package came or went can be found in it.
HistoryTold == told # NotThere => FilesTold /\ DepsTold /\ ItemsTold

=============================================================================
