------------------------------ MODULE OePerms -------------------------------
(***************************************************************************)
(* fixup_perms of lib/oe/package.py: what a package is about to ship is    *)
(* brought into the shape that the fs-perms tables ask for.  Directories   *)
(* that should be links are moved to the link's target, and then modes and *)
(* owners are set, for single directories or for all below them.           *)
(*                                                                         *)
(* PKGD maps the paths that exist, sequences of names, to their entries;   *)
(* id is where the entry was at first.  A link with an absolute target is  *)
(* followed on the build host, which has the directories HostDirs.  cpath, *)
(* the cache of stat results, is left out: no path is asked for twice.     *)
(***************************************************************************)
EXTENDS Naturals, Sequences, FiniteSets, SequencesExt

CONSTANTS
    Packages,   \* what PKGD may hold
    Defaults,   \* the standard directories of bitbake.conf
    Tables,     \* the lines of the fs-perms tables
    TextOrder,  \* the targets of the links as texts, sorted
    HostDirs,
    None

VARIABLES
    package, lines,   \* the input
    pc,
    pkgd,
    read,             \* how many lines have been read
    perms, links,     \* fs_perms_table and fs_link_table, in order of insertion
    escaped           \* something outside PKGD has been changed

vars == <<package, lines, pc, pkgd, read, perms, links, escaped>>

Root == <<>>
Up == ".."
Hops == 4

\* An absolute link leads to the host; a name that is not there, nowhere.
Nowhere == [where |-> "nowhere", path |-> Root]
InPkgd(p) == [where |-> "pkgd", path |-> p]
OnHost(p) == IF p \in HostDirs THEN [where |-> "host", path |-> p] ELSE Nowhere

Kind(p) == IF p = Root THEN "dir" ELSE IF p \in DOMAIN pkgd THEN pkgd[p].kind ELSE None

\* stat: inImage as on the device, where PKGD is the root, or on the build host.
Follow(inImage) ==
    LET F[n \in 0..Hops, dir \in Seq(STRING), names \in Seq(STRING)] ==
            IF names = <<>> THEN InPkgd(dir)
            ELSE IF Head(names) = Up
            THEN IF dir = Root THEN Nowhere ELSE F[n, Front(dir), Tail(names)]
            ELSE LET p == Append(dir, Head(names)) IN
                 CASE Kind(p) = None -> Nowhere
                   [] Kind(p) = "file" -> IF Len(names) = 1 THEN InPkgd(p) ELSE Nowhere
                   [] Kind(p) = "dir" -> F[n, p, Tail(names)]
                   [] Kind(p) = "link" ->
                         IF n = 0 THEN Nowhere
                         ELSE IF ~pkgd[p].abs THEN F[n - 1, dir, pkgd[p].target \o Tail(names)]
                         ELSE IF inImage THEN F[n - 1, Root, pkgd[p].target \o Tail(names)]
                         ELSE OnHost(pkgd[p].target \o Tail(names))
    IN  F

Stat(names) == Follow(FALSE)[Hops, Root, names]
InImage(names) == Follow(TRUE)[Hops, Root, names]

IsDir(r) == r.where = "host" \/ (r.where = "pkgd" /\ Kind(r.path) = "dir")

\* lstat: where the last name itself is, or would be.
Lstat(names) ==
    LET dir == Stat(Front(names))
    IN  IF IsDir(dir) THEN [dir EXCEPT !.path = Append(@, Last(names))] ELSE Nowhere

-----------------------------------------------------------------------------
(* Reading the tables.                                                      *)

DefaultLine(dir) == [kind |-> "dir", path |-> dir, mode |-> "0755", owner |-> "root",
                     walk |-> FALSE, fmode |-> None, fowner |-> None]
AllLines == [i \in 1..Len(Defaults) |-> DefaultLine(Defaults[i])] \o lines

\* A Python dict keeps the place of a key that is assigned again.
Put(dict, e) ==
    IF \E i \in DOMAIN dict : dict[i].path = e.path
    THEN [i \in DOMAIN dict |-> IF dict[i].path = e.path THEN e ELSE dict[i]]
    ELSE Append(dict, e)

Pop(dict, e) == SelectSeq(dict, LAMBDA x : x.path # e.path)

Init ==
    /\ package \in Packages /\ lines \in Tables
    /\ pc = "read" /\ read = 0
    /\ pkgd = [p \in DOMAIN package |->
                  [kind |-> package[p].kind, mode |-> package[p].mode, owner |-> package[p].owner,
                   abs |-> package[p].abs, target |-> package[p].target, id |-> p]]
    /\ perms = <<>> /\ links = <<>> /\ escaped = FALSE

\* A line that is neither a directory nor a link is reported and left out.
ReadLine ==
    /\ pc = "read" /\ read < Len(AllLines)
    /\ LET e == AllLines[read + 1]
       IN  /\ perms' = CASE e.kind = "dir" -> Put(perms, e)
                         [] e.kind = "link" -> Pop(perms, e)
                         [] e.kind = "bad" -> perms
           /\ links' = CASE e.kind = "link" -> Put(links, e)
                         [] e.kind = "dir" -> Pop(links, e)
                         [] e.kind = "bad" -> links
    /\ read' = read + 1
    /\ UNCHANGED <<package, lines, pc, pkgd, escaped>>

Text(e) == [abs |-> e.abs, target |-> e.target]
Place(e) == CHOOSE i \in DOMAIN TextOrder : TextOrder[i] = Text(e)

\* Mutant: the links are made in the order of the tables.
Sorted_AsRead(dict) == dict

\* sorted(..., key=lambda x: x.link), which is stable.
Sorted(dict) ==
    FoldLeft(LAMBDA done, i : done \o SelectSeq(dict, LAMBDA e : Place(e) = i),
             <<>>, [i \in DOMAIN TextOrder |-> i])

FinishRead ==
    /\ pc = "read" /\ read = Len(AllLines)
    /\ links' = Sorted(links)
    /\ pc' = "links"
    /\ UNCHANGED <<package, lines, pkgd, read, perms, escaped>>

-----------------------------------------------------------------------------
(* Directories that should be links.                                        *)

Target(e) == IF e.abs THEN e.target ELSE Front(e.path) \o e.target

IsRealDir(names) == Lstat(names).where = "pkgd" /\ Kind(Lstat(names).path) = "dir"

\* mkdirhier of the directory the target is in: the part of it that is there,
\* the names that are missing, and whether one of them is a link or file.
Missing(names) == CHOOSE k \in 0..Len(names) :
                     /\ \A i \in 1..k : IsDir(Stat(SubSeq(names, 1, i)))
                     /\ k < Len(names) => ~IsDir(Stat(SubSeq(names, 1, k + 1)))
There(names) == Stat(SubSeq(names, 1, Missing(names)))
Names(names) == SubSeq(names, Missing(names) + 1, Len(names))
Blocked(names) == Names(names) # <<>> /\ Lstat(SubSeq(names, 1, Missing(names) + 1)).where = "pkgd"
                  /\ Kind(Lstat(SubSeq(names, 1, Missing(names) + 1)).path) # None

NewDir == [kind |-> "dir", mode |-> "new", owner |-> "new", abs |-> FALSE, target |-> <<>>, id |-> None]
NewLink(e) == [kind |-> "link", mode |-> "new", owner |-> "new", abs |-> e.abs, target |-> e.target,
               id |-> None]

Below(p, q) == IsStrictPrefix(p, q)
Swap(p, from, to) == to \o SubSeq(p, Len(from) + 1, Len(p))

\* rename of the directory "from" to "to", or out of PKGD, and a link in its place.
Moved(from, to, made, e) ==
    LET stay == {p \in DOMAIN pkgd : ~IsPrefix(from, p)}
        gone == DOMAIN pkgd \ stay
        come == IF to = None THEN {} ELSE {Swap(p, from, to) : p \in gone}
    IN  [p \in stay \cup made \cup come \cup {from} |->
            IF p = from THEN NewLink(e)
            ELSE IF p \in come THEN pkgd[Swap(p, to, from)]
            ELSE IF p \in stay THEN pkgd[p] ELSE NewDir]

FixLink ==
    /\ pc = "links" /\ links # <<>>
    /\ LET e    == Head(links)
           from == Lstat(e.path).path
           dir  == Front(Target(e))
           base == There(dir)
           to   == Append(base.path \o Names(dir), Last(Target(e)))
           made == {base.path \o SubSeq(Names(dir), 1, k) : k \in 1..Len(Names(dir))}
           skip == ~IsRealDir(e.path) \/ Stat(Target(e)) # Nowhere
           fail == \/ Blocked(dir)
                   \/ base.where = "pkgd" /\ (IsPrefix(from, to) \/ Kind(to) # None)
       IN  \/ /\ skip
              /\ links' = Tail(links) /\ UNCHANGED <<pc, pkgd, escaped>>
           \/ /\ ~skip /\ fail
              /\ pc' = "error" /\ UNCHANGED <<links, pkgd, escaped>>
           \/ /\ ~skip /\ ~fail
              /\ links' = Tail(links) /\ UNCHANGED pc
              /\ IF base.where = "pkgd"
                 THEN pkgd' = Moved(from, to, made, e) /\ escaped' = escaped
                 ELSE pkgd' = Moved(from, None, {}, e) /\ escaped' = TRUE
    /\ UNCHANGED <<package, lines, read, perms>>

FinishLinks ==
    /\ pc = "links" /\ links = <<>>
    /\ pc' = "perms"
    /\ UNCHANGED <<package, lines, pkgd, read, perms, links, escaped>>

-----------------------------------------------------------------------------
(* Modes and owners.                                                        *)

Or(new, old) == IF new = None THEN old ELSE new

\* fix_perms: a link has no mode of its own.  os.walk counts a link that leads to
\* a directory among the directories.
Fixed(e, p, top, at) ==
    LET x     == pkgd[p]
        asDir == p = top \/ IsDir(Stat(p))
        mode  == IF asDir THEN e.mode ELSE e.fmode
        owner == IF asDir THEN e.owner ELSE e.fowner
    IN  IF p = top \/ (e.walk /\ Below(at, p))
        THEN [x EXCEPT !.mode = IF x.kind = "link" THEN @ ELSE Or(mode, @), !.owner = Or(owner, @)]
        ELSE x

\* The directory itself, and with walk all that os.walk finds from there: it does
\* not look whether its first directory is a link.
FixPerms ==
    /\ pc = "perms" /\ perms # <<>>
    /\ LET e   == Head(perms)
           at  == Stat(e.path)
           top == Lstat(e.path)
       IN  IF ~IsDir(at) THEN UNCHANGED <<pkgd, escaped>>
           ELSE /\ pkgd' = [p \in DOMAIN pkgd |->
                              IF top.where = "pkgd" /\ at.where = "pkgd"
                              THEN Fixed(e, p, top.path, at.path)
                              ELSE IF top.where = "pkgd" /\ p = top.path
                              THEN [pkgd[p] EXCEPT !.owner = Or(e.owner, @)]
                              ELSE pkgd[p]]
                /\ escaped' = (escaped \/ (at.where = "host" /\ (top.where = "host" \/ e.walk)))
    /\ perms' = Tail(perms)
    /\ UNCHANGED <<package, lines, pc, read, links>>

FinishPerms ==
    /\ pc = "perms" /\ perms = <<>>
    /\ pc' = "done"
    /\ UNCHANGED <<package, lines, pkgd, read, perms, links, escaped>>

Next == ReadLine \/ FinishRead \/ FixLink \/ FinishLinks \/ FixPerms \/ FinishPerms

Spec == Init /\ [][Next]_vars

-----------------------------------------------------------------------------
(* Properties.                                                              *)

Lines == DOMAIN AllLines
\* The lines that no later line on the same path takes back.
Live == {i \in Lines : AllLines[i].kind # "bad" /\
             \A j \in Lines : j > i /\ AllLines[j].kind # "bad" => AllLines[j].path # AllLines[i].path}
LiveOf(kind) == {AllLines[i] : i \in {j \in Live : AllLines[j].kind = kind}}

\* The path a link leads to, written without "..".
Goal(e) == FoldLeft(LAMBDA done, n : IF n = Up THEN Front(done) ELSE Append(done, n), <<>>, Target(e))

\* A path through a link that the package ships or the tables ask for.
Passes(p) == \E k \in 1..Len(p) :
                \/ SubSeq(p, 1, k) \in DOMAIN package /\ package[SubSeq(p, 1, k)].kind = "link"
                \/ \E e \in LiveOf("link") : e.path = SubSeq(p, 1, k)

\* A relative link that is moved with the directory it is in leads elsewhere, and
\* a target behind an absolute link is on the host.
Plain ==
    \A e \in LiveOf("link") :
        /\ ~Passes(Goal(e))
        /\ \A f \in LiveOf("link") : ~Below(e.path, f.path)

\* A program finds every file where its package installed it.
FilesStay ==
    Plain => \A p \in DOMAIN package : package[p].kind = "file" =>
                    LET r == InImage(p) IN r.where = "pkgd" /\ Kind(r.path) = "file" /\ pkgd[r.path].id = p

\* "Process in sorted order so /run gets created before /run/lock": a directory
\* becomes a link unless its target was there or is what another line made.
LinksMade ==
    \A e \in LiveOf("link") :
        /\ e.path \in DOMAIN package /\ package[e.path].kind = "dir"
        /\ Plain
        /\ Goal(e) \notin DOMAIN package
        /\ \A f \in LiveOf("link") \ {e} :
              Goal(f) # Goal(e) /\ (Below(Goal(e), Goal(f)) => Place(e) < Place(f))
        => e.path \in DOMAIN pkgd /\ pkgd[e.path].kind = "link" /\ Text(pkgd[e.path]) = Text(e)

\* The lines that speak of p, and what the last of them with a mode says.
NamedOnce == \A i, j \in Lines : AllLines[i].kind # "bad" /\ AllLines[j].kind # "bad"
                                 /\ AllLines[i].path = AllLines[j].path => i = j
Simple == NamedOnce \/ \A i \in Lines : AllLines[i].kind # "dir" \/ ~AllLines[i].walk

ModeFor(i, p) ==
    LET e  == AllLines[i]
        at == Stat(e.path)
    IN  IF e.kind # "dir" \/ at.where # "pkgd" \/ ~IsDir(at) THEN None
        ELSE IF p = at.path /\ Lstat(e.path) = at THEN e.mode
        ELSE IF e.walk /\ Below(at.path, p) THEN IF Kind(p) = "dir" THEN e.mode ELSE e.fmode
        ELSE None

Before(p) == IF pkgd[p].id = None THEN "new" ELSE package[pkgd[p].id].mode

LastLineDecides ==
    Simple => \A p \in DOMAIN pkgd : pkgd[p].kind # "link" =>
        pkgd[p].mode = FoldLeft(LAMBDA m, i : IF i \in Live THEN Or(ModeFor(i, p), m) ELSE m,
                                Before(p), [i \in Lines |-> i])

\* Nothing outside the package is touched, as long as no line leads through a link.
StaysInside ==
    escaped => \E i \in Live : \/ Passes(AllLines[i].path)
                               \/ AllLines[i].kind = "link" /\ Passes(Goal(AllLines[i]))

\* When fixup_perms (package.py:310-542) is done, every file is found where it was,
\* the directories that should be links are, each mode is what the last line about
\* it says, and nothing but the package has been changed.
PermsFixed == pc = "done" => FilesStay /\ LinksMade /\ LastLineDecides /\ StaysInside
=============================================================================
