----------------------------- MODULE OePackage ------------------------------
(***************************************************************************)
(* do_package: one recipe's installed tree is stripped, its debug halves   *)
(* are split off, the files are handed out to packages, and the packages'  *)
(* run-time dependencies are derived from what landed in them              *)
(* (lib/oe/package.py; the order of the steps is package.bbclass's).       *)
(*                                                                         *)
(* A path is [dir, area, name]; area "debug" or "static" is the .debug     *)
(* directory beside the file.  A package's name is the sequence of its     *)
(* parts: <<"foo", "dev">> is foo-dev.  The tree maps a path to            *)
(* [ino, what, link]: what is the content's identity, described in         *)
(* recipe.data, and link the target of a symbolic link, else NoName.       *)
(***************************************************************************)
EXTENDS Naturals, Sequences, FiniteSets, FiniteSetsExt, SequencesExt, Functions

CONSTANTS
    Recipes,    \* what may be packaged; the fields are used below by name
    Workers,    \* parallel strip processes
    NoName      \* no link, no soname

VARIABLES
    recipe,
    packing,    \* the next step
    tree,       \* PKGD
    strippable, \* [elf, static, group]: files to strip; first path -> its hard links
    busy,       \* files a worker is stripping
    strips,     \* inode -> how often it was stripped
    moved,      \* directory -> where fixup_perms moved it
    packages,   \* PACKAGES, a sequence of names
    files,      \* package -> the set of paths in its root
    unshipped,  \* paths reported as installed but not shipped
    rdepends,   \* package -> RDEPENDS
    libdeps,    \* package -> .shlibdeps and .pcdeps
    recommends, \* package -> RRECOMMENDS
    ending      \* "ok", or the exception that ended the task

fileVars == <<tree, strippable, busy, strips, moved>>
pkgVars == <<packages, files, unshipped>>
depVars == <<rdepends, libdeps, recommends>>
packVars == <<recipe, packing, fileVars, pkgVars, depVars, ending>>

AsSet(s) == {s[i] : i \in DOMAIN s}
NoneYet == [x \in {} |-> {}]
LinkTo(d) == [dir |-> "/", area |-> "", name |-> d]

\* What a recipe may install, and its tables: nothing in a .debug directory
\* and no path that is a file and a directory, inode and contents go together
\* and none is named as a copy is, files linked outside the tree and excepted
\* ones are in the tree, the order lists every path, and fs-perms.txt names a
\* directory and a target once.
Packable(r) ==
    LET all == DOMAIN r.install
    IN  /\ IsFiniteSet(all) /\ IsFiniteSet(r.dirlinks)
        /\ r.order \in Seq(all) /\ all \subseteq AsSet(r.order)
        /\ r.packages \in Seq(AsSet(r.packages)) /\ r.locales \in Seq(AsSet(r.locales))
        /\ r.skip \subseteq all /\ r.outside \subseteq {r.install[p].ino : p \in all}
        /\ \A p \in all : p = [dir |-> p.dir, area |-> "", name |-> p.name]
        /\ \A p \in all : LET n == r.install[p]
                          IN  n = [ino |-> n.ino, what |-> n.what, link |-> n.link]
        /\ \A p, q \in all :
              /\ p # LinkTo(q.dir)
              /\ r.install[p].ino = r.install[q].ino =>
                    r.install[p].what = r.install[q].what /\ r.install[p].link = r.install[q].link
              /\ r.install[p].ino # <<q, "copy">>
        /\ \A p \in all : r.install[p].link = NoName => r.install[p].what \in DOMAIN r.data
        /\ \A w \in DOMAIN r.data : NoName \notin r.data[w].needs \cup r.data[w].requires
        /\ \A m \in r.dirlinks : LinkTo(m[2]) # NoName
        /\ \A m, n \in r.dirlinks : m[1] = n[1] \/ m[2] = n[2] => m = n

ASSUME PackAssumption == \A r \in Recipes : Packable(r)

PackInit ==
    /\ recipe \in Recipes
    /\ packing = "select" /\ ending = "ok"
    /\ tree = recipe.install
    /\ strippable = [elf |-> {}, static |-> {}, group |-> NoneYet]
    /\ busy = {} /\ strips = [i \in {recipe.install[p].ino : p \in DOMAIN recipe.install} |-> 0]
    /\ moved = NoneYet
    /\ packages = recipe.packages
    /\ files = NoneYet /\ unshipped = {}
    /\ rdepends = recipe.rdepends
    /\ libdeps = NoneYet /\ recommends = NoneYet

-----------------------------------------------------------------------------
(* process_split_and_strip_files                                           *)

FileKind(p) == recipe.data[tree[p].what].kind
IsLink(p) == tree[p].link # NoName
Plain == {p \in DOMAIN tree : ~IsLink(p) /\ p.area = "" /\ p \notin recipe.skip}

\* The order of the results sorted by path: recipe.order lists every path.
PathPosition(p) == CHOOSE i \in DOMAIN recipe.order : recipe.order[i] = p
FirstPath(S) == CHOOSE p \in S : \A q \in S : PathPosition(p) <= PathPosition(q)

\* is_elf: unstripped ELF files.  Stripped ones are warned about and left.
Unstripped == {p \in Plain : FileKind(p) \in {"elf", "module", "signed"}}
StaticLibs == {p \in Plain : FileKind(p) = "static"}

Sharing(S, i) == {p \in S : tree[p].ino = i}
Inodes(S) == {tree[p].ino : p \in S}
LinkCount(i) == Cardinality({p \in DOMAIN tree : tree[p].ino = i})
                + (IF i \in recipe.outside THEN 1 ELSE 0)

\* Mutant: the file is stripped in place, hard links to it outside included.
AfterBreak_InPlace(first) == tree[first].ino

\* bb.utils.break_hardlinks: a file with other links becomes a copy.
AfterBreak(first) ==
    IF LinkCount(tree[first].ino) > 1 THEN <<first, "copy">> ELSE tree[first].ino

\* The files to strip, grouped by inode: the first keeps a copy of its own, the
\* others are linked to it again.  ELF files go in path order; the static
\* libraries' sort compares the first character of the path, so that any of
\* them may be first.
Select ==
    /\ packing = "select" /\ packing' = "split"
    /\ \E static \in [Inodes(StaticLibs) -> StaticLibs] :
          /\ \A i \in DOMAIN static : tree[static[i]].ino = i
          /\ LET elf == {FirstPath(Sharing(Unstripped, i)) : i \in Inodes(Unstripped)}
                 firsts == elf \cup AsSet(static)
                 all == Unstripped \cup StaticLibs
                 of(p) == CHOOSE f \in firsts : tree[f].ino = tree[p].ino
             IN  /\ strippable' = [elf |-> elf, static |-> AsSet(static),
                                   group |-> [f \in firsts |-> Sharing(all, tree[f].ino)]]
                 /\ tree' = [p \in DOMAIN tree |->
                                IF p \in all THEN [tree[p] EXCEPT !.ino = AfterBreak(of(p))]
                                ELSE tree[p]]
                 /\ strips' = [i \in DOMAIN strips \cup {AfterBreak(f) : f \in firsts} |-> 0]
    /\ UNCHANGED <<recipe, busy, moved, pkgVars, depVars, ending>>

Beside(p, area, name) == [dir |-> p.dir, area |-> area, name |-> name]
DebugHalf(p, area) == [ino |-> <<p, area>>, what |-> tree[p].what, link |-> NoName]

\* splitdebuginfo and splitstaticdebuginfo, one process per file; signed
\* modules are left whole.
Halves ==
    {<<Beside(p, "debug", p.name), DebugHalf(p, "debug")>> :
        p \in {q \in strippable.elf : FileKind(q) # "signed"}}
    \cup {<<Beside(p, "static", p.name), DebugHalf(p, "static")>> :
        p \in (IF recipe.staticsplit THEN strippable.static ELSE {})}

\* A set of <<path, node>> pairs laid over a tree; the first in order wins
\* where two have one path, and a path already there is left alone.
AddNodes(t, pairs) ==
    [p \in DOMAIN t \cup {x[1] : x \in pairs} |->
        IF p \in DOMAIN t THEN t[p] ELSE (CHOOSE x \in pairs : x[1] = p)[2]]

SplitDebug ==
    /\ packing = "split"
    /\ IF recipe.debugsplit
       THEN tree' = AddNodes(tree, Halves) /\ packing' = "hardlinks"
       ELSE tree' = tree /\ packing' = "strip"
    /\ UNCHANGED <<recipe, strippable, busy, strips, moved, pkgVars, depVars, ending>>

\* The name the debug link inside the shared file asks for.
DebugName(first, p) == first.name

\* "Hardlink our debug symbols to the other hardlink copies": one link in each
\* directory, under the first file's name, unless a file has that name already.
LinkedHalves ==
    LET wanted(first, p) ==
            LET d == Beside(first, "debug", first.name)
                s == Beside(first, "static", first.name)
            IN  IF d \in DOMAIN tree
                THEN {<<Beside(p, "debug", DebugName(first, p)), tree[d]>>}
                ELSE IF recipe.staticsplit /\ s \in DOMAIN tree
                     THEN {<<Beside(p, "static", p.name), tree[s]>>} ELSE {}
        order == {f \in DOMAIN strippable.group : Cardinality(strippable.group[f]) > 1}
        by(f) == UNION {wanted(f, p) : p \in strippable.group[f] \ {f}}
        earlier(f) == {g \in order : PathPosition(g) < PathPosition(f)}
        taken(f) == UNION {{x[1] : x \in by(g)} : g \in earlier(f)}
    IN  UNION {{x \in by(f) : x[1] \notin taken(f)} : f \in order}

LinkDebug ==
    /\ packing = "hardlinks" /\ packing' = "symlinks"
    /\ tree' = AddNodes(tree, LinkedHalves)
    /\ UNCHANGED <<recipe, strippable, busy, strips, moved, pkgVars, depVars, ending>>

\* "Create symlinks for all cases we were able to split symbols": the test is
\* on the link to be made, so none is ever made, and a debug file that has its
\* name makes os.symlink fail.
ElfLinks == {p \in DOMAIN tree : IsLink(p) /\ tree[p].link \in DOMAIN tree
                                 /\ ~IsLink(tree[p].link)
                                 /\ FileKind(tree[p].link) \in {"elf", "module", "signed", "stripped"}}
LinkSymbols ==
    /\ packing = "symlinks"
    /\ IF \E p \in ElfLinks : Beside(p, "debug", p.name) \in DOMAIN tree
       THEN ending' = "FileExistsError" /\ packing' = "done"
       ELSE ending' = ending /\ packing' = "strip"
    /\ UNCHANGED <<recipe, fileVars, pkgVars, depVars>>

ToStrip == strippable.elf \cup (IF recipe.stripstatic \/ recipe.staticsplit THEN strippable.static ELSE {})
Stripped(p) == strips[tree[p].ino] > 0 \/ FileKind(p) = "signed"

\* runstrip in a pool of processes; a signed module is skipped.
StripBegin(p) ==
    /\ packing = "strip" /\ recipe.strip
    /\ p \in ToStrip \ busy /\ ~Stripped(p) /\ Cardinality(busy) < Workers
    /\ busy' = busy \cup {p}
    /\ UNCHANGED <<recipe, packing, tree, strippable, strips, moved, pkgVars, depVars, ending>>

StripEnd(p) ==
    /\ packing = "strip" /\ p \in busy
    /\ busy' = busy \ {p}
    /\ strips' = [strips EXCEPT ![tree[p].ino] = @ + 1]
    /\ UNCHANGED <<recipe, packing, tree, strippable, moved, pkgVars, depVars, ending>>

StripDone ==
    /\ packing = "strip" /\ busy = {}
    /\ recipe.strip => \A p \in ToStrip : Stripped(p)
    /\ packing' = "perms"
    /\ UNCHANGED <<recipe, fileVars, pkgVars, depVars, ending>>

-----------------------------------------------------------------------------
(* fixup_perms: directories that fs-perms.txt turns into links.            *)

DirExists(t, d) == \E p \in DOMAIN t : p.dir = d

FixupPerms ==
    /\ packing = "perms" /\ packing' = "locales"
    /\ LET take == {m \in recipe.dirlinks : DirExists(tree, m[1]) /\ ~DirExists(tree, m[2])}
           to(d) == IF \E m \in take : m[1] = d THEN (CHOOSE m \in take : m[1] = d)[2] ELSE d
           new(p) == [p EXCEPT !.dir = to(p.dir)]
           links == {LinkTo(m[1]) : m \in take}
       IN  /\ moved' = [d \in {m[1] : m \in take} |-> to(d)]
           /\ tree' = [q \in {new(p) : p \in DOMAIN tree} \cup links |->
                          IF q \in links
                          THEN [ino |-> <<q, "link">>, what |-> NoName, link |-> LinkTo(to(q.name))]
                          ELSE tree[CHOOSE p \in DOMAIN tree : new(p) = q]]
    /\ UNCHANGED <<recipe, strippable, busy, strips, pkgVars, depVars, ending>>

-----------------------------------------------------------------------------
(* split_locales and populate_packages                                     *)

\* The elements of s that lie in S, each once, in the order of s.
Once(s, S) ==
    LET kept[k \in 0..Len(s)] ==
            IF k = 0 THEN <<>>
            ELSE IF s[k] \in S \ AsSet(kept[k - 1]) THEN Append(kept[k - 1], s[k])
                 ELSE kept[k - 1]
    IN  kept[Len(s)]

\* The locale packages take the place of pn-locale, or come last.
SplitLocales ==
    /\ packing = "locales" /\ packing' = "populate"
    /\ LET found == Once(recipe.locales, {l \in AsSet(recipe.locales) : DirExists(tree, l.dir)})
           at    == {i \in DOMAIN packages : packages[i] = <<recipe.pn, "locale">>}
           k     == IF at = {} THEN Len(packages) + 1 ELSE Min(at)
       IN  packages' = IF found = <<>> THEN packages
                       ELSE SubSeq(packages, 1, k - 1) \o [i \in DOMAIN found |-> found[i].pkg]
                            \o SubSeq(packages, k + 1, Len(packages))
    /\ UNCHANGED <<recipe, fileVars, files, unshipped, depVars, ending>>

EndsWith(pkg, part) == Len(pkg) > 1 /\ Last(pkg) = part

\* -src first, then -dbg, then the others as listed; a name listed twice counts once.
Rank(pkg) ==
    IF EndsWith(pkg, "src") THEN 10
    ELSE IF recipe.autodebug /\ EndsWith(pkg, "dbg") THEN 30 ELSE 50
Ordered(ps) ==
    LET of(rank) == Once(ps, {p \in AsSet(ps) : Rank(p) = rank})
    IN  of(10) \o of(30) \o of(50)

\* FILES:pkg, a set of [dir, name]; name "*" is the directory.  For a locale's
\* package it is what split_locales set last.
Claims(pkg) ==
    LET at == {i \in DOMAIN recipe.locales : recipe.locales[i].pkg = pkg}
    IN  IF at # {} THEN {[dir |-> recipe.locales[Max(at)].dir, name |-> "*"]}
        ELSE recipe.claims[pkg]

\* files_from_filevars: a directory stands for all it holds; a path through a
\* directory that is now a link is cut to the link.
Covered(c) ==
    IF c.dir \in DOMAIN moved THEN {LinkTo(c.dir)}
    ELSE {p \in DOMAIN tree : p.dir = c.dir /\ (c.name = "*" \/ (c.name = p.name /\ p.area = ""))}
Matched(pkg) ==
    (UNION {Covered(c) : c \in Claims(pkg)})
    \cup (IF recipe.autodebug /\ EndsWith(pkg, "dbg") THEN {p \in DOMAIN tree : p.area # ""} ELSE {})

\* Files that must exist behind the links the claims were cut to.
Behind(pkg) ==
    {[dir |-> moved[c.dir], area |-> "", name |-> c.name] :
        c \in {x \in Claims(pkg) : x.dir \in DOMAIN moved /\ x.name # "*"}}

\* A file goes to the first package that claims it.  Packages of an
\* incompatible license keep their files and leave PACKAGES.
Populate ==
    /\ packing = "populate"
    /\ LET order == Ordered(packages)
           got(i) == Matched(order[i]) \ UNION {Matched(order[j]) : j \in 1..(i - 1)}
           root == [p \in AsSet(order) |-> got(CHOOSE i \in DOMAIN order : order[i] = p)]
           broken == \E p \in AsSet(order) : Behind(p) # {} /\
                        ~(Behind(p) \cup {LinkTo(c.dir) : c \in {x \in Claims(p) : x.dir \in DOMAIN moved}}
                          \subseteq root[p])
       IN  /\ files' = root
           /\ packages' = Once(order, AsSet(order) \ recipe.excluded)
           /\ unshipped' = IF broken THEN {} ELSE DOMAIN tree \ UNION {Matched(p) : p \in AsSet(order)}
           /\ ending' = IF broken THEN "fatal" ELSE ending
           /\ packing' = IF broken THEN "done" ELSE "fixsymlinks"
    /\ UNCHANGED <<recipe, fileVars, depVars>>

-----------------------------------------------------------------------------
(* process_fixsymlinks, process_shlibs, process_pkgconfig, depchains       *)

InPackages == AsSet(packages)
Of(f, x) == IF x \in DOMAIN f THEN f[x] ELSE {}

\* cpath.realpath within the package's own root: the first place the chain of
\* links leaves it.
Leaves(pkg, p) ==
    LET at[n \in Nat] ==
            IF n = 0 THEN p
            ELSE LET q == at[n - 1] IN IF q \in files[pkg] /\ IsLink(q) THEN tree[q].link ELSE q
    IN  at[Cardinality({x \in files[pkg] : IsLink(x)})]
Dangling(pkg) == {Leaves(pkg, p) : p \in {q \in files[pkg] : IsLink(q)}} \ files[pkg]

FixSymlinks ==
    /\ packing = "fixsymlinks" /\ packing' = "shlibs"
    /\ rdepends' = [p \in InPackages |->
          LET away == Dangling(p)
          IN  Of(rdepends, p) \cup {q \in InPackages \ {p} : away \cap files[q] # {}}]
    /\ UNCHANGED <<recipe, fileVars, pkgVars, libdeps, recommends, ending>>

Regular(pkg) == {p \in files[pkg] : ~IsLink(p)}
Data(p) == recipe.data[tree[p].what]

\* The sonames a package offers, each under the directory it lies in.
Sonames(pkg) ==
    {<<Data(p).soname, p.dir, pkg>> :
        p \in {z \in Regular(pkg) : z.area = "" /\ Data(z).soname \notin recipe.privatelibs \cup {NoName}}}
Later(a, b) == \E i, j \in DOMAIN packages : i > j /\ packages[i] = a[3] /\ packages[j] = b[3]

\* read_shlib_providers, then what this recipe's own packages offer; the
\* package registered last wins.
Provider ==
    LET own == UNION {Sonames(pkg) : pkg \in InPackages}
        last == {a \in own : ~\E b \in own : b[1] = a[1] /\ b[2] = a[2] /\ Later(b, a)}
    IN  last \cup {k \in recipe.known : ~\E a \in own : a[1] = k[1] /\ a[2] = k[2]}

\* Mutant: a library of another recipe is preferred.
Satisfies_Known(n, provider) == {y[3] : y \in {z \in provider : z[1] = n /\ z \in recipe.known}}

\* The package a needed library comes from: none when two directories hold one.
Satisfies(n, provider) ==
    LET all == {y \in provider : y[1] = n}
    IN  IF Cardinality({y[2] : y \in all}) = 1 THEN {y[3] : y \in all} ELSE {}

Needed(pkg) == (UNION {Data(p).needs : p \in {q \in Regular(pkg) : q.area = ""}}) \ recipe.privatelibs
ShlibDeps(pkg, provider) == (UNION {Satisfies(n, provider) : n \in Needed(pkg)}) \ {pkg}

Shlibs ==
    /\ packing = "shlibs" /\ packing' = "pkgconfig"
    /\ LET provider == Provider IN libdeps' = [p \in InPackages |-> ShlibDeps(p, provider)]
    /\ UNCHANGED <<recipe, fileVars, pkgVars, rdepends, recommends, ending>>

\* process_pkgconfig: every package that holds a required module.
Modules(pkg) == {Data(p).pc : p \in Regular(pkg)} \ {NoName}
Requires(pkg) == UNION {Data(p).requires : p \in Regular(pkg)}
PkgConfigDeps(pkg) ==
    ({q \in InPackages : Modules(q) \cap Requires(pkg) # {}}
     \cup {k[2] : k \in {x \in recipe.knownpc : x[1] \in Requires(pkg)}}) \ {pkg}

PkgConfig ==
    /\ packing = "pkgconfig" /\ packing' = "libdeps"
    /\ libdeps' = [p \in InPackages |-> libdeps[p] \cup PkgConfigDeps(p)]
    /\ UNCHANGED <<recipe, fileVars, pkgVars, rdepends, recommends, ending>>

\* read_shlibdeps of package.bbclass, over read_libdep_files.
ReadLibDeps ==
    /\ packing = "libdeps" /\ packing' = "depchains"
    /\ rdepends' = [p \in InPackages |-> rdepends[p] \cup libdeps[p]]
    /\ UNCHANGED <<recipe, fileVars, pkgVars, libdeps, recommends, ending>>

\* The package's name without -dev, then without -dbg.
Bare(pkg) ==
    LET cut(n, part) == IF EndsWith(n, part) THEN Front(n) ELSE n
    IN  cut(cut(pkg, "dev"), "dbg")
Chained(pkg, suffix, deps) == {Append(Bare(x), suffix) : x \in deps} \ {pkg}

DepChain(pkg, suffix) ==
    LET same == {p \in InPackages : EndsWith(p, suffix)}
        all  == UNION {rdepends[p] : p \in InPackages}
        from == IF Cardinality(same) = 1 THEN all ELSE Of(rdepends, Front(pkg))
    IN  IF suffix = "dbg" /\ ~recipe.dbgdefault
        THEN Chained(pkg, suffix, UNION {libdeps[p] : p \in InPackages})
        ELSE Chained(pkg, suffix, from)
             \cup (IF suffix = "dev" THEN Chained(pkg, suffix, recipe.depends) ELSE {})

DepChains ==
    /\ packing = "depchains" /\ packing' = "done"
    /\ recommends' = [p \in {q \in InPackages : EndsWith(q, "dev") \/ EndsWith(q, "dbg")} |->
                         DepChain(p, Last(p))]
    /\ UNCHANGED <<recipe, fileVars, pkgVars, rdepends, libdeps, ending>>

PackNext ==
    \/ Select \/ SplitDebug \/ LinkDebug \/ LinkSymbols
    \/ \E p \in ToStrip : StripBegin(p) \/ StripEnd(p)
    \/ StripDone \/ FixupPerms \/ SplitLocales \/ Populate
    \/ FixSymlinks \/ Shlibs \/ PkgConfig \/ ReadLibDeps \/ DepChains

PackSpec == PackInit /\ [][PackNext]_packVars
-----------------------------------------------------------------------------
(* What packaging promises.                                                *)

\* "Make sure any file we strip is not hardlinked to anything else outside
\* this tree; only strip any hardlinked file once (no races)" (package.py:1190):
\* whatever the workers' order, no inode is stripped twice or by two workers at
\* a time, nothing outside the tree and no file the recipe excepts is stripped,
\* and files that were one file still are.
StrippedOnce ==
    /\ \A i \in DOMAIN strips : strips[i] <= 1
    /\ \A p, q \in busy : p # q => tree[p].ino # tree[q].ino
    /\ \A i \in recipe.outside : strips[i] = 0
    /\ \A p \in recipe.skip \cap DOMAIN tree : strips[tree[p].ino] = 0
    /\ packing # "select" =>
          \A f \in DOMAIN strippable.group : \A p \in strippable.group[f] :
             p \in DOMAIN tree /\ f \in DOMAIN tree => tree[p].ino = tree[f].ino

\* "Track any hardlinks between files so that we can reconstruct matching debug
\* file hardlinks": beside every stripped file lies, under the name its debug
\* link gives, the debug half of that very file (unless another binary of that
\* name in that directory took the place), and with a -dbg package it is shipped there.
DebugFound ==
    packing \in {"strip", "perms", "fixsymlinks", "shlibs"} /\ recipe.debugsplit =>
        \A f \in strippable.elf : \A p \in strippable.group[f] :
            LET d == [Beside(p, "debug", f.name) EXCEPT !.dir =
                         IF p.dir \in DOMAIN moved THEN moved[p.dir] ELSE p.dir]
                rival == \E g \in strippable.elf \ {f} : \E q \in strippable.group[g] :
                            q.dir = p.dir /\ g.name = f.name
            IN  recipe.data[recipe.install[p].what].kind # "signed" /\ ~rival =>
                    /\ d \in DOMAIN tree /\ tree[d].what = recipe.install[p].what
                    /\ packing \in {"fixsymlinks", "shlibs"} /\ recipe.autodebug =>
                          \A pkg \in DOMAIN files :
                             EndsWith(pkg, "dbg") /\ ~(\E s \in DOMAIN files : EndsWith(s, "src")) =>
                                \A x \in DOMAIN files : d \in files[x] => EndsWith(x, "dbg")

\* What becomes of a binary: it is stripped once, and its debug data is found.
BinariesKept == StrippedOnce /\ DebugFound

\* What a package needs at run time comes with it.  When the task is done and
\* a library or a pkg-config module that a file of one package needs lies in
\* exactly one directory, in another package of the recipe, the first depends
\* on the second, and the single -dbg package recommends the second's debug
\* package; a symbolic link makes its package depend on the one that holds
\* the target; and no package depends on itself.
DepsFollowFiles ==
    packing = "done" /\ ending = "ok" =>
        /\ \A p \in InPackages : p \notin rdepends[p] \/ p \in Of(recipe.rdepends, p)
        /\ \A p, q \in InPackages : \A x \in Regular(p), y \in Regular(q) :
              LET others == {z \in DOMAIN tree : ~IsLink(z) /\ z.area = "" /\ z.dir # y.dir
                                                 /\ Data(z).soname = Data(y).soname}
                  known  == {k \in recipe.known : k[1] = Data(y).soname /\ k[2] # y.dir}
                  twins  == {z \in DOMAIN tree : ~IsLink(z) /\ z # y /\ z.area = ""
                                                 /\ Data(z).soname = Data(y).soname}
              IN  /\ p # q /\ x.area = "" /\ y.area = ""
                     /\ Data(y).soname \in Data(x).needs \ recipe.privatelibs
                     /\ others = {} /\ known = {} /\ twins = {} =>
                        /\ q \in rdepends[p]
                        /\ \A d \in InPackages : EndsWith(d, "dbg") /\ ~recipe.dbgdefault =>
                              Append(Bare(q), "dbg") \in recommends[d] \cup {d}
                  /\ p # q /\ Data(y).pc \in Data(x).requires => q \in rdepends[p]
        /\ \A p, q \in InPackages : \A x \in {z \in files[p] : IsLink(z)} :
              p # q /\ tree[x].link \in files[q] /\ ~IsLink(tree[x].link) => q \in rdepends[p]
=============================================================================
