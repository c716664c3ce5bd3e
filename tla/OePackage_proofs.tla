-------------------------- MODULE OePackage_proofs --------------------------
(***************************************************************************)
(* do_package, for any recipe, any number of strip workers and any order   *)
(* of theirs: the binaries are kept, each stripped once and found again by *)
(* its debug half, and the packages' dependencies follow the files.        *)
(*                                                                         *)
(* The invariant PackInv says step by step what each one leaves to the     *)
(* next: the tree holds what was installed (TreeKept); the files to strip  *)
(* are one for every inode, alone once their links were broken (GroupsHold *)
(* and InodesHold), so that no worker meets another (StripsHold); a debug  *)
(* half lies beside every link of a binary, wherever fixup_perms moves the *)
(* directory (HalvesHold and DebugLies); every file is in one package      *)
(* (FilesHold); and no later step loses a dependency (DependsHold).        *)
(*                                                                         *)
(* bbappend_recipe, for any file to edit, any calls and however old the    *)
(* recipe data: what each call was given is found by the build.  The       *)
(* invariant AppendInv says that what the data hold is in SRC_URI, or a    *)
(* word of that file the data do not know yet (KnownIn); what a recipe's   *)
(* own file removes, another word replaces (InsteadIn); and every copy     *)
(* lies in the directory that the file names last (CopiesLie).             *)
(***************************************************************************)
EXTENDS OePackage, OeAppend, FiniteSetTheorems, TLAPS

-----------------------------------------------------------------------------
(* Sets of numbers, and the sequences Once makes.                          *)

\* A set of naturals has a least member.
LEMMA LeastNumber ==
  ASSUME NEW T, T \subseteq Nat, T # {}
  PROVE  \E n \in T : \A m \in T : n <= m
<1> DEFINE R == {ss \in Nat \X Nat : ss[1] < ss[2]}
<1>1. IsWellFoundedOn(R, Nat)
  BY NatLessThanWellFounded DEF OpToRel
<1>2. PICK x \in T : \A y \in T : <<y, x>> \notin R
  <2> HIDE DEF R
  <2> QED
    BY <1>1, WFMin
<1>3. \A y \in T : ~(y < x)
  BY <1>2
<1>4. QED
  BY <1>3

\* c has what Once has kept after each of the first n elements.
OnceUpTo(s, S, c, n) ==
  c = [k \in 0..n |->
          IF k = 0 THEN <<>>
          ELSE IF s[k] \in S \ AsSet(c[k - 1]) THEN Append(c[k - 1], s[k]) ELSE c[k - 1]]

LEMMA OnceExists ==
  ASSUME NEW s, NEW S, NEW n \in Nat
  PROVE  \E c : OnceUpTo(s, S, c, n)
<1> DEFINE T == {m \in Nat : ~ \E c : OnceUpTo(s, S, c, m)}
<1>1. SUFFICES ASSUME T # {} PROVE FALSE
  OBVIOUS
<1>2. PICK m \in T : \A k \in T : m <= k
  <2> HIDE DEF T
  <2>1. T \subseteq Nat
    BY DEF T
  <2> QED
    BY <1>1, <2>1, LeastNumber
<1>3. m # 0
  <2> DEFINE c == [k \in 0..0 |-> <<>>]
  <2>1. OnceUpTo(s, S, c, 0)
    BY DEF OnceUpTo
  <2>2. QED
    BY <2>1
<1>4. PICK c : OnceUpTo(s, S, c, m - 1)
  BY <1>2, <1>3
<1> DEFINE Step(f, k) == IF k = 0 THEN <<>>
                         ELSE IF s[k] \in S \ AsSet(f[k - 1]) THEN Append(f[k - 1], s[k])
                         ELSE f[k - 1]
<1> DEFINE h == [k \in 0..m |-> IF k = m THEN Step(c, m) ELSE c[k]]
<1>5. OnceUpTo(s, S, h, m)
  <2>1. ASSUME NEW k \in 0..m PROVE h[k] = Step(h, k)
    <3>1. CASE k = m
      <4>1. m - 1 \in 0..m /\ m - 1 # m
        BY <1>2, <1>3
      <4>2. h[m - 1] = c[m - 1] /\ h[m] = Step(c, m)
        BY <4>1, <1>2
      <4>3. QED
        BY <3>1, <4>2
    <3>2. CASE k # m
      <4>1. k \in 0..(m - 1)
        BY <1>2, <3>2
      <4>2. c[k] = Step(c, k)
        BY <1>4, <4>1 DEF OnceUpTo
      <4>3. h[k] = c[k]
        BY <3>2
      <4>4. k # 0 => k - 1 \in 0..m /\ k - 1 # m
        BY <1>2, <4>1
      <4>5. k # 0 => h[k - 1] = c[k - 1]
        BY <4>4
      <4>6. QED
        BY <4>2, <4>3, <4>5
    <3>3. QED
      BY <3>1, <3>2
  <2>2. h = [k \in 0..m |-> Step(h, k)]
    BY <2>1
  <2>3. QED
    BY <2>2 DEF OnceUpTo
<1>6. QED
  BY <1>2, <1>5

\* r has elements of S, each once.
Single(r, S) == r \in Seq(S) /\ \A i, j \in 1..Len(r) : r[i] = r[j] => i = j

\* One more element that is not yet there.
LEMMA SingleAppend ==
  ASSUME NEW S, NEW r, Single(r, S), NEW x \in S, x \notin AsSet(r)
  PROVE  Single(Append(r, x), S)
<1>1. /\ r \in Seq(S) /\ Append(r, x) \in Seq(S) /\ Len(Append(r, x)) = Len(r) + 1 /\ Len(r) \in Nat
      /\ \A k \in 1..Len(r) : Append(r, x)[k] = r[k]
      /\ Append(r, x)[Len(r) + 1] = x /\ DOMAIN r = 1..Len(r)
  BY DEF Single
<1>2. \A k \in 1..Len(r) : r[k] # x
  BY <1>1 DEF AsSet
<1> DEFINE a == Append(r, x)
           n == Len(r)
<1>3. /\ n \in Nat /\ Len(a) = n + 1 /\ a[n + 1] = x
      /\ \A k \in 1..n : a[k] = r[k] /\ r[k] # x
      /\ \A i, j \in 1..n : r[i] = r[j] => i = j
  BY <1>1, <1>2 DEF Single
<1> HIDE DEF a, n
<1>4. ASSUME NEW i \in 1..(n + 1), NEW j \in 1..(n + 1), a[i] = a[j] PROVE i = j
  <2>1. CASE i = n + 1 /\ j # n + 1
    <3>1. j \in 1..n
      BY <1>3, <2>1
    <3>2. QED
      BY <1>3, <1>4, <2>1, <3>1
  <2>2. CASE j = n + 1 /\ i # n + 1
    <3>1. i \in 1..n
      BY <1>3, <2>2
    <3>2. QED
      BY <1>3, <1>4, <2>2, <3>1
  <2>3. CASE i # n + 1 /\ j # n + 1
    <3>1. i \in 1..n /\ j \in 1..n
      BY <1>3, <2>3
    <3>2. QED
      BY <1>3, <1>4, <3>1
  <2>4. QED
    BY <2>1, <2>2, <2>3
<1>5. \A i, j \in 1..Len(a) : a[i] = a[j] => i = j
  BY <1>3, <1>4
<1>6. QED
  BY <1>1, <1>5 DEF Single, a

\* Once keeps elements of S only, each of them once.
LEMMA OnceHolds ==
  ASSUME NEW X, NEW s \in Seq(X), NEW S
  PROVE  Single(Once(s, S), AsSet(s) \cap S)
<1> DEFINE n == Len(s)
           E == AsSet(s) \cap S
           c == CHOOSE f : OnceUpTo(s, S, f, n)
           T == {k \in 0..n : ~Single(c[k], E)}
<1>1. n \in Nat /\ DOMAIN s = 1..n
  OBVIOUS
<1>2. Once(s, S) = c[n]
  BY DEF Once, OnceUpTo
<1>3. OnceUpTo(s, S, c, n)
  BY <1>1, OnceExists
<1>4. \A k \in 0..n : c[k] = IF k = 0 THEN <<>>
          ELSE IF s[k] \in S \ AsSet(c[k - 1]) THEN Append(c[k - 1], s[k]) ELSE c[k - 1]
  <2> HIDE DEF c, n
  <2> QED
    BY <1>3, Zenon DEF OnceUpTo
<1>5. \A k \in 1..n : s[k] \in AsSet(s)
  BY <1>1 DEF AsSet
<1> HIDE DEF c, n
<1>6. T = {}
  <2>1. SUFFICES ASSUME T # {} PROVE FALSE
    OBVIOUS
  <2>2. PICK k \in T : \A h \in T : k <= h
    <3>1. T \subseteq Nat
      BY <1>1
    <3> HIDE DEF T
    <3> QED
      BY <2>1, <3>1, LeastNumber
  <2>3. k \in 0..n /\ ~Single(c[k], E)
    OBVIOUS
  <2>4. k # 0
    <3>1. Single(<<>>, E)
      BY DEF Single
    <3>2. 0 \in 0..n => c[0] = <<>>
      BY <1>4, Zenon
    <3>3. QED
      BY <2>3, <3>1, <3>2
  <2>5. k \in 1..n /\ k - 1 \in 0..n /\ ~(k <= k - 1)
    BY <1>1, <2>3, <2>4
  <2>6. Single(c[k - 1], E)
    BY <2>2, <2>5
  <2>7. s[k] \in AsSet(s)
    BY <1>5, <2>5
  <2> HIDE DEF T, E
  <2>8. CASE s[k] \in S \ AsSet(c[k - 1])
    <3>1. c[k] = Append(c[k - 1], s[k])
      BY <1>4, <2>3, <2>4, <2>8, Zenon
    <3>2. s[k] \in E
      BY <2>7, <2>8 DEF E
    <3>3. QED
      BY <2>3, <2>6, <2>8, <3>1, <3>2, SingleAppend
  <2>9. CASE ~(s[k] \in S \ AsSet(c[k - 1]))
    <3>1. c[k] = c[k - 1]
      BY <1>4, <2>3, <2>4, <2>9, Zenon
    <3>2. QED
      BY <2>3, <2>6, <3>1
  <2>10. QED
    BY <2>8, <2>9
<1>7. Single(c[n], E)
  <2>1. n \in 0..n
    BY <1>1
  <2>2. n \notin T
    BY <1>6
  <2>3. QED
    BY <2>1, <2>2, Zenon DEF T
<1>8. QED
  BY <1>2, <1>7

-----------------------------------------------------------------------------
(* do_package: strip, split, hand out, derive the dependencies.            *)

Installed == DOMAIN recipe.install

\* The steps before fixup_perms moves anything.
InPlace == packing \in {"select", "split", "hardlinks", "symlinks", "strip", "perms"}

\* Every step after a set of them.
Stripping == packing \notin {"select", "split", "hardlinks", "symlinks"}

WayOf(f) == recipe.data[recipe.install[f].what].kind

\* The tree holds what was installed as it was, and debug halves beside it.
TreeKept ==
    /\ recipe \in Recipes /\ IsFiniteSet(DOMAIN tree)
    /\ \A p \in DOMAIN tree :
          /\ p = [dir |-> p.dir, area |-> p.area, name |-> p.name]
          /\ tree[p].link = NoName => tree[p].what \in DOMAIN recipe.data
    /\ \A p \in Installed \cap DOMAIN tree :
          tree[p].what = recipe.install[p].what /\ tree[p].link = recipe.install[p].link
    /\ InPlace => /\ moved = NoneYet /\ Installed \subseteq DOMAIN tree
                  /\ \A p \in DOMAIN tree \ Installed :
                        p.area # "" /\ \E q \in Installed : q.dir = p.dir
    /\ \A d \in DOMAIN moved : LinkTo(d) \in DOMAIN tree

Groups == DOMAIN strippable.group

\* The files to strip: one for each inode, with its hard links.
GroupsHold ==
    /\ Groups = strippable.elf \cup strippable.static
    /\ \A f \in Groups : /\ f \in strippable.group[f]
                         /\ strippable.group[f] \subseteq Installed \ recipe.skip
                         /\ recipe.install[f].link = NoName
    /\ \A f \in strippable.elf : WayOf(f) \in {"elf", "module", "signed"}
    /\ \A f \in strippable.static : WayOf(f) = "static"
    /\ \A f \in Groups : \A p \in strippable.group[f] :
          recipe.install[p].ino = recipe.install[f].ino
    /\ \A f, g \in Groups : recipe.install[f].ino = recipe.install[g].ino => f = g

\* An inode that is stripped is a copy, or has no other link.
Alone(f, i) ==
    \/ i = <<f, "copy">>
    \/ /\ i = recipe.install[f].ino /\ i \notin recipe.outside
       /\ \A p \in Installed : recipe.install[p].ino = i => p = f

\* The inodes of the tree, those of the groups as breaking the links left them.
InodesHold ==
    /\ \A f \in Groups : \A p \in strippable.group[f] :
          p \in DOMAIN tree /\ f \in DOMAIN tree => tree[p].ino = tree[f].ino
    /\ InPlace => \A f \in Groups : Alone(f, tree[f].ino) /\ tree[f].ino \in DOMAIN strips
    /\ \A p \in Installed \cap DOMAIN tree :
          (\A f \in Groups : p \notin strippable.group[f]) => tree[p].ino = recipe.install[p].ino
    /\ \A p \in Installed : recipe.install[p].ino \in DOMAIN strips

\* An inode is stripped once, and none that is excepted or linked outside.
StripsHold ==
    /\ \A i \in DOMAIN strips : strips[i] \in {0, 1}
    /\ ~Stripping => \A i \in DOMAIN strips : strips[i] = 0
    /\ busy \subseteq ToStrip /\ (packing # "strip" => busy = {})
    /\ \A p \in busy : strips[tree[p].ino] = 0
    /\ \A i \in recipe.outside : strips[i] = 0
    /\ \A p \in recipe.skip : strips[recipe.install[p].ino] = 0

\* While the halves are made: one beside every binary, and no other.
HalvesHold ==
    /\ packing = "select" => tree = recipe.install
    /\ packing \in {"select", "split"} => DOMAIN tree = Installed
    /\ packing = "hardlinks" =>
        /\ recipe.debugsplit
        /\ \A f \in strippable.elf : WayOf(f) # "signed" =>
              LET d == Beside(f, "debug", f.name)
              IN  d \in DOMAIN tree /\ tree[d].what = recipe.install[f].what
        /\ \A d \in DOMAIN tree : d.area = "debug" =>
              \E f \in strippable.elf : WayOf(f) # "signed" /\ d = Beside(f, "debug", f.name)

Rival(f, p) ==
    \E g \in strippable.elf \ {f} : \E q \in strippable.group[g] : q.dir = p.dir /\ g.name = f.name

\* Where the debug half of p, a link of f, lies.
HalfOf(f, p) ==
    [Beside(p, "debug", f.name) EXCEPT !.dir = IF p.dir \in DOMAIN moved THEN moved[p.dir] ELSE p.dir]

DebugLies ==
    packing \notin {"select", "split", "hardlinks"} /\ ending = "ok" /\ recipe.debugsplit =>
        \A f \in strippable.elf : \A p \in strippable.group[f] :
            WayOf(f) # "signed" /\ ~Rival(f, p) =>
                HalfOf(f, p) \in DOMAIN tree /\ tree[HalfOf(f, p)].what = recipe.install[f].what

Handed ==
    ending = "ok" /\ packing \in {"fixsymlinks", "shlibs", "pkgconfig", "libdeps", "depchains", "done"}

\* Every file is in one package, debug halves in the -dbg one.
FilesHold ==
    Handed =>
        /\ packages \in Seq(DOMAIN files)
        /\ \A i, j \in 1..Len(packages) : packages[i] = packages[j] => i = j
        /\ \A p \in DOMAIN files : files[p] \subseteq DOMAIN tree
        /\ \A p, q \in DOMAIN files : p # q => files[p] \cap files[q] = {}
        /\ recipe.autodebug =>
              \A pkg \in DOMAIN files :
                 EndsWith(pkg, "dbg") /\ (\A s \in DOMAIN files : ~EndsWith(s, "src")) =>
                    \A x \in DOMAIN files : \A d \in files[x] : d.area # "" => EndsWith(x, "dbg")

LinksFollowed ==
    \A p, q \in InPackages : \A x \in {z \in files[p] : IsLink(z)} :
        p # q /\ tree[x].link \in files[q] /\ ~IsLink(tree[x].link) => q \in rdepends[p]

\* The dependencies gathered so far.
DependsHold ==
    /\ packing # "done" => ending = "ok"
    /\ packing \notin {"shlibs", "pkgconfig", "libdeps", "depchains", "done"} =>
          rdepends = recipe.rdepends
    /\ ~Handed => packages \in Seq(AsSet(packages))
    /\ Handed /\ packing # "fixsymlinks" =>
          /\ LinksFollowed
          /\ \A p \in InPackages : p \notin rdepends[p] \/ p \in Of(recipe.rdepends, p)
    /\ Handed /\ packing \notin {"fixsymlinks", "shlibs"} =>
          \A p \in InPackages : p \notin libdeps[p] /\ ShlibDeps(p, Provider) \subseteq libdeps[p]
    /\ Handed /\ packing \notin {"fixsymlinks", "shlibs", "pkgconfig"} =>
          \A p \in InPackages : PkgConfigDeps(p) \subseteq libdeps[p]
    /\ Handed /\ packing \in {"depchains", "done"} =>
          \A p \in InPackages : libdeps[p] \subseteq rdepends[p]
    /\ Handed /\ packing = "done" =>
          \A d \in InPackages : EndsWith(d, "dbg") /\ ~recipe.dbgdefault =>
              Chained(d, "dbg", UNION {libdeps[p] : p \in InPackages}) \subseteq recommends[d]

PackInv ==
    /\ TreeKept /\ GroupsHold /\ InodesHold /\ StripsHold /\ HalvesHold /\ DebugLies
    /\ FilesHold /\ DependsHold

-----------------------------------------------------------------------------
\* The steps at which the tree no longer changes.
Late == {"locales", "populate", "fixsymlinks", "shlibs", "pkgconfig", "libdeps", "depchains", "done"}

\* What holds of the tree, the groups and the halves, while they stay.
LEMMA TreeStays ==
  ASSUME PackInv, UNCHANGED <<recipe, tree, strippable, moved>>, DOMAIN strips' = DOMAIN strips,
         InPlace' => InPlace
  PROVE  TreeKept' /\ GroupsHold' /\ InodesHold'
<1>1. UNCHANGED <<recipe, tree, strippable, moved>>
  OBVIOUS
<1>2. TreeKept'
  <2>1. TreeKept
    BY DEF PackInv
  <2>2. Installed' = Installed
    BY <1>1 DEF Installed
  <2>3. QED
    BY <1>1, <2>1, <2>2 DEF TreeKept
<1>3. GroupsHold'
  <2>1. GroupsHold
    BY DEF PackInv
  <2>2. Installed' = Installed /\ Groups' = Groups
    BY <1>1 DEF Installed, Groups
  <2>3. \A f : WayOf(f)' = WayOf(f)
    BY <1>1 DEF WayOf
  <2>4. QED
    BY <1>1, <2>1, <2>2, <2>3 DEF GroupsHold
<1>4. InodesHold'
  <2>1. InodesHold
    BY DEF PackInv
  <2>2. Installed' = Installed /\ Groups' = Groups
    BY <1>1 DEF Installed, Groups
  <2>3. \A f, i : Alone(f, i)' <=> Alone(f, i)
    BY <1>1, <2>2 DEF Alone
  <2>4. QED
    BY <1>1, <2>1, <2>2, <2>3 DEF InodesHold
<1>5. QED
  BY <1>2, <1>3, <1>4

LEMMA LateKeeps ==
  ASSUME PackInv, UNCHANGED <<recipe, fileVars>>, packing \in Late, packing' \in Late
  PROVE  TreeKept' /\ GroupsHold' /\ InodesHold' /\ StripsHold' /\ HalvesHold'
<1>1. UNCHANGED <<recipe, tree, strippable, busy, strips, moved>>
  BY DEF fileVars
<1>2. ~InPlace' /\ Stripping /\ Stripping' /\ packing # "strip" /\ packing' # "strip"
  BY DEF InPlace, Stripping, Late
<1>3. StripsHold'
  <2>1. StripsHold
    BY DEF PackInv
  <2>2. ToStrip' = ToStrip
    BY <1>1 DEF ToStrip
  <2>3. QED
    BY <1>1, <1>2, <2>1, <2>2 DEF StripsHold
<1>4. HalvesHold'
  BY DEF HalvesHold, Late
<1>5. QED
  BY <1>1, <1>2, <1>3, <1>4, TreeStays

\* The debug halves lie where they lay.
LEMMA DebugStays ==
  ASSUME PackInv, UNCHANGED <<recipe, tree, strippable, moved>>,
         packing \notin {"select", "split", "hardlinks"}, ending' = "ok" => ending = "ok"
  PROVE  DebugLies'
<1>1. UNCHANGED <<recipe, tree, strippable, moved>>
  OBVIOUS
<1>2. DebugLies
  BY DEF PackInv
<1>3. \A f, p : (Rival(f, p)' <=> Rival(f, p)) /\ HalfOf(f, p)' = HalfOf(f, p)
  BY <1>1 DEF Rival, HalfOf, Beside
<1>4. \A f : WayOf(f)' = WayOf(f)
  BY <1>1 DEF WayOf
<1>5. QED
  BY <1>1, <1>2, <1>3, <1>4 DEF DebugLies

\* The packages keep their files.
LEMMA FilesStay ==
  ASSUME PackInv, Handed, UNCHANGED <<recipe, tree, packages, files>>
  PROVE  FilesHold'
<1>1. FilesHold
  BY DEF PackInv
<1>2. \A p, part : EndsWith(p, part)' <=> EndsWith(p, part)
  BY DEF EndsWith
<1>3. QED
  BY <1>1 DEF FilesHold

\* The links of a package are followed to the first place outside it.
LeavesWay(pkg, x, c) ==
  c = [n \in Nat |->
          IF n = 0 THEN x
          ELSE IF c[n - 1] \in files[pkg] /\ IsLink(c[n - 1]) THEN tree[c[n - 1]].link ELSE c[n - 1]]

LEMMA LeavesFollows ==
  ASSUME TreeKept, NEW pkg, files[pkg] \subseteq DOMAIN tree,
         NEW x \in files[pkg], IsLink(x), tree[x].link \notin files[pkg]
  PROVE  Leaves(pkg, x) = tree[x].link
<1> DEFINE t == tree[x].link
           L == {z \in files[pkg] : IsLink(z)}
           c == CHOOSE f : LeavesWay(pkg, x, f)
           g == [n \in Nat |-> IF n = 0 THEN x ELSE t]
<1>1. Leaves(pkg, x) = c[Cardinality(L)]
  BY DEF Leaves, LeavesWay
<1>2. Cardinality(L) \in Nat /\ Cardinality(L) # 0
  <2>1. IsFiniteSet(DOMAIN tree)
    BY DEF TreeKept
  <2>2. L \subseteq DOMAIN tree
    OBVIOUS
  <2>3. IsFiniteSet(L)
    BY <2>1, <2>2, FS_Subset
  <2>4. x \in L
    OBVIOUS
  <2> HIDE DEF L
  <2>5. QED
    BY <2>3, <2>4, FS_CardinalityType, FS_EmptySet
<1>3. LeavesWay(pkg, x, g)
  <2>1. ASSUME NEW n \in Nat
        PROVE  g[n] = IF n = 0 THEN x
                      ELSE IF g[n - 1] \in files[pkg] /\ IsLink(g[n - 1]) THEN tree[g[n - 1]].link
                           ELSE g[n - 1]
    <3>1. CASE n = 0
      BY <3>1
    <3>2. CASE n = 1
      <4>1. g[n - 1] = x /\ g[n] = t
        BY <3>2
      <4> HIDE DEF g
      <4>2. QED
        BY <3>2, <4>1
    <3>3. CASE n # 0 /\ n # 1
      <4>1. n - 1 \in Nat /\ n - 1 # 0
        BY <3>3
      <4>2. g[n - 1] = t /\ g[n] = t
        BY <3>3, <4>1
      <4> HIDE DEF g
      <4>3. QED
        BY <3>3, <4>2
    <3>4. QED
      BY <3>1, <3>2, <3>3
  <2>2. g = [n \in Nat |->
               IF n = 0 THEN x
               ELSE IF g[n - 1] \in files[pkg] /\ IsLink(g[n - 1]) THEN tree[g[n - 1]].link
                    ELSE g[n - 1]]
    <3>1. g = [n \in Nat |-> g[n]]
      OBVIOUS
    <3> HIDE DEF g
    <3>2. QED
      BY <2>1, <3>1
  <2> HIDE DEF g
  <2>3. QED
    BY <2>2 DEF LeavesWay
<1>4. LeavesWay(pkg, x, c)
  <2> HIDE DEF g
  <2>1. QED
    BY <1>3
<1>5. \A n \in Nat : c[n] = IF n = 0 THEN x
          ELSE IF c[n - 1] \in files[pkg] /\ IsLink(c[n - 1]) THEN tree[c[n - 1]].link ELSE c[n - 1]
  <2> HIDE DEF c
  <2> QED
    BY <1>4, Zenon DEF LeavesWay
<1> HIDE DEF c, L
<1> DEFINE T == {n \in Nat : n # 0 /\ c[n] # t}
<1>6. T = {}
  <2>1. SUFFICES ASSUME T # {} PROVE FALSE
    OBVIOUS
  <2>2. PICK n \in T : \A m \in T : n <= m
    <3>1. T \subseteq Nat
      OBVIOUS
    <3> HIDE DEF T
    <3> QED
      BY <2>1, <3>1, LeastNumber
  <2>3. n \in Nat /\ n # 0 /\ c[n] # t /\ n - 1 \in Nat /\ ~(n <= n - 1)
    OBVIOUS
  <2>4. c[n] = IF c[n - 1] \in files[pkg] /\ IsLink(c[n - 1]) THEN tree[c[n - 1]].link ELSE c[n - 1]
    BY <1>5, <2>3, Zenon
  <2>5. CASE n - 1 = 0
    <3>1. 0 \in Nat
      OBVIOUS
    <3>2. c[n - 1] = x
      BY <1>5, <2>5, <3>1, Zenon
    <3>3. QED
      BY <2>3, <2>4, <3>2
  <2>6. CASE n - 1 # 0
    <3>1. c[n - 1] = t
      BY <2>2, <2>3, <2>6
    <3>2. QED
      BY <2>3, <2>4, <3>1
  <2>7. QED
    BY <2>5, <2>6
<1>7. c[Cardinality(L)] = t
  BY <1>2, <1>6
<1>8. QED
  BY <1>1, <1>7

\* What the dependencies are gathered from does not change with them.
LEMMA SourcesStay ==
  ASSUME UNCHANGED <<recipe, fileVars, pkgVars>>
  PROVE  /\ InPackages' = InPackages /\ Provider' = Provider
         /\ \A p : ShlibDeps(p, Provider)' = ShlibDeps(p, Provider)
         /\ \A p : PkgConfigDeps(p)' = PkgConfigDeps(p)
<1>1. UNCHANGED <<recipe, tree, packages, files>>
  BY DEF fileVars, pkgVars
<1>2. InPackages' = InPackages
  BY <1>1 DEF InPackages, AsSet
<1>3. \A p : Data(p)' = Data(p) /\ Regular(p)' = Regular(p)
  BY <1>1, Zenon DEF Data, Regular, IsLink
<1>4. \A p : Sonames(p)' = Sonames(p)
  <2> SUFFICES ASSUME NEW p PROVE Sonames(p)' = Sonames(p)
    OBVIOUS
  <2>1. {z \in Regular(p) : z.area = "" /\ Data(z).soname \notin recipe.privatelibs \cup {NoName}}'
          = {z \in Regular(p) : z.area = "" /\ Data(z).soname \notin recipe.privatelibs \cup {NoName}}
    BY <1>1, <1>3
  <2>2. QED
    BY <1>3, <2>1 DEF Sonames
<1>5. \A a, b : Later(a, b)' <=> Later(a, b)
  BY <1>1 DEF Later
<1>6. Provider' = Provider
  <2>1. (UNION {Sonames(pkg) : pkg \in InPackages})' = UNION {Sonames(pkg) : pkg \in InPackages}
    BY <1>2, <1>4
  <2>2. QED
    BY <1>1, <1>5, <2>1 DEF Provider
<1>7. \A n : Satisfies(n, Provider)' = Satisfies(n, Provider)
  BY <1>6 DEF Satisfies
<1>8. \A p : Needed(p)' = Needed(p)
  BY <1>1, <1>3 DEF Needed
<1>9. \A p : ShlibDeps(p, Provider)' = ShlibDeps(p, Provider)
  BY <1>7, <1>8 DEF ShlibDeps
<1>10. \A p : Modules(p)' = Modules(p) /\ Requires(p)' = Requires(p)
  BY <1>3 DEF Modules, Requires
<1>11. \A p : PkgConfigDeps(p)' = PkgConfigDeps(p)
  BY <1>1, <1>2, <1>10 DEF PkgConfigDeps
<1>12. QED
  BY <1>2, <1>6, <1>9, <1>11

\* What an action after populate_packages keeps whatever it derives.
LEMMA HandedKeeps ==
  ASSUME PackInv, UNCHANGED <<recipe, fileVars, pkgVars, ending>>, Handed,
         packing \in Late, packing' \in Late, Handed'
  PROVE  /\ TreeKept' /\ GroupsHold' /\ InodesHold' /\ StripsHold' /\ HalvesHold' /\ DebugLies'
         /\ FilesHold' /\ ending = "ok" /\ ending' = "ok"
<1>1. TreeKept' /\ GroupsHold' /\ InodesHold' /\ StripsHold' /\ HalvesHold'
  BY LateKeeps
<1>2. DebugLies'
  BY DebugStays DEF Late, fileVars
<1>3. FilesHold'
  BY FilesStay DEF fileVars, pkgVars
<1>4. QED
  BY <1>1, <1>2, <1>3 DEF Handed

LEMMA FixSymlinksKeeps == ASSUME PackInv, FixSymlinks PROVE PackInv'
<1>1. /\ packing = "fixsymlinks" /\ packing' = "shlibs"
      /\ UNCHANGED <<recipe, fileVars, pkgVars, libdeps, recommends, ending>>
  BY DEF FixSymlinks
<1>2. Handed /\ Handed' /\ packing \in Late /\ packing' \in Late
  BY <1>1 DEF Handed, Late, PackInv, DependsHold
<1>3. /\ TreeKept' /\ GroupsHold' /\ InodesHold' /\ StripsHold' /\ HalvesHold' /\ DebugLies'
      /\ FilesHold' /\ ending' = "ok"
  BY <1>1, <1>2, HandedKeeps
<1>4. UNCHANGED <<recipe, tree, packages, files>> /\ InPackages' = InPackages
  BY <1>1 DEF fileVars, pkgVars, InPackages, AsSet
<1>5. \A p \in InPackages :
         rdepends'[p] = Of(rdepends, p)
                        \cup {q \in InPackages \ {p} : Dangling(p) \cap files[q] # {}}
  BY DEF FixSymlinks
<1>6. rdepends = recipe.rdepends
  BY <1>1 DEF PackInv, DependsHold
<1>7. /\ TreeKept /\ InPackages \subseteq DOMAIN files
      /\ \A p \in DOMAIN files : files[p] \subseteq DOMAIN tree
      /\ \A p, q \in DOMAIN files : p # q => files[p] \cap files[q] = {}
  <2>1. TreeKept /\ FilesHold
    BY DEF PackInv
  <2>2. InPackages \subseteq DOMAIN files
    <3>1. packages \in Seq(DOMAIN files)
      BY <1>2, <2>1 DEF FilesHold
    <3>2. \A i \in DOMAIN packages : packages[i] \in DOMAIN files
      BY <3>1
    <3>3. QED
      BY <3>2 DEF InPackages, AsSet
  <2>3. QED
    BY <1>2, <2>1, <2>2 DEF FilesHold
<1>8. ASSUME NEW p \in InPackages, NEW q \in InPackages, NEW x \in {z \in files[p] : IsLink(z)},
             p # q, tree[x].link \in files[q]
      PROVE  q \in rdepends'[p]
  <2>1. tree[x].link \notin files[p]
    BY <1>7, <1>8
  <2>2. Leaves(p, x) = tree[x].link
    BY <1>7, <1>8, <2>1, LeavesFollows
  <2>3. tree[x].link \in Dangling(p)
    BY <1>8, <2>1, <2>2, Zenon DEF Dangling
  <2>4. QED
    BY <1>5, <1>8, <2>3
<1>9. LinksFollowed'
  <2>1. \A x : IsLink(x)' <=> IsLink(x)
    BY <1>4 DEF IsLink
  <2>2. QED
    BY <1>4, <1>8, <2>1 DEF LinksFollowed
<1>10. \A p \in InPackages : p \notin rdepends'[p] \/ p \in Of(recipe.rdepends, p)
  BY <1>5, <1>6
<1>11. \A p : (Of(recipe.rdepends, p))' = Of(recipe.rdepends, p)
  BY <1>4 DEF Of
<1>12. DependsHold'
  BY <1>1, <1>2, <1>3, <1>4, <1>9, <1>10, <1>11 DEF DependsHold
<1>13. QED
  BY <1>3, <1>12 DEF PackInv

\* The links stay followed while a package only gains dependencies.
LEMMA LinksStay ==
  ASSUME UNCHANGED <<recipe, fileVars, pkgVars>>, LinksFollowed,
         \A p \in InPackages : rdepends[p] \subseteq rdepends'[p]
  PROVE  LinksFollowed'
<1>1. UNCHANGED <<recipe, tree, packages, files>> /\ InPackages' = InPackages
  BY DEF fileVars, pkgVars, InPackages, AsSet
<1>2. \A x : IsLink(x)' <=> IsLink(x)
  BY <1>1 DEF IsLink
<1>3. QED
  BY <1>1, <1>2 DEF LinksFollowed

LEMMA ShlibsKeeps == ASSUME PackInv, Shlibs PROVE PackInv'
<1>1. /\ packing = "shlibs" /\ packing' = "pkgconfig"
      /\ UNCHANGED <<recipe, fileVars, pkgVars, rdepends, recommends, ending>>
  BY DEF Shlibs
<1>2. Handed /\ Handed' /\ packing \in Late /\ packing' \in Late
  BY <1>1 DEF Handed, Late, PackInv, DependsHold
<1>3. /\ TreeKept' /\ GroupsHold' /\ InodesHold' /\ StripsHold' /\ HalvesHold' /\ DebugLies'
      /\ FilesHold' /\ ending' = "ok"
  BY <1>1, <1>2, HandedKeeps
<1>4. /\ InPackages' = InPackages
      /\ \A p : ShlibDeps(p, Provider)' = ShlibDeps(p, Provider)
  BY <1>1, SourcesStay
<1>5. \A p \in InPackages : libdeps'[p] = ShlibDeps(p, Provider)
  BY DEF Shlibs
<1>6. \A p \in InPackages : p \notin ShlibDeps(p, Provider)
  BY DEF ShlibDeps
<1>7. LinksFollowed' /\ (\A p : (Of(recipe.rdepends, p))' = Of(recipe.rdepends, p))
  <2>1. LinksFollowed
    BY <1>1, <1>2 DEF PackInv, DependsHold
  <2>2. QED
    BY <1>1, <2>1, LinksStay DEF Of
<1>8. DependsHold
  BY DEF PackInv
<1>9. DependsHold'
  BY <1>1, <1>2, <1>3, <1>4, <1>5, <1>6, <1>7, <1>8 DEF DependsHold
<1>10. QED
  BY <1>3, <1>9 DEF PackInv

LEMMA PkgConfigKeeps == ASSUME PackInv, PkgConfig PROVE PackInv'
<1>1. /\ packing = "pkgconfig" /\ packing' = "libdeps"
      /\ UNCHANGED <<recipe, fileVars, pkgVars, rdepends, recommends, ending>>
  BY DEF PkgConfig
<1>2. Handed /\ Handed' /\ packing \in Late /\ packing' \in Late
  BY <1>1 DEF Handed, Late, PackInv, DependsHold
<1>3. /\ TreeKept' /\ GroupsHold' /\ InodesHold' /\ StripsHold' /\ HalvesHold' /\ DebugLies'
      /\ FilesHold' /\ ending' = "ok"
  BY <1>1, <1>2, HandedKeeps
<1>4. /\ InPackages' = InPackages
      /\ \A p : ShlibDeps(p, Provider)' = ShlibDeps(p, Provider)
      /\ \A p : PkgConfigDeps(p)' = PkgConfigDeps(p)
  BY <1>1, SourcesStay
<1>5. \A p \in InPackages : libdeps'[p] = libdeps[p] \cup PkgConfigDeps(p)
  BY DEF PkgConfig
<1>6. \A p \in InPackages : p \notin PkgConfigDeps(p)
  BY DEF PkgConfigDeps
<1>7. LinksFollowed' /\ (\A p : (Of(recipe.rdepends, p))' = Of(recipe.rdepends, p))
  <2>1. LinksFollowed
    BY <1>1, <1>2 DEF PackInv, DependsHold
  <2>2. QED
    BY <1>1, <2>1, LinksStay DEF Of
<1>8. DependsHold
  BY DEF PackInv
<1>9. DependsHold'
  BY <1>1, <1>2, <1>3, <1>4, <1>5, <1>6, <1>7, <1>8 DEF DependsHold
<1>10. QED
  BY <1>3, <1>9 DEF PackInv

LEMMA ReadLibDepsKeeps == ASSUME PackInv, ReadLibDeps PROVE PackInv'
<1>1. /\ packing = "libdeps" /\ packing' = "depchains"
      /\ UNCHANGED <<recipe, fileVars, pkgVars, libdeps, recommends, ending>>
  BY DEF ReadLibDeps
<1>2. Handed /\ Handed' /\ packing \in Late /\ packing' \in Late
  BY <1>1 DEF Handed, Late, PackInv, DependsHold
<1>3. /\ TreeKept' /\ GroupsHold' /\ InodesHold' /\ StripsHold' /\ HalvesHold' /\ DebugLies'
      /\ FilesHold' /\ ending' = "ok"
  BY <1>1, <1>2, HandedKeeps
<1>4. /\ InPackages' = InPackages
      /\ \A p : ShlibDeps(p, Provider)' = ShlibDeps(p, Provider)
      /\ \A p : PkgConfigDeps(p)' = PkgConfigDeps(p)
  BY <1>1, SourcesStay
<1>5. \A p \in InPackages : rdepends'[p] = rdepends[p] \cup libdeps[p]
  BY DEF ReadLibDeps
<1>6. DependsHold /\ LinksFollowed
  BY <1>1, <1>2 DEF PackInv, DependsHold
<1>7. LinksFollowed' /\ (\A p : (Of(recipe.rdepends, p))' = Of(recipe.rdepends, p))
  BY <1>1, <1>5, <1>6, LinksStay DEF Of
<1>8. DependsHold'
  BY <1>1, <1>2, <1>3, <1>4, <1>5, <1>6, <1>7 DEF DependsHold
<1>9. QED
  BY <1>3, <1>8 DEF PackInv

LEMMA DepChainsKeeps == ASSUME PackInv, DepChains PROVE PackInv'
<1>1. /\ packing = "depchains" /\ packing' = "done"
      /\ UNCHANGED <<recipe, fileVars, pkgVars, rdepends, libdeps, ending>>
  BY DEF DepChains
<1>2. Handed /\ Handed' /\ packing \in Late /\ packing' \in Late
  BY <1>1 DEF Handed, Late, PackInv, DependsHold
<1>3. /\ TreeKept' /\ GroupsHold' /\ InodesHold' /\ StripsHold' /\ HalvesHold' /\ DebugLies'
      /\ FilesHold' /\ ending' = "ok"
  BY <1>1, <1>2, HandedKeeps
<1>4. /\ InPackages' = InPackages
      /\ \A p : ShlibDeps(p, Provider)' = ShlibDeps(p, Provider)
      /\ \A p : PkgConfigDeps(p)' = PkgConfigDeps(p)
  BY <1>1, SourcesStay
<1>5. ASSUME NEW d \in InPackages, EndsWith(d, "dbg"), ~recipe.dbgdefault
      PROVE  recommends'[d] = Chained(d, "dbg", UNION {libdeps[p] : p \in InPackages})
  <2>1. recommends'[d] = DepChain(d, Last(d))
    BY <1>5 DEF DepChains
  <2>2. Last(d) = "dbg"
    BY <1>5 DEF EndsWith
  <2>3. QED
    BY <1>5, <2>1, <2>2 DEF DepChain
<1>6. DependsHold /\ LinksFollowed
  BY <1>1, <1>2 DEF PackInv, DependsHold
<1>7. LinksFollowed' /\ (\A p : (Of(recipe.rdepends, p))' = Of(recipe.rdepends, p))
  BY <1>1, <1>6, LinksStay DEF Of
<1>8. /\ \A d : EndsWith(d, "dbg")' <=> EndsWith(d, "dbg")
      /\ \A d, S : Chained(d, "dbg", S)' = Chained(d, "dbg", S)
      /\ (UNION {libdeps[p] : p \in InPackages})' = UNION {libdeps[p] : p \in InPackages}
      /\ recipe' = recipe
  BY <1>1, <1>4 DEF EndsWith, Chained, Bare
<1>9. (Handed /\ packing = "done" =>
          \A d \in InPackages : EndsWith(d, "dbg") /\ ~recipe.dbgdefault =>
              Chained(d, "dbg", UNION {libdeps[p] : p \in InPackages}) \subseteq recommends[d])'
  BY <1>4, <1>5, <1>8
<1>10. DependsHold'
  BY <1>1, <1>2, <1>3, <1>4, <1>6, <1>7, <1>9 DEF DependsHold
<1>11. QED
  BY <1>3, <1>10 DEF PackInv

\* The dependencies of the finished packages are those of their files.
LEMMA DepsFollow == PackInv => DepsFollowFiles
<1> SUFFICES ASSUME PackInv, packing = "done", ending = "ok" PROVE DepsFollowFiles
  BY DEF DepsFollowFiles
<1> USE DEF Handed
<1>1. /\ TreeKept /\ FilesHold /\ DependsHold /\ Handed /\ Packable(recipe)
      /\ packing \notin {"fixsymlinks", "shlibs", "pkgconfig"}
  BY PackAssumption DEF PackInv, TreeKept
<1>2. /\ LinksFollowed
      /\ \A p \in InPackages : p \notin rdepends[p] \/ p \in Of(recipe.rdepends, p)
  BY <1>1 DEF DependsHold
<1>3. /\ \A p \in InPackages : ShlibDeps(p, Provider) \subseteq rdepends[p]
      /\ \A p \in InPackages : ShlibDeps(p, Provider) \subseteq libdeps[p]
      /\ \A p \in InPackages : PkgConfigDeps(p) \subseteq rdepends[p]
  BY <1>1 DEF DependsHold
<1>4. \A d \in InPackages : EndsWith(d, "dbg") /\ ~recipe.dbgdefault =>
              Chained(d, "dbg", UNION {libdeps[p] : p \in InPackages}) \subseteq recommends[d]
  BY <1>1 DEF DependsHold
<1>5. /\ \A p \in InPackages : files[p] \subseteq DOMAIN tree
      /\ \A p, q \in InPackages : p # q => files[p] \cap files[q] = {}
      /\ \A i, j \in DOMAIN packages : packages[i] = packages[j] => i = j
  <2>1. packages \in Seq(DOMAIN files)
    BY <1>1 DEF FilesHold
  <2>2. DOMAIN packages = 1..Len(packages) /\ \A i \in DOMAIN packages : packages[i] \in DOMAIN files
    BY <2>1
  <2>3. InPackages \subseteq DOMAIN files
    BY <2>2 DEF InPackages, AsSet
  <2>4. QED
    BY <1>1, <2>2, <2>3 DEF FilesHold
<1>6. ASSUME NEW p \in InPackages, NEW x \in Regular(p)
      PROVE  /\ x \in DOMAIN tree /\ ~IsLink(x) /\ tree[x].what \in DOMAIN recipe.data
             /\ NoName \notin Data(x).needs \cup Data(x).requires
  <2>1. x \in DOMAIN tree /\ ~IsLink(x)
    BY <1>5, <1>6 DEF Regular
  <2>2. tree[x].what \in DOMAIN recipe.data
    BY <1>1, <2>1 DEF TreeKept, IsLink
  <2>3. QED
    BY <1>1, <2>1, <2>2 DEF Packable, Data
<1>7. ASSUME NEW p \in InPackages, NEW q \in InPackages, NEW x \in Regular(p), NEW y \in Regular(q),
             p # q, x.area = "", y.area = "",
             Data(y).soname \in Data(x).needs \ recipe.privatelibs,
             \A z \in DOMAIN tree :
                ~IsLink(z) /\ z.area = "" /\ Data(z).soname = Data(y).soname => z = y,
             \A k \in recipe.known : k[1] = Data(y).soname => k[2] = y.dir
      PROVE  q \in ShlibDeps(p, Provider)
  <2> DEFINE n == Data(y).soname
             own == UNION {Sonames(pkg) : pkg \in InPackages}
             a == <<n, y.dir, q>>
             all == {z \in Provider : z[1] = n}
  <2>1. n \in Needed(p) /\ n # NoName /\ n \notin recipe.privatelibs
    BY <1>6, <1>7 DEF Needed
  <2>2. ASSUME NEW pkg \in InPackages, NEW b \in Sonames(pkg), b[1] = n
        PROVE  b[2] = y.dir /\ pkg = q /\ b[3] = q
    <3>1. PICK z \in Regular(pkg) : z.area = "" /\ b = <<Data(z).soname, z.dir, pkg>>
      BY <2>2 DEF Sonames
    <3>2. z \in DOMAIN tree /\ ~IsLink(z) /\ z \in files[pkg] /\ y \in files[q]
      BY <1>6, <1>7, <3>1 DEF Regular
    <3>3. b[1] = Data(z).soname /\ b[2] = z.dir /\ b[3] = pkg
      BY <3>1
    <3>4. z = y
      BY <1>7, <2>2, <3>1, <3>2, <3>3
    <3>5. pkg = q
      BY <1>5, <1>7, <3>2, <3>4
    <3>6. QED
      BY <3>3, <3>4, <3>5
  <2>3. a \in own
    <3>1. a \in Sonames(q)
      BY <1>7, <2>1 DEF Sonames
    <3>2. QED
      BY <1>7, <3>1
  <2>4. a[1] = n /\ a[2] = y.dir /\ a[3] = q
    OBVIOUS
  <2>5. \A b \in own : b[1] = n => b[2] = y.dir /\ b[3] = q
    BY <2>2
  <2> HIDE DEF a, own, n
  <2>6. \A b \in own : b[1] = n => ~Later(b, a)
    <3> SUFFICES ASSUME NEW b \in own, b[1] = n, Later(b, a) PROVE FALSE
      OBVIOUS
    <3>1. PICK i \in DOMAIN packages : \E j \in DOMAIN packages :
             i > j /\ packages[i] = b[3] /\ packages[j] = a[3]
      BY DEF Later
    <3>2. PICK j \in DOMAIN packages : i > j /\ packages[i] = b[3] /\ packages[j] = a[3]
      BY <3>1
    <3>3. i = j
      BY <1>5, <2>4, <2>5, <3>2
    <3>4. packages \in Seq(DOMAIN files)
      BY <1>1 DEF FilesHold
    <3>5. i \in Nat
      BY <3>4
    <3>6. QED
      BY <3>2, <3>3, <3>5
  <2>7. a \in Provider
    BY <2>3, <2>4, <2>6 DEF Provider, own
  <2>8. \A z \in Provider : z[1] = n => z[2] = y.dir
    <3> SUFFICES ASSUME NEW z \in Provider, z[1] = n PROVE z[2] = y.dir
      OBVIOUS
    <3>1. z \in own \/ z \in recipe.known
      BY DEF Provider, own
    <3>2. QED
      BY <1>7, <2>5, <3>1 DEF n
  <2>9. {z[2] : z \in all} = {y.dir}
    BY <2>4, <2>7, <2>8
  <2>10. q \in Satisfies(n, Provider)
    <3>1. Cardinality({z[2] : z \in all}) = 1
      BY <2>9, FS_Singleton
    <3>2. q \in {z[3] : z \in all}
      BY <2>4, <2>7
    <3>3. QED
      BY <3>1, <3>2 DEF Satisfies
  <2>11. QED
    BY <1>7, <2>1, <2>10 DEF ShlibDeps
<1>8. ASSUME NEW p \in InPackages, NEW q \in InPackages, NEW d \in InPackages,
             q \in ShlibDeps(p, Provider), EndsWith(d, "dbg"), ~recipe.dbgdefault
      PROVE  Append(Bare(q), "dbg") \in recommends[d] \cup {d}
  <2>1. q \in UNION {libdeps[r] : r \in InPackages}
    BY <1>3, <1>8
  <2>2. Append(Bare(q), "dbg") \in Chained(d, "dbg", UNION {libdeps[r] : r \in InPackages}) \cup {d}
    BY <2>1 DEF Chained
  <2>3. QED
    BY <1>4, <1>8, <2>2
<1>9. ASSUME NEW p \in InPackages, NEW q \in InPackages, NEW x \in Regular(p), NEW y \in Regular(q),
             p # q, Data(y).pc \in Data(x).requires
      PROVE  q \in rdepends[p]
  <2>1. Data(y).pc \in Modules(q) /\ Data(y).pc \in Requires(p)
    BY <1>6, <1>9 DEF Modules, Requires
  <2>2. QED
    BY <1>3, <1>9, <2>1 DEF PkgConfigDeps
<1>10. \A p, q \in InPackages : \A x \in {z \in files[p] : IsLink(z)} :
          p # q /\ tree[x].link \in files[q] /\ ~IsLink(tree[x].link) => q \in rdepends[p]
  BY <1>2 DEF LinksFollowed
<1>11. ASSUME NEW p \in InPackages, NEW q \in InPackages, NEW x \in Regular(p), NEW y \in Regular(q)
       PROVE  LET others == {z \in DOMAIN tree : ~IsLink(z) /\ z.area = "" /\ z.dir # y.dir
                                                  /\ Data(z).soname = Data(y).soname}
                  known  == {k \in recipe.known : k[1] = Data(y).soname /\ k[2] # y.dir}
                  twins  == {z \in DOMAIN tree : ~IsLink(z) /\ z # y /\ z.area = ""
                                                  /\ Data(z).soname = Data(y).soname}
              IN  /\ p # q /\ x.area = "" /\ y.area = ""
                     /\ Data(y).soname \in Data(x).needs \ recipe.privatelibs
                     /\ others = {} /\ known = {} /\ twins = {} =>
                        /\ q \in rdepends[p]
                        /\ \A d \in InPackages : EndsWith(d, "dbg") /\ ~recipe.dbgdefault =>
                              Append(Bare(q), "dbg") \in recommends[d] \cup {d}
                  /\ p # q /\ Data(y).pc \in Data(x).requires => q \in rdepends[p]
  <2> DEFINE known == {k \in recipe.known : k[1] = Data(y).soname /\ k[2] # y.dir}
             twins == {z \in DOMAIN tree : ~IsLink(z) /\ z # y /\ z.area = ""
                                            /\ Data(z).soname = Data(y).soname}
  <2>1. ASSUME p # q, x.area = "", y.area = "",
               Data(y).soname \in Data(x).needs \ recipe.privatelibs, known = {}, twins = {}
        PROVE  /\ q \in rdepends[p]
               /\ \A d \in InPackages : EndsWith(d, "dbg") /\ ~recipe.dbgdefault =>
                     Append(Bare(q), "dbg") \in recommends[d] \cup {d}
    <3>1. \A z \in DOMAIN tree :
             ~IsLink(z) /\ z.area = "" /\ Data(z).soname = Data(y).soname => z = y
      BY <2>1
    <3>2. \A k \in recipe.known : k[1] = Data(y).soname => k[2] = y.dir
      BY <2>1
    <3>3. q \in ShlibDeps(p, Provider)
      BY <1>7, <1>11, <2>1, <3>1, <3>2
    <3>4. QED
      BY <1>3, <1>8, <1>11, <3>3
  <2>2. p # q /\ Data(y).pc \in Data(x).requires => q \in rdepends[p]
    BY <1>9, <1>11
  <2>3. QED
    BY <2>1, <2>2
<1>12. QED
  BY <1>2, <1>10, <1>11 DEF DepsFollowFiles

-----------------------------------------------------------------------------
LEMMA SeqOfOwn ==
  ASSUME NEW X, NEW s \in Seq(X)
  PROVE  s \in Seq(AsSet(s)) /\ Len(s) \in Nat /\ DOMAIN s = 1..Len(s)
<1>1. Len(s) \in Nat /\ DOMAIN s = 1..Len(s) /\ s = [i \in 1..Len(s) |-> s[i]]
  OBVIOUS
<1>2. \A i \in 1..Len(s) : s[i] \in AsSet(s)
  BY <1>1 DEF AsSet
<1>3. QED
  BY <1>1, <1>2

\* Two sequences that share nothing, one after the other.
LEMMA SingleConcat ==
  ASSUME NEW S, NEW R, NEW s, NEW r, Single(s, S), Single(r, R), S \cap R = {}
  PROVE  /\ Single(s \o r, S \cup R)
         /\ Len(s \o r) = Len(s) + Len(r) /\ Len(s) \in Nat /\ Len(r) \in Nat
         /\ \A i \in 1..Len(s) : (s \o r)[i] \in S
         /\ \A i \in 1..Len(s \o r) : i \notin 1..Len(s) => (s \o r)[i] \in R
<1> DEFINE t == s \o r
           m == Len(s)
           n == Len(r)
<1>1. s \in Seq(S) /\ r \in Seq(R) /\ s \in Seq(S \cup R) /\ r \in Seq(S \cup R)
  <2>1. s \in Seq(S) /\ r \in Seq(R)
    BY DEF Single
  <2>2. QED
    BY <2>1
<1>2. /\ t \in Seq(S \cup R) /\ Len(t) = m + n /\ m \in Nat /\ n \in Nat
      /\ \A i \in 1..m : t[i] = s[i] /\ s[i] \in S
      /\ \A i \in 1..(m + n) : i \notin 1..m => t[i] = r[i - m] /\ i - m \in 1..n
      /\ \A i \in 1..n : r[i] \in R
  BY <1>1
<1>3. /\ \A i, j \in 1..m : s[i] = s[j] => i = j
      /\ \A i, j \in 1..n : r[i] = r[j] => i = j
  BY DEF Single
<1> HIDE DEF t, m, n
<1>4. ASSUME NEW i \in 1..(m + n), NEW j \in 1..(m + n), t[i] = t[j] PROVE i = j
  <2>1. CASE i \in 1..m /\ j \in 1..m
    BY <1>2, <1>3, <1>4, <2>1
  <2>2. CASE i \in 1..m /\ j \notin 1..m
    BY <1>2, <1>4, <2>2
  <2>3. CASE i \notin 1..m /\ j \in 1..m
    BY <1>2, <1>4, <2>3
  <2>4. CASE i \notin 1..m /\ j \notin 1..m
    <3>1. r[i - m] = r[j - m] /\ i - m \in 1..n /\ j - m \in 1..n
      BY <1>2, <1>4, <2>4
    <3>2. i - m = j - m
      BY <1>3, <3>1
    <3>3. QED
      BY <1>2, <3>2
  <2>5. QED
    BY <2>1, <2>2, <2>3, <2>4
<1>5. Single(t, S \cup R)
  BY <1>2, <1>4 DEF Single
<1>6. \A i \in 1..(m + n) : i \notin 1..m => t[i] \in R
  BY <1>2
<1>7. QED
  BY <1>2, <1>5, <1>6 DEF t, m, n

\* The packages by rank, each once.
LEMMA OrderedHolds ==
  ASSUME NEW X, NEW ps \in Seq(X)
  PROVE  /\ Single(Ordered(ps), AsSet(ps))
         /\ \A i, j \in 1..Len(Ordered(ps)) :
               Rank(Ordered(ps)[i]) < Rank(Ordered(ps)[j]) => i < j
<1> DEFINE R10 == {p \in AsSet(ps) : Rank(p) = 10}
           R30 == {p \in AsSet(ps) : Rank(p) = 30}
           R50 == {p \in AsSet(ps) : Rank(p) = 50}
           a == Once(ps, R10)
           b == Once(ps, R30)
           c == Once(ps, R50)
           o == Ordered(ps)
<1>1. o = (a \o b) \o c
  BY DEF Ordered
<1>2. AsSet(ps) \cap R10 = R10 /\ AsSet(ps) \cap R30 = R30 /\ AsSet(ps) \cap R50 = R50
  OBVIOUS
<1>3. Single(a, R10) /\ Single(b, R30) /\ Single(c, R50)
  <2>1. Single(a, AsSet(ps) \cap R10) /\ Single(b, AsSet(ps) \cap R30) /\ Single(c, AsSet(ps) \cap R50)
    BY OnceHolds
  <2>2. QED
    BY <1>2, <2>1
<1>4. R10 \cap R30 = {} /\ (R10 \cup R30) \cap R50 = {}
  OBVIOUS
<1>5. \A p : Rank(p) \in {10, 30, 50}
  BY DEF Rank
<1>6. (R10 \cup R30) \cup R50 = AsSet(ps)
  BY <1>5
<1>7. \A p \in R10 : Rank(p) = 10
  OBVIOUS
<1>8. \A p \in R30 : Rank(p) = 30
  OBVIOUS
<1>9. \A p \in R50 : Rank(p) = 50
  OBVIOUS
<1> HIDE DEF a, b, c, R10, R30, R50, o
<1>10. Single(Ordered(ps), AsSet(ps)) /\ \A i, j \in 1..Len(o) : Rank(o[i]) < Rank(o[j]) => i < j
  <2>1. /\ Single(a \o b, R10 \cup R30)
        /\ Len(a \o b) = Len(a) + Len(b) /\ Len(a) \in Nat /\ Len(b) \in Nat
        /\ \A i \in 1..Len(a) : (a \o b)[i] \in R10
        /\ \A i \in 1..Len(a \o b) : i \notin 1..Len(a) => (a \o b)[i] \in R30
    BY <1>3, <1>4, SingleConcat
  <2> DEFINE d == a \o b
  <2> HIDE DEF d
  <2>2. /\ Single(d \o c, (R10 \cup R30) \cup R50)
        /\ Len(d \o c) = Len(d) + Len(c) /\ Len(d) \in Nat /\ Len(c) \in Nat
        /\ \A i \in 1..Len(d) : (d \o c)[i] \in R10 \cup R30
        /\ \A i \in 1..Len(d \o c) : i \notin 1..Len(d) => (d \o c)[i] \in R50
    BY <1>3, <1>4, <2>1, SingleConcat DEF d
  <2>3. \A i \in 1..Len(d) : (d \o c)[i] = d[i]
    <3>1. d \in Seq(R10 \cup R30) /\ c \in Seq(R50)
      BY <1>3, <2>1 DEF Single, d
    <3>2. QED
      BY <3>1
  <2>4. QED
    <3>1. ASSUME NEW i \in 1..Len(o)
          PROVE  \/ i \in 1..Len(a) /\ Rank(o[i]) = 10
                 \/ i \in (Len(a) + 1)..(Len(a) + Len(b)) /\ Rank(o[i]) = 30
                 \/ i > Len(a) + Len(b) /\ Rank(o[i]) = 50
      <4>1. CASE i \in 1..Len(a)
        <5>1. i \in 1..Len(d) /\ d[i] \in R10
          BY <2>1, <4>1 DEF d
        <5>2. QED
          BY <1>7, <1>1, <2>3, <4>1, <5>1 DEF d
      <4>2. CASE i \notin 1..Len(a) /\ i \in 1..Len(d)
        <5>1. d[i] \in R30
          BY <2>1, <4>2 DEF d
        <5>2. i \in (Len(a) + 1)..(Len(a) + Len(b))
          BY <2>1, <4>2 DEF d
        <5>3. QED
          BY <1>8, <1>1, <2>3, <4>2, <5>1, <5>2 DEF d
      <4>3. CASE i \notin 1..Len(d)
        <5>1. o[i] \in R50
          BY <1>1, <2>2, <4>3 DEF d
        <5>2. i > Len(a) + Len(b)
          BY <2>1, <2>2, <4>3 DEF d
        <5>3. QED
          BY <1>9, <5>1, <5>2
      <4>4. QED
        BY <4>1, <4>2, <4>3
    <3>2. ASSUME NEW i \in 1..Len(o), NEW j \in 1..Len(o), Rank(o[i]) < Rank(o[j]) PROVE i < j
      <4>1. Len(a) \in Nat /\ Len(b) \in Nat
        BY <2>1
      <4>2. /\ \/ i \in 1..Len(a) /\ Rank(o[i]) = 10
               \/ i \in (Len(a) + 1)..(Len(a) + Len(b)) /\ Rank(o[i]) = 30
               \/ i > Len(a) + Len(b) /\ Rank(o[i]) = 50
            /\ \/ j \in 1..Len(a) /\ Rank(o[j]) = 10
               \/ j \in (Len(a) + 1)..(Len(a) + Len(b)) /\ Rank(o[j]) = 30
               \/ j > Len(a) + Len(b) /\ Rank(o[j]) = 50
        BY <3>1
      <4>3. QED
        BY <3>2, <4>1, <4>2
    <3>3. Single(o, AsSet(ps))
      BY <1>6, <1>1, <2>2 DEF d
    <3>4. QED
      BY <3>2, <3>3 DEF o
<1>11. QED
  BY <1>10 DEF o

LEMMA SplitLocalesKeeps == ASSUME PackInv, SplitLocales PROVE PackInv'
<1>1. /\ packing = "locales" /\ packing' = "populate"
      /\ UNCHANGED <<recipe, fileVars, files, unshipped, depVars, ending>>
  BY DEF SplitLocales
<1>2. ~Handed /\ ~Handed' /\ packing \in Late /\ packing' \in Late
  BY <1>1 DEF Handed, Late
<1>3. TreeKept' /\ GroupsHold' /\ InodesHold' /\ StripsHold' /\ HalvesHold'
  BY <1>1, <1>2, LateKeeps
<1>4. DebugLies' /\ FilesHold'
  BY <1>1, <1>2, DebugStays DEF FilesHold, fileVars
<1>5. DependsHold /\ packages \in Seq(AsSet(packages)) /\ Packable(recipe)
  BY <1>2, PackAssumption DEF PackInv, DependsHold, TreeKept
<1>6. packages' \in Seq(AsSet(packages'))
  <2> DEFINE found == Once(recipe.locales, {l \in AsSet(recipe.locales) : DirExists(tree, l.dir)})
             place == {i \in DOMAIN packages : packages[i] = <<recipe.pn, "locale">>}
             k == IF place = {} THEN Len(packages) + 1 ELSE Min(place)
             names == [i \in DOMAIN found |-> found[i].pkg]
             X == AsSet(packages) \cup AsSet(names)
  <2>1. packages' = IF found = <<>> THEN packages
                    ELSE SubSeq(packages, 1, k - 1) \o names
                         \o SubSeq(packages, k + 1, Len(packages))
    BY DEF SplitLocales
  <2>2. names \in Seq(X)
    <3>1. recipe.locales \in Seq(AsSet(recipe.locales))
      BY <1>5 DEF Packable
    <3>2. Single(found, AsSet(recipe.locales) \cap {l \in AsSet(recipe.locales) : DirExists(tree, l.dir)})
      BY <3>1, OnceHolds
    <3>3. Len(found) \in Nat /\ DOMAIN found = 1..Len(found)
      <4> HIDE DEF found
      <4>1. QED
        BY <3>2 DEF Single
    <3> HIDE DEF found
    <3>4. names = [i \in 1..Len(found) |-> found[i].pkg]
      BY <3>3
    <3>5. \A i \in 1..Len(found) : names[i] \in AsSet(names)
      BY <3>3, <3>4 DEF AsSet
    <3> HIDE DEF names
    <3>6. names = [i \in 1..Len(found) |-> names[i]]
      BY <3>4
    <3>7. QED
      BY <3>3, <3>5, <3>6
  <2>3. packages \in Seq(X)
    <3>1. AsSet(packages) \subseteq X
      OBVIOUS
    <3> HIDE DEF X
    <3>2. QED
      BY <1>5, <3>1
  <2>4. k \in 1..(Len(packages) + 1) /\ Len(packages) \in Nat
    <3>1. place \subseteq 1..Len(packages) /\ place \subseteq Nat /\ Len(packages) \in Nat
      BY <1>5
    <3>2. CASE place = {}
      BY <3>1, <3>2
    <3>3. CASE place # {}
      <4> HIDE DEF place
      <4>1. \E i \in place : \A j \in place : i <= j
        BY <3>1, <3>3, LeastNumber
      <4>2. Min(place) \in place
        BY <4>1, Zenon DEF Min
      <4>3. k = Min(place)
        BY <3>3
      <4>4. k \in 1..Len(packages)
        BY <3>1, <4>2, <4>3, Zenon
      <4> HIDE DEF k
      <4>5. QED
        BY <3>1, <4>4
    <3>4. QED
      BY <3>2, <3>3
  <2> HIDE DEF names, X, k, found
  <2>5. SubSeq(packages, 1, k - 1) \in Seq(X)
    <3>1. packages \in Seq(X) /\ k - 1 \in Nat /\ k - 1 <= Len(packages) /\ Len(packages) \in Nat
      BY <2>3, <2>4
    <3>2. QED
      BY <3>1
  <2>6. SubSeq(packages, k + 1, Len(packages)) \in Seq(X)
    <3>1. packages \in Seq(X) /\ k \in Nat /\ Len(packages) \in Nat /\ k <= Len(packages) + 1 /\ k >= 1
      BY <2>3, <2>4
    <3>2. QED
      BY <3>1
  <2>7. packages' \in Seq(X)
    BY <2>1, <2>2, <2>3, <2>5, <2>6
  <2>8. QED
    BY <2>7, SeqOfOwn
<1>7. DependsHold'
  BY <1>1, <1>2, <1>5, <1>6 DEF DependsHold, depVars, AsSet
<1>8. QED
  BY <1>3, <1>4, <1>7 DEF PackInv

LEMMA PopulateKeeps == ASSUME PackInv, Populate PROVE PackInv'
<1> DEFINE order == Ordered(packages)
           ix(p) == CHOOSE i \in DOMAIN order : order[i] = p
<1>1. /\ packing = "populate" /\ packing' \in {"done", "fixsymlinks"}
      /\ UNCHANGED <<recipe, fileVars, depVars>>
      /\ \/ packing' = "done" /\ ending' = "fatal"
         \/ packing' = "fixsymlinks" /\ ending' = ending
      /\ packages' = Once(order, AsSet(order) \ recipe.excluded)
      /\ files' = [p \in AsSet(order) |->
                      Matched(order[ix(p)]) \ UNION {Matched(order[j]) : j \in 1..(ix(p) - 1)}]
  BY DEF Populate
<1>2. ~Handed /\ packing \in Late /\ packing' \in Late
  BY <1>1 DEF Handed, Late
<1>3. TreeKept' /\ GroupsHold' /\ InodesHold' /\ StripsHold' /\ HalvesHold' /\ tree' = tree
  BY <1>1, <1>2, LateKeeps DEF fileVars
<1>4. DependsHold /\ packages \in Seq(AsSet(packages)) /\ TreeKept /\ ending = "ok"
  BY <1>1, <1>2 DEF PackInv, DependsHold
<1>5. DebugLies'
  BY <1>1, <1>4, DebugStays DEF fileVars
<1>6. /\ Single(order, AsSet(packages))
      /\ \A i, j \in 1..Len(order) : Rank(order[i]) < Rank(order[j]) => i < j
  BY <1>4, OrderedHolds
<1> HIDE DEF order
<1>7. /\ Len(order) \in Nat /\ DOMAIN order = 1..Len(order) /\ order \in Seq(AsSet(packages))
      /\ \A i \in 1..Len(order) : order[i] \in AsSet(order)
  <2>1. order \in Seq(AsSet(packages))
    BY <1>6 DEF Single
  <2>2. QED
    BY <2>1 DEF AsSet
<1>8. \A p \in AsSet(order) : ix(p) \in 1..Len(order) /\ order[ix(p)] = p
  <2> SUFFICES ASSUME NEW p \in AsSet(order) PROVE ix(p) \in 1..Len(order) /\ order[ix(p)] = p
    OBVIOUS
  <2>1. \E i \in DOMAIN order : order[i] = p
    BY DEF AsSet
  <2>2. QED
    BY <1>7, <2>1
<1> HIDE DEF ix
<1>9. DOMAIN files' = AsSet(order)
      /\ \A p \in AsSet(order) :
            files'[p] = Matched(p) \ UNION {Matched(order[j]) : j \in 1..(ix(p) - 1)}
  BY <1>1, <1>8
<1>10. \A p : Matched(p) \subseteq DOMAIN tree
  <2>1. \A c : Covered(c) \subseteq DOMAIN tree
    BY <1>4 DEF TreeKept, Covered
  <2>2. QED
    BY <2>1 DEF Matched
<1>11. \A p \in DOMAIN files' : files'[p] \subseteq DOMAIN tree'
  BY <1>3, <1>9, <1>10
<1>12. ASSUME NEW p \in AsSet(order), NEW q \in AsSet(order), NEW d \in files'[p], ix(q) < ix(p)
       PROVE  d \notin Matched(q)
  <2>1. ix(q) \in 1..(ix(p) - 1)
    BY <1>7, <1>8, <1>12
  <2>2. Matched(order[ix(q)]) = Matched(q)
    BY <1>8
  <2>3. QED
    BY <1>9, <2>1, <2>2
<1>13. \A p, q \in DOMAIN files' : p # q => files'[p] \cap files'[q] = {}
  <2> SUFFICES ASSUME NEW p \in AsSet(order), NEW q \in AsSet(order), p # q,
                      NEW d \in files'[p] \cap files'[q]
               PROVE  FALSE
    BY <1>9
  <2>1. d \in Matched(p) /\ d \in Matched(q)
    BY <1>9
  <2>2. ix(p) < ix(q) \/ ix(q) < ix(p)
    BY <1>7, <1>8
  <2>3. QED
    BY <1>12, <2>1, <2>2
<1>14. Single(packages', AsSet(order))
  <2>1. Single(packages', AsSet(order) \cap (AsSet(order) \ recipe.excluded))
    BY <1>1, <1>7, OnceHolds
  <2>2. QED
    BY <2>1 DEF Single
<1>15. \A p, part : EndsWith(p, part)' <=> EndsWith(p, part)
  BY DEF EndsWith
<1>16. ASSUME recipe.autodebug, NEW pkg \in AsSet(order), EndsWith(pkg, "dbg"),
              \A s \in AsSet(order) : ~EndsWith(s, "src"),
              NEW x \in AsSet(order), NEW d \in files'[x], d.area # ""
       PROVE  EndsWith(x, "dbg")
  <2> SUFFICES ASSUME ~EndsWith(x, "dbg") PROVE FALSE
    OBVIOUS
  <2>1. Rank(x) = 50 /\ Rank(pkg) = 30
    BY <1>16 DEF Rank
  <2>2. ix(pkg) < ix(x)
    <3>1. Rank(order[ix(pkg)]) < Rank(order[ix(x)])
      BY <1>8, <2>1
    <3>2. QED
      BY <1>6, <1>8, <3>1
  <2>3. d \in DOMAIN tree
    BY <1>9, <1>10
  <2>4. d \in Matched(pkg)
    BY <1>16, <2>3 DEF Matched
  <2>5. QED
    BY <1>12, <2>2, <2>4
<1>17. FilesHold'
  <2>1. /\ packages' \in Seq(DOMAIN files')
        /\ \A i, j \in 1..Len(packages') : packages'[i] = packages'[j] => i = j
    BY <1>9, <1>14 DEF Single
  <2>2. recipe' = recipe
    BY <1>1
  <2>3. \A pkg \in DOMAIN files' :
                 recipe.autodebug /\ EndsWith(pkg, "dbg")
                 /\ (\A s \in DOMAIN files' : ~EndsWith(s, "src")) =>
                    \A x \in DOMAIN files' : \A d \in files'[x] : d.area # "" => EndsWith(x, "dbg")
    BY <1>9, <1>16
  <2>4. QED
    BY <1>11, <1>13, <1>15, <2>1, <2>2, <2>3 DEF FilesHold
<1>18. packages' \in Seq(AsSet(packages'))
  <2>1. packages' \in Seq(AsSet(order))
    BY <1>14 DEF Single
  <2>2. QED
    BY <2>1, SeqOfOwn
<1>19. DependsHold'
  BY <1>1, <1>4, <1>18 DEF DependsHold, depVars, AsSet, Handed
<1>20. QED
  BY <1>3, <1>5, <1>17, <1>19 DEF PackInv

-----------------------------------------------------------------------------
\* Until populate_packages the packages are listed and depend as the recipe says.
LEMMA ListsStay ==
  ASSUME PackInv, UNCHANGED <<recipe, pkgVars, depVars>>, ~Handed, ~Handed',
         packing \notin {"shlibs", "pkgconfig", "libdeps", "depchains", "done"},
         packing' # "done" => ending' = ending
  PROVE  FilesHold' /\ DependsHold'
<1>1. packages \in Seq(AsSet(packages)) /\ rdepends = recipe.rdepends /\ ending = "ok"
  BY DEF PackInv, DependsHold
<1>2. (packages \in Seq(AsSet(packages)))'
  BY <1>1 DEF AsSet, pkgVars
<1>3. QED
  BY <1>1, <1>2 DEF FilesHold, DependsHold, depVars

LEMMA LinkSymbolsKeeps == ASSUME PackInv, LinkSymbols PROVE PackInv'
<1>1. /\ packing = "symlinks" /\ UNCHANGED <<recipe, fileVars, pkgVars, depVars>>
      /\ \/ packing' = "done" /\ ending' = "FileExistsError"
         \/ packing' = "strip" /\ ending' = ending
  BY DEF LinkSymbols
<1>2. UNCHANGED <<recipe, tree, strippable, busy, strips, moved>>
  BY <1>1 DEF fileVars
<1>3. InPlace /\ ~Handed /\ ~Handed' /\ ~Stripping
  BY <1>1 DEF InPlace, Handed, Stripping
<1>4. TreeKept' /\ GroupsHold' /\ InodesHold'
  BY <1>2, <1>3, TreeStays
<1>5. DebugLies'
  BY <1>1, <1>2, DebugStays DEF PackInv, DependsHold
<1>6. FilesHold' /\ DependsHold'
  BY <1>1, <1>3, ListsStay
<1>7. StripsHold'
  <2>1. StripsHold
    BY DEF PackInv
  <2>2. ToStrip' = ToStrip
    BY <1>2 DEF ToStrip
  <2>3. QED
    BY <1>1, <1>2, <1>3, <2>1, <2>2 DEF StripsHold
<1>8. HalvesHold'
  BY <1>1 DEF HalvesHold
<1>9. QED
  BY <1>4, <1>5, <1>6, <1>7, <1>8 DEF PackInv

\* Two files to strip are two inodes, and none of what must not be stripped.
LEMMA ApartHolds ==
  ASSUME PackInv, packing = "strip"
  PROVE  /\ \A p \in ToStrip : tree[p].ino \in DOMAIN strips /\ tree[p].ino \notin recipe.outside
         /\ \A p \in ToStrip, s \in recipe.skip : tree[p].ino # recipe.install[s].ino
         /\ \A p, q \in ToStrip : tree[p].ino = tree[q].ino => p = q
         /\ \A i \in recipe.outside : i \in DOMAIN strips
         /\ \A s \in recipe.skip : recipe.install[s].ino \in DOMAIN strips
<1>1. TreeKept /\ GroupsHold /\ InodesHold /\ Packable(recipe) /\ InPlace
  BY PackAssumption DEF PackInv, TreeKept, InPlace
<1>2. ToStrip \subseteq Groups
  BY <1>1 DEF ToStrip, GroupsHold
<1>3. \A f \in Groups : Alone(f, tree[f].ino) /\ tree[f].ino \in DOMAIN strips
  BY <1>1 DEF InodesHold
<1>4. /\ recipe.skip \subseteq Installed
      /\ \A p, q \in Installed : recipe.install[p].ino # <<q, "copy">>
      /\ \A i \in recipe.outside : \E p \in Installed : recipe.install[p].ino = i
  <2>1. recipe.outside \subseteq {recipe.install[p].ino : p \in Installed}
    BY <1>1 DEF Packable, Installed
  <2>2. recipe.skip \subseteq Installed
    BY <1>1 DEF Packable, Installed
  <2>3. \A p, q \in Installed : recipe.install[p].ino # <<q, "copy">>
    BY <1>1 DEF Packable, Installed
  <2>4. QED
    BY <2>1, <2>2, <2>3
<1>5. \A f \in Groups : f \in Installed /\ f \notin recipe.skip
  BY <1>1 DEF GroupsHold
<1>6. ASSUME NEW p \in Groups
      PROVE  /\ tree[p].ino \notin recipe.outside
             /\ \A s \in recipe.skip : tree[p].ino # recipe.install[s].ino
  BY <1>3, <1>4, <1>5 DEF Alone
<1>7. ASSUME NEW p \in Groups, NEW q \in Groups, tree[p].ino = tree[q].ino PROVE p = q
  <2>1. Alone(p, tree[p].ino) /\ Alone(q, tree[p].ino)
    BY <1>3, <1>7
  <2>2. CASE tree[p].ino = <<p, "copy">> /\ tree[p].ino = <<q, "copy">>
    BY <2>2
  <2>3. CASE tree[p].ino = <<p, "copy">> /\ tree[p].ino # <<q, "copy">>
    BY <1>4, <1>5, <2>1, <2>3 DEF Alone
  <2>4. CASE tree[p].ino # <<p, "copy">>
    BY <1>4, <1>5, <2>1, <2>4 DEF Alone
  <2>5. QED
    BY <2>2, <2>3, <2>4
<1>8. \A p \in Installed : recipe.install[p].ino \in DOMAIN strips
  BY <1>1 DEF InodesHold
<1>9. QED
  BY <1>2, <1>3, <1>4, <1>6, <1>7, <1>8

\* What a step of the strip workers leaves alone.
LEMMA WorkersKeep ==
  ASSUME PackInv, packing = "strip", packing' \in {"strip", "perms"},
         UNCHANGED <<recipe, tree, strippable, moved, pkgVars, depVars, ending>>,
         DOMAIN strips' = DOMAIN strips
  PROVE  /\ TreeKept' /\ GroupsHold' /\ InodesHold' /\ HalvesHold' /\ DebugLies'
         /\ FilesHold' /\ DependsHold' /\ ToStrip' = ToStrip /\ Stripping /\ Stripping'
<1>1. InPlace /\ ~Handed /\ ~Handed' /\ Stripping /\ Stripping'
  BY DEF InPlace, Handed, Stripping
<1>2. TreeKept' /\ GroupsHold' /\ InodesHold'
  BY <1>1, TreeStays
<1>3. DebugLies'
  BY DebugStays
<1>4. FilesHold' /\ DependsHold'
  BY <1>1, ListsStay
<1>5. HalvesHold'
  BY DEF HalvesHold
<1>6. ToStrip' = ToStrip
  BY DEF ToStrip
<1>7. QED
  BY <1>1, <1>2, <1>3, <1>4, <1>5, <1>6

LEMMA StripBeginKeeps == ASSUME PackInv, NEW p \in ToStrip, StripBegin(p) PROVE PackInv'
<1>1. /\ packing = "strip" /\ busy' = busy \cup {p} /\ ~Stripped(p)
      /\ UNCHANGED <<recipe, packing, tree, strippable, strips, moved, pkgVars, depVars, ending>>
  BY DEF StripBegin
<1>2. /\ TreeKept' /\ GroupsHold' /\ InodesHold' /\ HalvesHold' /\ DebugLies'
      /\ FilesHold' /\ DependsHold' /\ ToStrip' = ToStrip /\ Stripping /\ Stripping'
  BY <1>1, WorkersKeep
<1>3. StripsHold
  BY DEF PackInv
<1>4. strips[tree[p].ino] = 0
  <2>1. strips[tree[p].ino] \in {0, 1}
    BY <1>1, <1>3, ApartHolds DEF StripsHold
  <2>2. ~(strips[tree[p].ino] > 0)
    BY <1>1 DEF Stripped
  <2>3. QED
    BY <2>1, <2>2
<1>5. StripsHold'
  BY <1>1, <1>2, <1>3, <1>4 DEF StripsHold
<1>6. QED
  BY <1>2, <1>5 DEF PackInv

LEMMA StripEndKeeps == ASSUME PackInv, NEW p \in ToStrip, StripEnd(p) PROVE PackInv'
<1> DEFINE i == tree[p].ino
<1>1. /\ packing = "strip" /\ p \in busy /\ busy' = busy \ {p}
      /\ strips' = [strips EXCEPT ![i] = @ + 1]
      /\ UNCHANGED <<recipe, packing, tree, strippable, moved, pkgVars, depVars, ending>>
  BY DEF StripEnd
<1>2. StripsHold
  BY DEF PackInv
<1>3. strips[i] = 0 /\ i \in DOMAIN strips
  BY <1>1, <1>2, ApartHolds DEF StripsHold
<1>4. /\ DOMAIN strips' = DOMAIN strips /\ strips'[i] = 1
      /\ \A j \in DOMAIN strips : j # i => strips'[j] = strips[j]
  BY <1>1, <1>3
<1>5. /\ TreeKept' /\ GroupsHold' /\ InodesHold' /\ HalvesHold' /\ DebugLies'
      /\ FilesHold' /\ DependsHold' /\ ToStrip' = ToStrip /\ Stripping /\ Stripping'
  BY <1>1, <1>4, WorkersKeep
<1>6. /\ \A q \in busy \ {p} : tree[q].ino # i /\ tree[q].ino \in DOMAIN strips
      /\ \A j \in recipe.outside : j # i /\ j \in DOMAIN strips
      /\ \A s \in recipe.skip : recipe.install[s].ino # i /\ recipe.install[s].ino \in DOMAIN strips
  BY <1>1, <1>2, ApartHolds DEF StripsHold
<1> HIDE DEF i
<1>7. /\ \A j \in DOMAIN strips' : strips'[j] \in {0, 1}
      /\ \A q \in busy' : strips'[tree[q].ino] = 0
      /\ \A j \in recipe.outside : strips'[j] = 0
      /\ \A s \in recipe.skip : strips'[recipe.install[s].ino] = 0
  BY <1>1, <1>2, <1>4, <1>6 DEF StripsHold
<1>8. StripsHold'
  BY <1>1, <1>2, <1>5, <1>7 DEF StripsHold
<1>9. QED
  BY <1>5, <1>8 DEF PackInv

LEMMA StripDoneKeeps == ASSUME PackInv, StripDone PROVE PackInv'
<1>1. /\ packing = "strip" /\ busy = {} /\ packing' = "perms"
      /\ UNCHANGED <<recipe, fileVars, pkgVars, depVars, ending>>
  BY DEF StripDone
<1>2. UNCHANGED <<recipe, tree, strippable, busy, strips, moved>>
  BY <1>1 DEF fileVars
<1>3. /\ TreeKept' /\ GroupsHold' /\ InodesHold' /\ HalvesHold' /\ DebugLies'
      /\ FilesHold' /\ DependsHold' /\ ToStrip' = ToStrip /\ Stripping /\ Stripping'
  BY <1>1, <1>2, WorkersKeep
<1>4. StripsHold'
  BY <1>1, <1>2, <1>3 DEF StripsHold, PackInv
<1>5. QED
  BY <1>3, <1>4 DEF PackInv

-----------------------------------------------------------------------------
\* What a function makes of a finite set is finite.
LEMMA ImageFinite ==
  ASSUME NEW S, IsFiniteSet(S), NEW f, DOMAIN f = S
  PROVE  IsFiniteSet({f[x] : x \in S})
<1> DEFINE T == {f[x] : x \in S}
           g == [x \in S |-> f[x]]
<1>1. g \in Surjection(S, T)
  BY DEF Surjection
<1>2. QED
  BY <1>1, FS_Surjection

\* The groups stay while the recipe and the files to strip do.
LEMMA GroupsStay ==
  ASSUME GroupsHold, UNCHANGED <<recipe, strippable>>
  PROVE  GroupsHold'
<1>1. Installed' = Installed /\ Groups' = Groups
  BY DEF Installed, Groups
<1>2. \A f : WayOf(f)' = WayOf(f)
  BY DEF WayOf
<1>3. QED
  BY <1>1, <1>2 DEF GroupsHold

\* A path put in another directory.
LEMMA PutElsewhere ==
  ASSUME NEW p, p = [dir |-> p.dir, area |-> p.area, name |-> p.name], NEW d
  PROVE  [p EXCEPT !.dir = d] = [dir |-> d, area |-> p.area, name |-> p.name]
<1>1. ASSUME NEW a, NEW b, NEW c
      PROVE  [[dir |-> a, area |-> b, name |-> c] EXCEPT !.dir = d] = [dir |-> d, area |-> b, name |-> c]
  OBVIOUS
<1>2. QED
  BY <1>1

\* A directory is moved to a place where none is, no two to one place.
LEMMA FixupPermsKeeps == ASSUME PackInv, FixupPerms PROVE PackInv'
<1> DEFINE take == {m \in recipe.dirlinks : DirExists(tree, m[1]) /\ ~DirExists(tree, m[2])}
           to(d) == IF \E m \in take : m[1] = d THEN (CHOOSE m \in take : m[1] = d)[2] ELSE d
           new(p) == [p EXCEPT !.dir = to(p.dir)]
           links == {LinkTo(m[1]) : m \in take}
<1>1. /\ packing = "perms" /\ packing' = "locales"
      /\ UNCHANGED <<recipe, strippable, busy, strips, pkgVars, depVars, ending>>
      /\ moved' = [d \in {m[1] : m \in take} |-> to(d)]
      /\ tree' = [q \in {new(p) : p \in DOMAIN tree} \cup links |->
                     IF q \in links
                     THEN [ino |-> <<q, "link">>, what |-> NoName, link |-> LinkTo(to(q.name))]
                     ELSE tree[CHOOSE p \in DOMAIN tree : new(p) = q]]
  BY DEF FixupPerms
<1>2. /\ TreeKept /\ GroupsHold /\ InodesHold /\ StripsHold /\ DebugLies /\ Packable(recipe)
      /\ InPlace /\ ~InPlace' /\ Stripping /\ Stripping' /\ ~Handed /\ ~Handed'
  BY <1>1, PackAssumption DEF PackInv, TreeKept, InPlace, Stripping, Handed
<1>3. /\ moved = NoneYet /\ Installed \subseteq DOMAIN tree
      /\ \A p \in DOMAIN tree \ Installed : p.area # "" /\ \E q \in Installed : q.dir = p.dir
      /\ \A p \in DOMAIN tree : p = [dir |-> p.dir, area |-> p.area, name |-> p.name]
  BY <1>2 DEF TreeKept
<1>4. /\ \A m \in take : /\ m \in recipe.dirlinks /\ \E p \in DOMAIN tree : p.dir = m[1]
                         /\ \A p \in DOMAIN tree : p.dir # m[2]
      /\ \A m, n \in take : m[1] = n[1] \/ m[2] = n[2] => m = n
  BY <1>2 DEF Packable, DirExists
<1>5. \A m \in take : to(m[1]) = m[2]
  BY <1>4
<1>6. \A d : (\A m \in take : m[1] # d) => to(d) = d
  OBVIOUS
<1> HIDE DEF take, to
<1>7. \A p, q \in DOMAIN tree : to(p.dir) = to(q.dir) => p.dir = q.dir
  BY <1>4, <1>5, <1>6
<1>8. \A p \in DOMAIN tree :
         /\ new(p) = [dir |-> to(p.dir), area |-> p.area, name |-> p.name]
         /\ new(p).dir = to(p.dir) /\ new(p).area = p.area /\ new(p).name = p.name
  <2>1. ASSUME NEW p \in DOMAIN tree
        PROVE  new(p) = [dir |-> to(p.dir), area |-> p.area, name |-> p.name]
    BY <1>3, PutElsewhere
  <2> HIDE DEF new
  <2>2. QED
    BY <2>1
<1> HIDE DEF new
<1>9. ASSUME NEW p \in DOMAIN tree, NEW q \in DOMAIN tree, new(p) = new(q) PROVE p = q
  <2>1. to(p.dir) = to(q.dir) /\ p.area = q.area /\ p.name = q.name
    BY <1>8, <1>9
  <2>2. p.dir = q.dir
    BY <1>7, <2>1
  <2>3. QED
    BY <1>3, <2>1, <2>2
<1>10. \A l \in links : l.area = ""
  <2>1. \A m \in take : LinkTo(m[1]).area = ""
    BY DEF LinkTo
  <2>2. QED
    BY <2>1
<1>11. \A l \in links : l \notin Installed
  <2>1. ASSUME NEW m \in take, LinkTo(m[1]) \in Installed PROVE FALSE
    <3>1. PICK p \in DOMAIN tree : p.dir = m[1]
      BY <1>4
    <3>2. PICK q \in Installed : q.dir = m[1]
      BY <1>3, <3>1
    <3>3. \A a, b \in Installed : a # LinkTo(b.dir)
      BY <1>2 DEF Packable, Installed
    <3>4. QED
      BY <2>1, <3>2, <3>3
  <2>2. QED
    BY <2>1
<1>12. \A l \in links : \E m \in take : l = LinkTo(m[1]) /\ l.name = m[1] /\ LinkTo(to(l.name)) # NoName
                           /\ l = [dir |-> l.dir, area |-> l.area, name |-> l.name]
  <2>1. \A m \in take : LinkTo(m[2]) # NoName
    BY <1>2, <1>4 DEF Packable
  <2>2. ASSUME NEW m \in take
        PROVE  /\ LinkTo(m[1]).name = m[1] /\ LinkTo(to(m[1])) # NoName
               /\ LinkTo(m[1]) = [dir |-> LinkTo(m[1]).dir, area |-> LinkTo(m[1]).area,
                                  name |-> LinkTo(m[1]).name]
    <3>1. LinkTo(to(m[1])) # NoName
      BY <1>5, <2>1
    <3>2. QED
      BY <3>1 DEF LinkTo
  <2>3. \A l \in links : \E m \in take : l = LinkTo(m[1])
    OBVIOUS
  <2> HIDE DEF links
  <2>4. QED
    BY <2>2, <2>3
<1>13. DOMAIN tree' = {new(p) : p \in DOMAIN tree} \cup links
  BY <1>1
<1>14. \A l \in links : tree'[l].link # NoName
  BY <1>1, <1>12, <1>13
<1>15. \A p \in DOMAIN tree : new(p) \notin links => tree'[new(p)] = tree[p]
  <2>1. \A p \in DOMAIN tree : (CHOOSE q \in DOMAIN tree : new(q) = new(p)) = p
    BY <1>9
  <2> HIDE DEF links
  <2>2. QED
    BY <1>1, <2>1, <1>13
<1>16. \A p \in Installed \cap DOMAIN tree' : p = new(p) /\ tree'[p] = tree[p]
  <2>1. SUFFICES ASSUME NEW p \in Installed, p \in DOMAIN tree' PROVE p = new(p) /\ tree'[p] = tree[p]
    OBVIOUS
  <2>2. PICK r \in DOMAIN tree : p = new(r)
    BY <1>11, <1>13, <2>1
  <2>3. p \in DOMAIN tree /\ p.dir = to(r.dir)
    BY <1>3, <1>8, <2>2
  <2>4. \A m \in take : m[1] # r.dir
    BY <1>4, <1>5, <2>3
  <2>5. p = r
    BY <1>3, <1>6, <1>8, <2>2, <2>4
  <2>6. QED
    BY <1>11, <1>15, <2>2, <2>5
<1>17. IsFiniteSet(DOMAIN tree')
  <2>1. IsFiniteSet(DOMAIN tree)
    BY <1>2 DEF TreeKept
  <2>2. IsFiniteSet(take)
    BY <1>2, FS_Subset DEF Packable, take
  <2> DEFINE move == [p \in DOMAIN tree |-> new(p)]
             mark == [m \in take |-> LinkTo(m[1])]
  <2>3. IsFiniteSet({move[p] : p \in DOMAIN tree})
    <3>1. DOMAIN move = DOMAIN tree
      OBVIOUS
    <3> HIDE DEF move
    <3>2. QED
      BY <2>1, <3>1, ImageFinite
  <2>4. IsFiniteSet({mark[m] : m \in take})
    <3>1. DOMAIN mark = take
      OBVIOUS
    <3> HIDE DEF mark
    <3>2. QED
      BY <2>2, <3>1, ImageFinite
  <2>5. {move[p] : p \in DOMAIN tree} = {new(p) : p \in DOMAIN tree} /\ {mark[m] : m \in take} = links
    OBVIOUS
  <2> HIDE DEF move, mark, links
  <2>6. IsFiniteSet({new(p) : p \in DOMAIN tree}) /\ IsFiniteSet(links)
    BY <2>3, <2>4, <2>5
  <2>7. QED
    BY <1>13, <2>6, FS_Union
<1> HIDE DEF links
<1>18. /\ Installed' = Installed /\ Groups' = Groups
       /\ UNCHANGED <<recipe, strippable, strips, ending>> /\ ~InPlace'
  BY <1>1, <1>2 DEF Installed, Groups
<1>19. TreeKept'
  <2>1. recipe' \in Recipes
    BY <1>1, <1>2 DEF TreeKept
  <2>2. ASSUME NEW q \in DOMAIN tree'
        PROVE  /\ q = [dir |-> q.dir, area |-> q.area, name |-> q.name]
               /\ tree'[q].link = NoName => tree'[q].what \in DOMAIN recipe.data
    <3>1. CASE q \in links
      BY <1>12, <1>14, <3>1
    <3>2. CASE q \notin links
      <4>1. PICK p \in DOMAIN tree : q = new(p)
        BY <1>13, <3>2
      <4>2. tree'[q] = tree[p]
        BY <1>15, <3>2, <4>1
      <4>3. tree[p].link = NoName => tree[p].what \in DOMAIN recipe.data
        BY <1>2 DEF TreeKept
      <4>4. QED
        BY <1>8, <4>1, <4>2, <4>3
    <3>3. QED
      BY <3>1, <3>2
  <2>3. \A p \in Installed \cap DOMAIN tree' :
           tree'[p].what = recipe.install[p].what /\ tree'[p].link = recipe.install[p].link
    BY <1>2, <1>3, <1>16 DEF TreeKept
  <2>4. \A d \in DOMAIN moved' : LinkTo(d) \in DOMAIN tree'
    BY <1>1, <1>13 DEF links
  <2>5. QED
    BY <1>17, <1>18, <2>1, <2>2, <2>3, <2>4 DEF TreeKept
<1>20. GroupsHold'
  BY <1>1, <1>2, GroupsStay
<1>21. InodesHold'
  <2>1. \A f \in Groups : \A p \in strippable.group[f] : p \in Installed /\ f \in Installed
    BY <1>2 DEF GroupsHold
  <2>2. \A p \in Installed \cap DOMAIN tree' : p \in DOMAIN tree /\ tree'[p].ino = tree[p].ino
    BY <1>3, <1>16
  <2>3. \A f \in Groups : \A p \in strippable.group[f] :
           p \in DOMAIN tree' /\ f \in DOMAIN tree' => tree'[p].ino = tree'[f].ino
    BY <1>2, <2>1, <2>2 DEF InodesHold
  <2>4. \A p \in Installed \cap DOMAIN tree' :
           (\A f \in Groups : p \notin strippable.group[f]) => tree'[p].ino = recipe.install[p].ino
    BY <1>2, <2>2 DEF InodesHold
  <2>5. \A p \in Installed : recipe.install[p].ino \in DOMAIN strips
    BY <1>2 DEF InodesHold
  <2>6. QED
    BY <1>18, <2>3, <2>4, <2>5 DEF InodesHold
<1>22. StripsHold'
  <2>1. busy = {}
    BY <1>1, <1>2 DEF StripsHold
  <2>2. QED
    BY <1>1, <1>2, <2>1 DEF StripsHold
<1>23. DebugLies'
  <2>1. \A f, p : (Rival(f, p)' <=> Rival(f, p)) /\ WayOf(f)' = WayOf(f)
    BY <1>1 DEF Rival, WayOf
  <2>2. ASSUME NEW f, NEW p PROVE HalfOf(f, p) = Beside(p, "debug", f.name)
    <3>1. p.dir \notin DOMAIN moved
      BY <1>3 DEF NoneYet
    <3>2. Beside(p, "debug", f.name).dir = p.dir
      BY DEF Beside
    <3>3. HalfOf(f, p) = [Beside(p, "debug", f.name) EXCEPT !.dir = p.dir]
      BY <3>1 DEF HalfOf
    <3>4. QED
      BY <3>3 DEF Beside
  <2>3. ASSUME NEW f, NEW p
        PROVE  HalfOf(f, p)' = [dir |-> to(p.dir), area |-> "debug", name |-> f.name]
    <3>1. p.dir \in DOMAIN moved' => moved'[p.dir] = to(p.dir)
      BY <1>1
    <3>2. p.dir \notin DOMAIN moved' => to(p.dir) = p.dir
      BY <1>1, <1>6
    <3>3. QED
      BY <3>1, <3>2 DEF HalfOf, Beside
  <2>4. ASSUME NEW f, NEW p, HalfOf(f, p) \in DOMAIN tree
        PROVE  HalfOf(f, p)' \in DOMAIN tree' /\ tree'[HalfOf(f, p)'] = tree[HalfOf(f, p)]
    <3> DEFINE d == HalfOf(f, p)
    <3>1. d.dir = p.dir /\ d.area = "debug" /\ d.name = f.name
      BY <2>2 DEF Beside
    <3>2. new(d) = HalfOf(f, p)' /\ new(d).area = "debug"
      BY <1>8, <2>3, <2>4, <3>1
    <3>3. new(d) \notin links
      BY <1>10, <3>2 DEF links
    <3>4. QED
      BY <1>13, <1>15, <2>4, <3>2, <3>3
  <2>5. ASSUME recipe.debugsplit, NEW f \in strippable.elf, NEW p \in strippable.group[f],
               WayOf(f) # "signed", ~Rival(f, p)
        PROVE  HalfOf(f, p) \in DOMAIN tree /\ tree[HalfOf(f, p)].what = recipe.install[f].what
    <3>1. packing \notin {"select", "split", "hardlinks"} /\ ending = "ok"
      BY <1>1 DEF PackInv, DependsHold
    <3>2. QED
      BY <1>2, <2>5, <3>1 DEF DebugLies
  <2>6. SUFFICES ASSUME recipe.debugsplit, NEW f \in strippable.elf, NEW p \in strippable.group[f],
               WayOf(f) # "signed", ~Rival(f, p)
        PROVE  HalfOf(f, p)' \in DOMAIN tree' /\ tree'[HalfOf(f, p)'].what = recipe.install[f].what
    BY <1>18, <2>1 DEF DebugLies
  <2>7. QED
    BY <2>4, <2>5, <2>6
<1>24. FilesHold' /\ DependsHold'
  BY <1>1, <1>2, ListsStay
<1>25. HalvesHold'
  BY <1>1 DEF HalvesHold
<1>26. QED
  BY <1>19, <1>20, <1>21, <1>22, <1>23, <1>24, <1>25 DEF PackInv

-----------------------------------------------------------------------------
\* The paths of the pairs.
Paths(pairs) == {x[1] : x \in pairs}

\* What is laid over a tree: a path of the tree keeps its node, another has
\* that of a pair.
Laid(t, pairs) ==
    /\ DOMAIN AddNodes(t, pairs) = DOMAIN t \cup Paths(pairs)
    /\ \A p \in DOMAIN t : AddNodes(t, pairs)[p] = t[p]
    /\ \A x \in pairs : x[1] \notin DOMAIN t =>
          \E y \in pairs : y[1] = x[1] /\ AddNodes(t, pairs)[x[1]] = y[2]

LEMMA LaidOver == ASSUME NEW t, NEW pairs PROVE Laid(t, pairs)
<1> DEFINE D == DOMAIN t \cup Paths(pairs)
<1>1. AddNodes(t, pairs) =
         [p \in D |-> IF p \in DOMAIN t THEN t[p] ELSE (CHOOSE x \in pairs : x[1] = p)[2]]
  BY DEF AddNodes, Paths
<1>2. DOMAIN AddNodes(t, pairs) = D /\ \A p \in DOMAIN t : AddNodes(t, pairs)[p] = t[p]
  BY <1>1
<1>3. ASSUME NEW x \in pairs, x[1] \notin DOMAIN t
      PROVE  \E y \in pairs : y[1] = x[1] /\ AddNodes(t, pairs)[x[1]] = y[2]
  <2>1. x[1] \in D
    BY DEF Paths
  <2>2. AddNodes(t, pairs)[x[1]] = (CHOOSE y \in pairs : y[1] = x[1])[2]
    BY <1>1, <1>3, <2>1
  <2>3. QED
    BY <2>2
<1>4. QED
  BY <1>2, <1>3 DEF Laid

\* A pair that may be laid over the tree: a debug half, beside a file.
IsHalf(x) ==
    /\ x[1] = [dir |-> x[1].dir, area |-> x[1].area, name |-> x[1].name]
    /\ x[1].area # "" /\ \E q \in Installed : q.dir = x[1].dir
    /\ x[2].link = NoName => x[2].what \in DOMAIN recipe.data

\* The files are what they were when debug halves are laid beside them.
LEMMA HalvesLaid ==
  ASSUME PackInv, InPlace, InPlace', ~Handed, ~Handed', ~Stripping, ~Stripping',
         packing \notin {"shlibs", "pkgconfig", "libdeps", "depchains", "done"},
         UNCHANGED <<recipe, strippable, busy, strips, moved, pkgVars, depVars, ending>>,
         NEW pairs, tree' = AddNodes(tree, pairs), \A x \in pairs : IsHalf(x),
         IsFiniteSet(Paths(pairs))
  PROVE  TreeKept' /\ GroupsHold' /\ InodesHold' /\ StripsHold' /\ FilesHold' /\ DependsHold'
<1>1. /\ TreeKept /\ GroupsHold /\ InodesHold /\ StripsHold /\ Packable(recipe)
  BY PackAssumption DEF PackInv, TreeKept
<1>2. /\ moved = NoneYet /\ Installed \subseteq DOMAIN tree
      /\ \A p \in DOMAIN tree \ Installed : p.area # "" /\ \E q \in Installed : q.dir = p.dir
      /\ \A p \in DOMAIN tree : p = [dir |-> p.dir, area |-> p.area, name |-> p.name]
  BY <1>1 DEF TreeKept
<1>3. /\ DOMAIN tree' = DOMAIN tree \cup Paths(pairs)
      /\ \A p \in DOMAIN tree : tree'[p] = tree[p]
      /\ \A x \in pairs : x[1] \notin DOMAIN tree =>
            \E y \in pairs : y[1] = x[1] /\ tree'[x[1]] = y[2]
  <2>1. Laid(tree, pairs)
    BY LaidOver, Zenon
  <2>2. QED
    BY <2>1 DEF Laid
<1>4. /\ Installed' = Installed /\ Groups' = Groups
      /\ UNCHANGED <<recipe, strippable, strips, busy, moved, ending>>
  BY DEF Installed, Groups
<1>5. \A p \in Installed : p \in DOMAIN tree /\ p \in DOMAIN tree' /\ tree'[p] = tree[p]
  BY <1>2, <1>3
<1>6. TreeKept'
  <2>1. recipe' \in Recipes /\ IsFiniteSet(DOMAIN tree')
    <3>1. IsFiniteSet(DOMAIN tree)
      BY <1>1 DEF TreeKept
    <3>2. IsFiniteSet(DOMAIN tree \cup Paths(pairs))
      BY <3>1, FS_Union, Zenon
    <3>3. QED
      BY <1>1, <1>3, <1>4, <3>2 DEF TreeKept
  <2>2. ASSUME NEW q \in DOMAIN tree'
        PROVE  /\ q = [dir |-> q.dir, area |-> q.area, name |-> q.name]
               /\ tree'[q].link = NoName => tree'[q].what \in DOMAIN recipe.data
               /\ q \notin Installed => q.area # "" /\ \E r \in Installed : r.dir = q.dir
    <3>1. CASE q \in DOMAIN tree
      BY <1>1, <1>2, <1>3, <3>1 DEF TreeKept
    <3>2. CASE q \notin DOMAIN tree
      <4>1. PICK x \in pairs : x[1] = q /\ tree'[q] = x[2]
        BY <1>3, <3>2 DEF Paths
      <4>2. IsHalf(x)
        OBVIOUS
      <4>3. QED
        BY <4>1, <4>2 DEF IsHalf
    <3>3. QED
      BY <3>1, <3>2
  <2>3. \A p \in Installed \cap DOMAIN tree' :
           tree'[p].what = recipe.install[p].what /\ tree'[p].link = recipe.install[p].link
    BY <1>1, <1>5 DEF TreeKept
  <2>4. \A d \in DOMAIN moved' : LinkTo(d) \in DOMAIN tree'
    BY <1>1, <1>3, <1>4 DEF TreeKept
  <2>5. Installed \subseteq DOMAIN tree'
    BY <1>5
  <2>6. QED
    BY <1>2, <1>4, <2>1, <2>2, <2>3, <2>4, <2>5 DEF TreeKept
<1>7. GroupsHold'
  BY <1>1, <1>4, GroupsStay
<1>8. InodesHold'
  <2>1. \A f \in Groups : f \in Installed /\ strippable.group[f] \subseteq Installed
    BY <1>1 DEF GroupsHold
  <2>2. \A f, i : Alone(f, i)' <=> Alone(f, i)
    BY <1>4 DEF Alone
  <2>3. \A f \in Groups : \A p \in strippable.group[f] :
           p \in DOMAIN tree' /\ f \in DOMAIN tree' => tree'[p].ino = tree'[f].ino
    BY <1>1, <1>5, <2>1 DEF InodesHold
  <2>4. \A f \in Groups : Alone(f, tree'[f].ino) /\ tree'[f].ino \in DOMAIN strips
    BY <1>1, <1>5, <2>1 DEF InodesHold
  <2>5. \A p \in Installed \cap DOMAIN tree' :
           (\A f \in Groups : p \notin strippable.group[f]) => tree'[p].ino = recipe.install[p].ino
    BY <1>1, <1>5 DEF InodesHold
  <2>6. \A p \in Installed : recipe.install[p].ino \in DOMAIN strips
    BY <1>1 DEF InodesHold
  <2>7. QED
    BY <1>4, <2>2, <2>3, <2>4, <2>5, <2>6 DEF InodesHold
<1>9. StripsHold'
  <2>1. packing # "strip" /\ packing' # "strip"
    BY DEF Stripping
  <2>2. busy = {}
    BY <1>1, <2>1 DEF StripsHold
  <2>3. QED
    BY <1>1, <1>4, <2>2 DEF StripsHold
<1>10. FilesHold' /\ DependsHold'
  BY ListsStay
<1>11. QED
  BY <1>6, <1>7, <1>8, <1>9, <1>10

LEMMA SplitDebugKeeps == ASSUME PackInv, SplitDebug PROVE PackInv'
<1>1. /\ packing = "split"
      /\ UNCHANGED <<recipe, strippable, busy, strips, moved, pkgVars, depVars, ending>>
      /\ \/ recipe.debugsplit /\ tree' = AddNodes(tree, Halves) /\ packing' = "hardlinks"
         \/ ~recipe.debugsplit /\ tree' = tree /\ packing' = "strip"
  BY DEF SplitDebug
<1>2. /\ TreeKept /\ GroupsHold /\ StripsHold /\ HalvesHold /\ Packable(recipe)
      /\ InPlace /\ InPlace' /\ ~Handed /\ ~Handed' /\ ~Stripping
  BY <1>1, PackAssumption DEF PackInv, TreeKept, InPlace, Handed, Stripping
<1>3. CASE ~recipe.debugsplit
  <2>1. TreeKept' /\ GroupsHold' /\ InodesHold'
    BY <1>1, <1>2, <1>3, TreeStays
  <2>2. FilesHold' /\ DependsHold'
    BY <1>1, <1>2, <1>3, ListsStay
  <2>3. StripsHold'
    <3>1. ToStrip' = ToStrip /\ busy = {}
      BY <1>1, <1>2 DEF ToStrip, StripsHold
    <3>2. QED
      BY <1>1, <1>2, <1>3, <3>1 DEF StripsHold
  <2>4. HalvesHold' /\ DebugLies'
    BY <1>1, <1>3 DEF HalvesHold, DebugLies
  <2>5. QED
    BY <2>1, <2>2, <2>3, <2>4 DEF PackInv
<1>4. CASE recipe.debugsplit
  <2>1. packing' = "hardlinks" /\ tree' = AddNodes(tree, Halves) /\ ~Stripping'
    BY <1>1, <1>4 DEF Stripping
  <2>2. /\ DOMAIN tree = Installed
        /\ \A p \in Installed : p = [dir |-> p.dir, area |-> "", name |-> p.name] /\ p.area = ""
    <3>1. \A p \in Installed : p = [dir |-> p.dir, area |-> "", name |-> p.name]
      BY <1>2 DEF Packable, Installed
    <3>2. \A p \in Installed : p.area = ""
      <4>1. \A a, b : [dir |-> a, area |-> "", name |-> b].area = ""
        OBVIOUS
      <4>2. SUFFICES ASSUME NEW p \in Installed PROVE p.area = ""
        OBVIOUS
      <4>3. PICK a, b : p = [dir |-> a, area |-> "", name |-> b]
        BY <3>1
      <4>4. QED
        BY <4>1, <4>3
    <3>3. DOMAIN tree = Installed
      BY <1>1, <1>2 DEF HalvesHold
    <3>4. QED
      BY <3>1, <3>2, <3>3
  <2>3. \A p \in Groups : p \in Installed /\ tree[p].what = recipe.install[p].what
                          /\ tree[p].what \in DOMAIN recipe.data /\ FileKind(p) = WayOf(p)
    <3>1. SUFFICES ASSUME NEW p \in Groups
          PROVE  /\ p \in Installed /\ tree[p].what = recipe.install[p].what
                 /\ tree[p].what \in DOMAIN recipe.data /\ FileKind(p) = WayOf(p)
      OBVIOUS
    <3>2. p \in Installed /\ recipe.install[p].link = NoName
      BY <1>2 DEF GroupsHold
    <3>3. tree[p].what = recipe.install[p].what /\ tree[p].link = NoName
      BY <1>2, <2>2, <3>2 DEF TreeKept
    <3>4. tree[p].what \in DOMAIN recipe.data
      BY <1>2, <2>2, <3>2, <3>3 DEF TreeKept
    <3>5. QED
      BY <3>2, <3>3, <3>4 DEF FileKind, WayOf
  <2>4. ASSUME NEW x \in Halves
        PROVE  \E p \in Groups : \E a \in {"debug", "static"} :
                  /\ x[1] = Beside(p, a, p.name) /\ x[2].what = tree[p].what
                  /\ a = "debug" => p \in strippable.elf /\ WayOf(p) # "signed"
    <3>1. CASE \E p \in {q \in strippable.elf : FileKind(q) # "signed"} :
                  x = <<Beside(p, "debug", p.name), DebugHalf(p, "debug")>>
      <4>1. PICK p \in {q \in strippable.elf : FileKind(q) # "signed"} :
                  x = <<Beside(p, "debug", p.name), DebugHalf(p, "debug")>>
        BY <3>1
      <4>2. p \in Groups /\ WayOf(p) # "signed"
        BY <1>2, <2>3, <4>1 DEF GroupsHold
      <4>3. x[1] = Beside(p, "debug", p.name) /\ x[2].what = tree[p].what
        BY <4>1 DEF DebugHalf
      <4>4. QED
        BY <4>1, <4>2, <4>3
    <3>2. CASE \E p \in strippable.static :
                  x = <<Beside(p, "static", p.name), DebugHalf(p, "static")>>
      <4>1. PICK p \in strippable.static :
                  x = <<Beside(p, "static", p.name), DebugHalf(p, "static")>>
        BY <3>2
      <4>2. p \in Groups
        BY <1>2, <4>1 DEF GroupsHold
      <4>3. x[1] = Beside(p, "static", p.name) /\ x[2].what = tree[p].what
        BY <4>1 DEF DebugHalf
      <4>4. QED
        BY <4>2, <4>3
    <3>3. QED
      BY <2>4, <3>1, <3>2 DEF Halves
  <2>5. \A p, a, n : /\ Beside(p, a, n).dir = p.dir /\ Beside(p, a, n).area = a /\ Beside(p, a, n).name = n
                     /\ Beside(p, a, n) = [dir |-> p.dir, area |-> a, name |-> n]
    BY DEF Beside
  <2>6. \A x \in Halves : IsHalf(x)
    <3>1. SUFFICES ASSUME NEW x \in Halves PROVE IsHalf(x)
      OBVIOUS
    <3>2. PICK p \in Groups, a \in {"debug", "static"} :
             x[1] = Beside(p, a, p.name) /\ x[2].what = tree[p].what
      BY <2>4
    <3>3. x[1].dir = p.dir /\ x[1].area = a /\ x[1] = [dir |-> p.dir, area |-> a, name |-> x[1].name]
      BY <2>5, <3>2
    <3>4. x[2].what \in DOMAIN recipe.data /\ p \in Installed
      BY <2>3, <3>2
    <3>5. QED
      BY <3>3, <3>4 DEF IsHalf
  <2>7. IsFiniteSet(Paths(Halves))
    <3> DEFINE d == [p \in Installed |-> Beside(p, "debug", p.name)]
               s == [p \in Installed |-> Beside(p, "static", p.name)]
               S == {d[p] : p \in Installed}
               T == {s[p] : p \in Installed}
    <3>1. IsFiniteSet(Installed) /\ DOMAIN d = Installed /\ DOMAIN s = Installed
      BY <1>2 DEF Packable, Installed
    <3>2. \A p \in Installed : d[p] = Beside(p, "debug", p.name) /\ s[p] = Beside(p, "static", p.name)
      OBVIOUS
    <3> HIDE DEF d, s
    <3>3. IsFiniteSet(S) /\ IsFiniteSet(T)
      BY <3>1, ImageFinite
    <3>4. \A x \in Halves : x[1] \in S \cup T
      BY <2>3, <2>4, <3>2
    <3> HIDE DEF S, T
    <3>5. IsFiniteSet(S \cup T)
      BY <3>3, FS_Union
    <3>6. QED
      BY <3>4, <3>5, FS_Subset DEF Paths
  <2>8. TreeKept' /\ GroupsHold' /\ InodesHold' /\ StripsHold' /\ FilesHold' /\ DependsHold'
    BY <1>1, <1>2, <2>1, <2>6, <2>7, HalvesLaid
  <2>9. /\ DOMAIN tree' = DOMAIN tree \cup Paths(Halves)
        /\ \A x \in Halves : x[1] \notin DOMAIN tree =>
              \E y \in Halves : y[1] = x[1] /\ tree'[x[1]] = y[2]
    <3>1. Laid(tree, Halves)
      BY LaidOver, Zenon
    <3>2. QED
      BY <2>1, <3>1 DEF Laid
  <2>10. \A f \in strippable.elf : f \in Groups
    BY <1>2 DEF GroupsHold
  <2>11. ASSUME NEW f \in strippable.elf, WayOf(f) # "signed"
         PROVE  LET d == Beside(f, "debug", f.name)
                IN  d \in DOMAIN tree' /\ tree'[d].what = recipe.install[f].what
    <3> DEFINE x == <<Beside(f, "debug", f.name), DebugHalf(f, "debug")>>
    <3>1. x \in Halves /\ x[1] = Beside(f, "debug", f.name)
      BY <2>3, <2>10, <2>11 DEF Halves
    <3> HIDE DEF x
    <3>2. x[1].area = "debug" /\ x[1] \notin DOMAIN tree
      <4>1. x[1].area = "debug"
        BY <2>5, <3>1
      <4>2. "debug" # ""
        OBVIOUS
      <4>3. QED
        BY <2>2, <4>1, <4>2
    <3>3. PICK y \in Halves : y[1] = x[1] /\ tree'[x[1]] = y[2]
      BY <2>9, <3>1, <3>2
    <3>4. PICK p \in Groups, a \in {"debug", "static"} :
             y[1] = Beside(p, a, p.name) /\ y[2].what = tree[p].what
      BY <2>4
    <3>5. p.dir = f.dir /\ p.name = f.name
      BY <2>5, <3>1, <3>3, <3>4
    <3>6. p = f
      BY <2>2, <2>3, <2>10, <3>5
    <3>7. x[1] \in DOMAIN tree'
      BY <2>9, <3>1 DEF Paths
    <3>8. QED
      BY <2>3, <2>10, <3>1, <3>3, <3>4, <3>6, <3>7
  <2>12. ASSUME NEW d \in DOMAIN tree', d.area = "debug"
         PROVE  \E f \in strippable.elf : WayOf(f) # "signed" /\ d = Beside(f, "debug", f.name)
    <3>1. d \notin DOMAIN tree
      BY <2>2, <2>12
    <3>2. PICK x \in Halves : x[1] = d
      BY <2>9, <2>12, <3>1 DEF Paths
    <3>3. PICK p \in Groups, a \in {"debug", "static"} :
             x[1] = Beside(p, a, p.name) /\ (a = "debug" => p \in strippable.elf /\ WayOf(p) # "signed")
      BY <2>4
    <3>4. a = "debug"
      BY <2>5, <2>12, <3>2, <3>3
    <3>5. QED
      BY <3>2, <3>3, <3>4
  <2>13. \A f : WayOf(f)' = WayOf(f)
    BY <1>1 DEF WayOf
  <2>14. UNCHANGED <<recipe, strippable>>
    BY <1>1
  <2>15. \A p, a, n : Beside(p, a, n)' = Beside(p, a, n)
    BY DEF Beside
  <2>16. HalvesHold'
    BY <1>4, <2>1, <2>11, <2>12, <2>13, <2>14 DEF HalvesHold
  <2>17. DebugLies'
    BY <2>1 DEF DebugLies
  <2>18. QED
    BY <2>8, <2>16, <2>17 DEF PackInv
<1>5. QED
  BY <1>3, <1>4

-----------------------------------------------------------------------------
\* No other binary of that name has a link in the directory: the half that
\* comes to lie there is this one's.
LEMMA LinkDebugKeeps == ASSUME PackInv, LinkDebug PROVE PackInv'
<1> DEFINE half(f) == Beside(f, "debug", f.name)
           archive(f) == Beside(f, "static", f.name)
           wanted(f, p) ==
              IF half(f) \in DOMAIN tree THEN {<<Beside(p, "debug", DebugName(f, p)), tree[half(f)]>>}
              ELSE IF recipe.staticsplit /\ archive(f) \in DOMAIN tree
                   THEN {<<Beside(p, "static", p.name), tree[archive(f)]>>} ELSE {}
           order == {f \in DOMAIN strippable.group : Cardinality(strippable.group[f]) > 1}
           by(f) == UNION {wanted(f, p) : p \in strippable.group[f] \ {f}}
           earlier(f) == {g \in order : PathPosition(g) < PathPosition(f)}
           taken(f) == UNION {{x[1] : x \in by(g)} : g \in earlier(f)}
<1>1. /\ packing = "hardlinks" /\ packing' = "symlinks" /\ tree' = AddNodes(tree, LinkedHalves)
      /\ UNCHANGED <<recipe, strippable, busy, strips, moved, pkgVars, depVars, ending>>
  BY DEF LinkDebug
<1>2. LinkedHalves = UNION {{x \in by(f) : x[1] \notin taken(f)} : f \in order}
  BY DEF LinkedHalves
<1>3. /\ TreeKept /\ GroupsHold /\ HalvesHold /\ Packable(recipe)
      /\ InPlace /\ InPlace' /\ ~Handed /\ ~Handed' /\ ~Stripping /\ ~Stripping'
  BY <1>1, PackAssumption DEF PackInv, TreeKept, InPlace, Handed, Stripping
<1>4. \A p, a, n : /\ Beside(p, a, n).dir = p.dir /\ Beside(p, a, n).area = a /\ Beside(p, a, n).name = n
                   /\ Beside(p, a, n) = [dir |-> p.dir, area |-> a, name |-> n]
  BY DEF Beside
<1>5. \A f \in Groups : f \in Installed /\ f \in strippable.group[f]
                        /\ strippable.group[f] \subseteq Installed
  BY <1>3 DEF GroupsHold
<1>6. \A p, q \in Installed : p.dir = q.dir /\ p.name = q.name => p = q
  <2>1. \A p \in Installed : p = [dir |-> p.dir, area |-> "", name |-> p.name]
    BY <1>3 DEF Packable, Installed
  <2>2. SUFFICES ASSUME NEW p \in Installed, NEW q \in Installed, p.dir = q.dir, p.name = q.name
                 PROVE  p = q
    OBVIOUS
  <2>3. [dir |-> p.dir, area |-> "", name |-> p.name] = [dir |-> q.dir, area |-> "", name |-> q.name]
    BY <2>2
  <2>4. QED
    BY <2>1, <2>3
<1>7. ASSUME NEW f \in Groups, NEW p \in strippable.group[f], NEW x \in wanted(f, p)
      PROVE  \/ half(f) \in DOMAIN tree /\ x[1] = Beside(p, "debug", f.name) /\ x[2] = tree[half(f)]
             \/ archive(f) \in DOMAIN tree /\ x[1] = Beside(p, "static", p.name) /\ x[2] = tree[archive(f)]
  BY <1>7 DEF DebugName
<1>8. ASSUME NEW f \in Groups, NEW p \in strippable.group[f], half(f) \in DOMAIN tree
      PROVE  <<Beside(p, "debug", f.name), tree[half(f)]>> \in wanted(f, p)
  BY <1>8 DEF DebugName
<1>9. order = {f \in Groups : Cardinality(strippable.group[f]) > 1}
  BY DEF Groups
<1> HIDE DEF half, archive, wanted, order
<1>10. \A x \in LinkedHalves : \E f \in Groups : \E p \in strippable.group[f] : x \in wanted(f, p)
  BY <1>2, <1>9
<1>11. \A f \in order : \A x \in by(f) : x[1] \notin taken(f) => x \in LinkedHalves
  BY <1>2
<1>12. \A f : \A x \in taken(f) : \E g \in earlier(f) : \E y \in by(g) : y[1] = x
  OBVIOUS
<1>13. \A x \in LinkedHalves : IsHalf(x)
  <2>1. SUFFICES ASSUME NEW x \in LinkedHalves PROVE IsHalf(x)
    OBVIOUS
  <2>2. PICK f \in Groups : \E p \in strippable.group[f] : x \in wanted(f, p)
    BY <1>10
  <2> PICK p \in strippable.group[f] : x \in wanted(f, p)
    BY <2>2
  <2>3. p \in Installed
    BY <1>5
  <2>4. ASSUME NEW a \in {"debug", "static"}, NEW n, NEW d \in DOMAIN tree,
               x[1] = Beside(p, a, n), x[2] = tree[d]
        PROVE  IsHalf(x)
    <3>1. x[1].dir = p.dir /\ x[1].area = a /\ x[1] = [dir |-> p.dir, area |-> a, name |-> x[1].name]
      BY <1>4, <2>4
    <3>2. tree[d].link = NoName => tree[d].what \in DOMAIN recipe.data
      BY <1>3 DEF TreeKept
    <3>3. QED
      BY <2>3, <2>4, <3>1, <3>2 DEF IsHalf
  <2>5. CASE half(f) \in DOMAIN tree /\ x[1] = Beside(p, "debug", f.name) /\ x[2] = tree[half(f)]
    BY <2>4, <2>5
  <2>6. CASE archive(f) \in DOMAIN tree /\ x[1] = Beside(p, "static", p.name) /\ x[2] = tree[archive(f)]
    BY <2>4, <2>6
  <2>7. QED
    BY <1>7, <2>5, <2>6
<1>14. IsFiniteSet(Paths(LinkedHalves))
  <2> DEFINE D == Installed \X Installed
             d == [z \in D |-> Beside(z[1], "debug", z[2].name)]
             s == [z \in D |-> Beside(z[1], "static", z[2].name)]
             S == {d[z] : z \in D}
             T == {s[z] : z \in D}
  <2>1. IsFiniteSet(Installed)
    BY <1>3 DEF Packable, Installed
  <2>2. IsFiniteSet(D)
    BY <2>1, FS_Product, Zenon
  <2>3. \A p, q \in Installed : /\ <<p, q>> \in D /\ d[<<p, q>>] = Beside(p, "debug", q.name)
                                /\ s[<<p, q>>] = Beside(p, "static", q.name)
    OBVIOUS
  <2>4. DOMAIN d = D /\ DOMAIN s = D
    OBVIOUS
  <2> HIDE DEF D, d, s
  <2>5. IsFiniteSet(S) /\ IsFiniteSet(T)
    BY <2>2, <2>4, ImageFinite
  <2>6. ASSUME NEW p \in Installed, NEW q \in Installed
        PROVE  Beside(p, "debug", q.name) \in S /\ Beside(p, "static", q.name) \in T
    BY <2>3
  <2> HIDE DEF S, T
  <2>7. \A x \in LinkedHalves : x[1] \in S \cup T
    <3>1. SUFFICES ASSUME NEW x \in LinkedHalves PROVE x[1] \in S \cup T
      OBVIOUS
    <3>2. PICK f \in Groups : \E p \in strippable.group[f] : x \in wanted(f, p)
      BY <1>10
    <3> PICK p \in strippable.group[f] : x \in wanted(f, p)
      BY <3>2
    <3>3. f \in Installed /\ p \in Installed
      BY <1>5
    <3>4. x[1] = Beside(p, "debug", f.name) \/ x[1] = Beside(p, "static", p.name)
      BY <1>7, <3>2
    <3>5. QED
      BY <2>6, <3>3, <3>4
  <2>8. IsFiniteSet(S \cup T)
    BY <2>5, FS_Union, Zenon
  <2>9. QED
    BY <2>7, <2>8, FS_Subset DEF Paths
<1>15. TreeKept' /\ GroupsHold' /\ InodesHold' /\ StripsHold' /\ FilesHold' /\ DependsHold'
  BY <1>1, <1>3, <1>13, <1>14, HalvesLaid
<1>16. /\ DOMAIN tree' = DOMAIN tree \cup Paths(LinkedHalves)
       /\ \A p \in DOMAIN tree : tree'[p] = tree[p]
       /\ \A x \in LinkedHalves : x[1] \notin DOMAIN tree =>
             \E y \in LinkedHalves : y[1] = x[1] /\ tree'[x[1]] = y[2]
  <2>1. Laid(tree, LinkedHalves)
    BY LaidOver, Zenon
  <2>2. QED
    BY <1>1, <2>1 DEF Laid
<1>17. HalvesHold'
  BY <1>1 DEF HalvesHold
<1>18. ASSUME recipe.debugsplit, NEW f \in strippable.elf, NEW p \in strippable.group[f],
              WayOf(f) # "signed", ~Rival(f, p)
       PROVE  LET h == Beside(p, "debug", f.name)
              IN  h \in DOMAIN tree' /\ tree'[h].what = recipe.install[f].what
  <2> DEFINE h == Beside(p, "debug", f.name)
  <2>1. f \in Groups /\ f \in Installed /\ p \in Installed
    BY <1>3, <1>5 DEF GroupsHold
  <2>2. half(f) \in DOMAIN tree /\ tree[half(f)].what = recipe.install[f].what
    BY <1>1, <1>3, <1>18 DEF HalvesHold, half
  <2>3. h.dir = p.dir /\ h.area = "debug" /\ h.name = f.name
    BY <1>4
  <2>4. \A g \in strippable.elf : \A q \in strippable.group[g] : q.dir = p.dir /\ g.name = f.name => g = f
    BY <1>18 DEF Rival
  <2>5. \A d \in DOMAIN tree : d.area = "debug" =>
           \E g \in strippable.elf : g \in Groups /\ d.dir = g.dir /\ d.name = g.name
    <3>1. \A g \in strippable.elf : g \in Groups
      BY <1>3 DEF GroupsHold
    <3>2. QED
      BY <1>1, <1>3, <1>4, <3>1 DEF HalvesHold
  <2> HIDE DEF h
  <2>6. CASE h \in DOMAIN tree
    <3>1. PICK g \in strippable.elf : g \in Groups /\ h.dir = g.dir /\ h.name = g.name
      BY <2>3, <2>5, <2>6
    <3>2. g = f
      BY <1>5, <2>3, <2>4, <3>1
    <3>3. h = half(f)
      BY <2>3, <3>1, <3>2 DEF half, h, Beside
    <3>4. QED
      BY <1>16, <2>2, <2>6, <3>3 DEF h
  <2>7. CASE h \notin DOMAIN tree
    <3>1. p # f
      BY <2>2, <2>7 DEF half, h
    <3>2. ASSUME NEW g \in Groups, NEW q \in strippable.group[g], NEW x \in wanted(g, q), x[1] = h
          PROVE  g = f /\ x[2] = tree[half(f)]
      <4>1. x[1] = Beside(q, "debug", g.name) /\ half(g) \in DOMAIN tree /\ x[2] = tree[half(g)]
        <5>1. \/ half(g) \in DOMAIN tree /\ x[1] = Beside(q, "debug", g.name) /\ x[2] = tree[half(g)]
              \/ x[1] = Beside(q, "static", q.name)
          BY <1>7
        <5>2. x[1] # Beside(q, "static", q.name)
          BY <1>4, <2>3, <3>2
        <5>3. QED
          BY <5>1, <5>2
      <4>2. q.dir = p.dir /\ g.name = f.name
        BY <1>4, <2>3, <3>2, <4>1
      <4>3. half(g).area = "debug" /\ half(g).dir = g.dir /\ half(g).name = g.name
        BY <1>4 DEF half
      <4>4. PICK e \in strippable.elf : e \in Groups /\ half(g).dir = e.dir /\ half(g).name = e.name
        BY <2>5, <4>1, <4>3
      <4>5. e = g
        BY <1>5, <1>6, <4>3, <4>4
      <4>6. g = f
        BY <2>4, <4>2, <4>4, <4>5
      <4>7. QED
        BY <4>1, <4>6
    <3>3. f \in order
      <4>1. IsFiniteSet(strippable.group[f])
        <5>1. IsFiniteSet(Installed) /\ strippable.group[f] \in SUBSET Installed
          BY <1>3, <1>5, <2>1 DEF Packable, Installed
        <5>2. QED
          BY <5>1, FS_Subset, Zenon
      <4>2. {p, f} \in SUBSET strippable.group[f]
        BY <1>5, <2>1
      <4>3. Cardinality({f}) = 1 /\ IsFiniteSet({f})
        BY FS_Singleton, Zenon
      <4>4. Cardinality({f} \cup {p}) = 2
        <5>1. Cardinality({f} \cup {p}) = IF p \in {f} THEN Cardinality({f}) ELSE Cardinality({f}) + 1
          BY <4>3, FS_AddElement, Zenon
        <5>2. p \notin {f}
          BY <3>1
        <5>3. QED
          BY <4>3, <5>1, <5>2
      <4>5. Cardinality(strippable.group[f]) \in Nat
        BY <4>1, FS_CardinalityType, Zenon
      <4>6. {f} \cup {p} \in SUBSET strippable.group[f]
        BY <4>2
      <4>7. Cardinality({f} \cup {p}) <= Cardinality(strippable.group[f])
        BY <4>1, <4>6, FS_Subset, Zenon
      <4>8. QED
        BY <1>9, <2>1, <4>4, <4>5, <4>7
    <3>4. <<h, tree[half(f)]>> \in by(f)
      BY <1>8, <2>1, <2>2, <3>1 DEF h
    <3>5. h \notin taken(f)
      <4>1. SUFFICES ASSUME h \in taken(f) PROVE FALSE
        OBVIOUS
      <4>2. PICK g \in earlier(f) : \E y \in by(g) : y[1] = h
        BY <1>12, <4>1
      <4>3. g \in Groups /\ PathPosition(g) < PathPosition(f)
        BY <1>9
      <4>4. PICK y \in by(g) : y[1] = h
        BY <4>2
      <4>5. \E q \in strippable.group[g] : y \in wanted(g, q)
        OBVIOUS
      <4>6. g = f
        BY <3>2, <4>3, <4>4, <4>5
      <4>7. PathPosition(f) \in Nat
        <5>1. recipe.order \in Seq(Installed) /\ f \in AsSet(recipe.order)
          BY <1>3, <2>1 DEF Packable, Installed
        <5>2. PICK i \in DOMAIN recipe.order : recipe.order[i] = f
          BY <5>1 DEF AsSet
        <5>3. PathPosition(f) \in DOMAIN recipe.order
          BY <5>2 DEF PathPosition
        <5>4. DOMAIN recipe.order \subseteq Nat
          BY <5>1
        <5>5. QED
          BY <5>3, <5>4
      <4>8. QED
        BY <4>3, <4>6, <4>7
    <3>6. <<h, tree[half(f)]>> \in LinkedHalves
      BY <1>11, <3>3, <3>4, <3>5
    <3>7. h \in DOMAIN tree'
      BY <1>16, <3>6 DEF Paths
    <3>8. PICK y \in LinkedHalves : y[1] = h /\ tree'[h] = y[2]
      BY <1>16, <2>7, <3>6
    <3>9. y[2] = tree[half(f)]
      BY <1>10, <3>2, <3>8
    <3>10. QED
      BY <2>2, <3>7, <3>8, <3>9 DEF h
  <2>8. QED
    BY <2>6, <2>7
<1>19. DebugLies'
  <2>1. \A f, p : (Rival(f, p)' <=> Rival(f, p)) /\ WayOf(f)' = WayOf(f)
    BY <1>1 DEF Rival, WayOf
  <2>2. ASSUME NEW f, NEW p PROVE HalfOf(f, p)' = Beside(p, "debug", f.name)
    <3>1. moved' = NoneYet
      BY <1>1, <1>3 DEF TreeKept
    <3>2. HalfOf(f, p)' = [Beside(p, "debug", f.name) EXCEPT !.dir = p.dir]
      BY <3>1 DEF HalfOf, Beside, NoneYet
    <3>3. QED
      BY <3>2 DEF Beside
  <2>3. UNCHANGED <<recipe, strippable>>
    BY <1>1
  <2>4. QED
    BY <1>18, <2>1, <2>2, <2>3 DEF DebugLies
<1>20. QED
  BY <1>15, <1>17, <1>19 DEF PackInv

-----------------------------------------------------------------------------
\* The first in the order of the paths is one of them.
LEMMA FirstPathIn ==
  ASSUME Packable(recipe), NEW S, S \subseteq Installed, S # {}
  PROVE  FirstPath(S) \in S
<1> DEFINE T == {PathPosition(p) : p \in S}
<1>1. ASSUME NEW p \in S PROVE PathPosition(p) \in Nat
  <2>1. recipe.order \in Seq(Installed) /\ p \in AsSet(recipe.order)
    BY DEF Packable, Installed
  <2>2. PICK i \in DOMAIN recipe.order : recipe.order[i] = p
    BY <2>1 DEF AsSet
  <2>3. PathPosition(p) \in DOMAIN recipe.order
    BY <2>2 DEF PathPosition
  <2>4. DOMAIN recipe.order \subseteq Nat
    BY <2>1
  <2>5. QED
    BY <2>3, <2>4
<1>2. T \subseteq Nat /\ T # {}
  BY <1>1
<1>3. PICK n \in T : \A m \in T : n <= m
  <2> HIDE DEF T
  <2>1. QED
    BY <1>2, LeastNumber
<1>4. PICK p \in S : PathPosition(p) = n
  OBVIOUS
<1>5. \A q \in S : PathPosition(p) <= PathPosition(q)
  BY <1>3, <1>4
<1>6. QED
  BY <1>5 DEF FirstPath

\* A file whose links were broken, or that has none, is alone.
LEMMA BreakAlone ==
  ASSUME Packable(recipe), tree = recipe.install, NEW f \in Installed
  PROVE  Alone(f, AfterBreak(f))
<1> DEFINE i == tree[f].ino
           S == {p \in DOMAIN tree : tree[p].ino = i}
<1>1. CASE LinkCount(i) > 1
  BY <1>1 DEF AfterBreak, Alone
<1>2. CASE ~(LinkCount(i) > 1)
  <2>1. AfterBreak(f) = i
    BY <1>2 DEF AfterBreak
  <2>2. IsFiniteSet(DOMAIN tree) /\ S \in SUBSET DOMAIN tree
    BY DEF Packable
  <2>3. IsFiniteSet(S)
    BY <2>2, FS_Subset, Zenon
  <2>4. f \in S
    BY DEF Installed
  <2>5. Cardinality(S) \in Nat
    BY <2>3, FS_CardinalityType, Zenon
  <2>6. Cardinality(S) # 0
    BY <2>3, <2>4, FS_EmptySet, Zenon
  <2>7. LinkCount(i) = Cardinality(S) + (IF i \in recipe.outside THEN 1 ELSE 0)
    BY DEF LinkCount
  <2> HIDE DEF S
  <2>8. Cardinality(S) = 1 /\ i \notin recipe.outside
    BY <1>2, <2>5, <2>6, <2>7
  <2>9. PICK x : S = {x}
    BY <2>3, <2>8, FS_Singleton, Zenon
  <2>10. \A p \in Installed : recipe.install[p].ino = i => p = f
    BY <2>4, <2>9 DEF S, Installed
  <2>11. QED
    BY <2>1, <2>8, <2>10 DEF Alone
<1>3. QED
  BY <1>1, <1>2

\* One file of every inode is stripped, in a copy of its own if it must be, and
\* the others are linked to it.
LEMMA SelectKeeps == ASSUME PackInv, Select PROVE PackInv'
<1>1. /\ packing = "select" /\ packing' = "split"
      /\ UNCHANGED <<recipe, busy, moved, pkgVars, depVars, ending>>
  BY DEF Select
<1>2. /\ TreeKept /\ GroupsHold /\ InodesHold /\ StripsHold /\ HalvesHold /\ Packable(recipe)
      /\ InPlace /\ InPlace' /\ ~Handed /\ ~Handed' /\ ~Stripping /\ ~Stripping'
  BY <1>1, PackAssumption DEF PackInv, TreeKept, InPlace, Handed, Stripping
<1>3. tree = recipe.install /\ DOMAIN tree = Installed
  BY <1>1, <1>2 DEF HalvesHold, Installed
<1> DEFINE U == Unstripped
           L == StaticLibs
           all == U \cup L
           elf == {FirstPath(Sharing(U, i)) : i \in Inodes(U)}
<1>4. PICK static \in [Inodes(L) -> L] :
         /\ \A i \in DOMAIN static : tree[static[i]].ino = i
         /\ LET firsts == elf \cup AsSet(static)
                of(p) == CHOOSE f \in firsts : tree[f].ino = tree[p].ino
            IN  /\ strippable' = [elf |-> elf, static |-> AsSet(static),
                            group |-> [f \in firsts |-> Sharing(all, tree[f].ino)]]
                /\ tree' = [p \in DOMAIN tree |->
                               IF p \in all THEN [tree[p] EXCEPT !.ino = AfterBreak(of(p))]
                               ELSE tree[p]]
                /\ strips' = [i \in DOMAIN strips \cup {AfterBreak(f) : f \in firsts} |-> 0]
  BY DEF Select
<1> DEFINE firsts == elf \cup AsSet(static)
           of(p) == CHOOSE f \in firsts : tree[f].ino = tree[p].ino
<1>5. /\ strippable'.elf = elf /\ strippable'.static = AsSet(static)
      /\ strippable'.group = [f \in firsts |-> Sharing(all, tree[f].ino)]
  BY <1>4
<1>6. tree' = [p \in DOMAIN tree |-> IF p \in all THEN [tree[p] EXCEPT !.ino = AfterBreak(of(p))]
                                     ELSE tree[p]]
  BY <1>4
<1>7. strips' = [i \in DOMAIN strips \cup {AfterBreak(f) : f \in firsts} |-> 0]
  BY <1>4
<1>8. \A p \in U : /\ p \in Installed /\ recipe.install[p].link = NoName /\ p \notin recipe.skip
                   /\ WayOf(p) \in {"elf", "module", "signed"}
  BY <1>3 DEF Unstripped, Plain, IsLink, FileKind, WayOf
<1>9. \A p \in L : /\ p \in Installed /\ recipe.install[p].link = NoName /\ p \notin recipe.skip
                   /\ WayOf(p) = "static"
  BY <1>3 DEF StaticLibs, Plain, IsLink, FileKind, WayOf
<1>10. \A p, q \in Installed : tree[p].ino = tree[q].ino => WayOf(p) = WayOf(q)
  BY <1>2, <1>3 DEF Packable, Installed, WayOf
<1> HIDE DEF U, L
<1>11. \A i \in Inodes(U) : FirstPath(Sharing(U, i)) \in U /\ tree[FirstPath(Sharing(U, i))].ino = i
  <2>1. SUFFICES ASSUME NEW i \in Inodes(U) PROVE FirstPath(Sharing(U, i)) \in Sharing(U, i)
    BY DEF Sharing
  <2>2. Sharing(U, i) # {} /\ Sharing(U, i) \subseteq Installed
    BY <1>8 DEF Sharing, Inodes
  <2>3. QED
    BY <1>2, <2>2, FirstPathIn
<1>12. /\ \A i \in Inodes(L) : static[i] \in AsSet(static) /\ static[i] \in L /\ tree[static[i]].ino = i
       /\ \A f \in AsSet(static) : \E i \in Inodes(L) : f = static[i]
  BY <1>4 DEF AsSet
<1>13. \A f \in elf : f \in U /\ f = FirstPath(Sharing(U, tree[f].ino))
  BY <1>11
<1>14. \A f \in AsSet(static) : f \in L /\ f = static[tree[f].ino]
  BY <1>12
<1>15. \A p \in U : tree[p].ino \in Inodes(U)
  BY DEF Inodes
<1>16. \A p \in L : tree[p].ino \in Inodes(L)
  BY DEF Inodes
<1>17. \A p \in U : \E f \in elf : tree[f].ino = tree[p].ino
  BY <1>11, <1>15
<1>18. \A p \in L : \E f \in AsSet(static) : tree[f].ino = tree[p].ino
  BY <1>12, <1>16
<1>19. \A p \in U, q \in L : tree[p].ino # tree[q].ino
  BY <1>8, <1>9, <1>10
<1> DEFINE lone == AsSet(static)
<1> HIDE DEF elf, lone
<1>20. \A f, g \in firsts : tree[f].ino = tree[g].ino => f = g
  <2>1. \A f, g \in elf : tree[f].ino = tree[g].ino => f = g
    BY <1>13
  <2>2. \A f, g \in lone : tree[f].ino = tree[g].ino => f = g
    BY <1>14 DEF lone
  <2>3. \A f \in elf, g \in lone : tree[f].ino # tree[g].ino
    BY <1>13, <1>14, <1>19 DEF lone
  <2>4. QED
    BY <2>1, <2>2, <2>3 DEF lone
<1>21. \A p \in all : of(p) \in firsts /\ tree[of(p)].ino = tree[p].ino
  BY <1>17, <1>18
<1>22. \A p \in all, f \in firsts : tree[f].ino = tree[p].ino => of(p) = f
  BY <1>20, <1>21
<1>23. \A f \in firsts : f \in all
  BY <1>13, <1>14
<1>24. \A p \in all : p \in Installed /\ recipe.install[p].link = NoName /\ p \notin recipe.skip
  BY <1>8, <1>9
<1> HIDE DEF of, firsts, all
<1>25. /\ Installed' = Installed /\ Groups' = firsts /\ UNCHANGED <<recipe, busy, moved>>
       /\ \A f \in firsts : strippable'.group[f] = {p \in all : tree[p].ino = tree[f].ino}
  BY <1>1, <1>5 DEF Groups, Installed, Sharing
<1>26. ASSUME NEW p \in Installed
       PROVE  /\ p \in DOMAIN tree' /\ tree'[p].what = tree[p].what /\ tree'[p].link = tree[p].link
              /\ p \in all => tree'[p].ino = AfterBreak(of(p))
              /\ p \notin all => tree'[p].ino = tree[p].ino
  <2>1. tree[p] = [ino |-> tree[p].ino, what |-> tree[p].what, link |-> tree[p].link]
    BY <1>2, <1>3 DEF Packable, Installed
  <2>2. CASE p \in all
    <3>1. tree'[p] = [tree[p] EXCEPT !.ino = AfterBreak(of(p))]
      BY <1>3, <1>6, <2>2
    <3>2. \A a, b, c, d : [[ino |-> a, what |-> b, link |-> c] EXCEPT !.ino = d]
                             = [ino |-> d, what |-> b, link |-> c]
      OBVIOUS
    <3>3. tree'[p] = [ino |-> AfterBreak(of(p)), what |-> tree[p].what, link |-> tree[p].link]
      BY <2>1, <3>1, <3>2
    <3>4. QED
      BY <1>3, <1>6, <2>2, <3>3
  <2>3. CASE p \notin all
    BY <1>3, <1>6, <2>3
  <2>4. QED
    BY <2>2, <2>3
<1>27. DOMAIN tree' = Installed
  BY <1>3, <1>6
<1>28. TreeKept'
  <2>1. recipe' \in Recipes /\ IsFiniteSet(DOMAIN tree')
    BY <1>2, <1>3, <1>25, <1>27 DEF TreeKept
  <2>2. \A p \in Installed :
           /\ p = [dir |-> p.dir, area |-> p.area, name |-> p.name]
           /\ tree'[p].link = NoName => tree'[p].what \in DOMAIN recipe.data
    BY <1>2, <1>3, <1>26 DEF TreeKept
  <2>3. \A p \in Installed : tree'[p].what = recipe.install[p].what /\ tree'[p].link = recipe.install[p].link
    BY <1>3, <1>26
  <2>4. \A d \in DOMAIN moved : LinkTo(d) \in Installed
    BY <1>2, <1>3 DEF TreeKept
  <2>5. moved = NoneYet
    BY <1>2 DEF TreeKept
  <2>6. QED
    BY <1>25, <1>27, <2>1, <2>2, <2>3, <2>4, <2>5 DEF TreeKept
<1>29. GroupsHold'
  <2>1. \A f : WayOf(f)' = WayOf(f)
    BY <1>25 DEF WayOf
  <2>2. firsts = elf \cup AsSet(static)
    BY DEF firsts
  <2>3. \A f \in firsts : f \in strippable'.group[f] /\ recipe.install[f].link = NoName
                          /\ strippable'.group[f] \subseteq Installed \ recipe.skip
    BY <1>23, <1>24, <1>25
  <2>4. \A f \in elf : WayOf(f) \in {"elf", "module", "signed"}
    BY <1>8, <1>13
  <2>5. \A f \in AsSet(static) : WayOf(f) = "static"
    BY <1>9, <1>14
  <2>6. \A f \in firsts : \A p \in strippable'.group[f] : recipe.install[p].ino = recipe.install[f].ino
    BY <1>3, <1>25
  <2>7. \A f, g \in firsts : recipe.install[f].ino = recipe.install[g].ino => f = g
    BY <1>3, <1>20
  <2>8. QED
    BY <1>5, <1>25, <2>1, <2>2, <2>3, <2>4, <2>5, <2>6, <2>7 DEF GroupsHold
<1>30. \A f \in firsts : of(f) = f
  BY <1>22, <1>23
<1>31. \A f \in firsts : AfterBreak(f) \in DOMAIN strips'
  BY <1>7
<1>32. /\ \A i \in DOMAIN strips : i \in DOMAIN strips'
       /\ \A i \in DOMAIN strips' : strips'[i] = 0
  BY <1>7
<1>33. InodesHold'
  <2>1. \A f \in firsts : tree'[f].ino = AfterBreak(f)
    BY <1>23, <1>24, <1>26, <1>30
  <2>2. \A f \in firsts : \A p \in strippable'.group[f] : tree'[p].ino = tree'[f].ino
    BY <1>22, <1>24, <1>25, <1>26, <2>1
  <2>3. \A f \in firsts : Alone(f, tree'[f].ino) /\ tree'[f].ino \in DOMAIN strips'
    BY <1>2, <1>3, <1>23, <1>24, <1>31, <2>1, BreakAlone
  <2>4. \A p \in Installed : (\A f \in firsts : p \notin strippable'.group[f]) =>
           tree'[p].ino = recipe.install[p].ino
    BY <1>3, <1>21, <1>25, <1>26
  <2>5. \A p \in Installed : recipe.install[p].ino \in DOMAIN strips'
    BY <1>2, <1>32 DEF InodesHold
  <2>6. \A f, i : Alone(f, i)' <=> Alone(f, i)
    BY <1>25 DEF Alone
  <2>7. QED
    BY <1>25, <2>2, <2>3, <2>4, <2>5, <2>6 DEF InodesHold
<1>34. StripsHold'
  <2>1. busy' = {}
    BY <1>1, <1>2 DEF StripsHold
  <2>2. recipe.skip \subseteq Installed /\ \A i \in recipe.outside : \E p \in Installed : recipe.install[p].ino = i
    <3>1. recipe.outside \subseteq {recipe.install[p].ino : p \in Installed}
      BY <1>2 DEF Packable, Installed
    <3>2. recipe.skip \subseteq Installed
      BY <1>2 DEF Packable, Installed
    <3>3. QED
      BY <3>1, <3>2
  <2>3. \A p \in Installed : recipe.install[p].ino \in DOMAIN strips'
    BY <1>2, <1>32 DEF InodesHold
  <2>4. QED
    BY <1>25, <1>32, <2>1, <2>2, <2>3 DEF StripsHold
<1>35. HalvesHold' /\ DebugLies'
  BY <1>1, <1>25, <1>27 DEF HalvesHold, DebugLies
<1>36. FilesHold' /\ DependsHold'
  BY <1>1, <1>2, ListsStay
<1>37. QED
  BY <1>28, <1>29, <1>33, <1>34, <1>35, <1>36 DEF PackInv

-----------------------------------------------------------------------------
\* What was installed is in place, and nothing else has happened.
LEMMA PackStarts == PackInit => PackInv
<1>1. SUFFICES ASSUME PackInit PROVE PackInv
  OBVIOUS
<1>2. /\ recipe \in Recipes /\ packing = "select" /\ ending = "ok" /\ tree = recipe.install
      /\ strippable = [elf |-> {}, static |-> {}, group |-> NoneYet] /\ busy = {}
      /\ strips = [i \in {recipe.install[p].ino : p \in DOMAIN recipe.install} |-> 0]
      /\ moved = NoneYet /\ packages = recipe.packages /\ rdepends = recipe.rdepends
  BY <1>1 DEF PackInit
<1>3. Packable(recipe)
  BY <1>2, PackAssumption
<1>4. InPlace /\ ~Handed /\ ~Stripping
  BY <1>2 DEF InPlace, Handed, Stripping
<1>5. DOMAIN NoneYet = {}
  BY DEF NoneYet
<1>6. TreeKept
  <2>1. IsFiniteSet(Installed)
    BY <1>3 DEF Packable, Installed
  <2>2. \A p \in Installed : p = [dir |-> p.dir, area |-> "", name |-> p.name]
    BY <1>3 DEF Packable, Installed
  <2>3. ASSUME NEW p \in Installed PROVE p = [dir |-> p.dir, area |-> p.area, name |-> p.name]
    <3>1. \A a, b : [dir |-> a, area |-> "", name |-> b].area = ""
      OBVIOUS
    <3>2. PICK a, b : p = [dir |-> a, area |-> "", name |-> b]
      BY <2>2
    <3>3. p.area = ""
      BY <3>1, <3>2
    <3>4. QED
      BY <2>2, <3>3
  <2>4. \A p \in Installed : recipe.install[p].link = NoName => recipe.install[p].what \in DOMAIN recipe.data
    BY <1>3 DEF Packable, Installed
  <2>5. DOMAIN tree = Installed
    BY <1>2 DEF Installed
  <2>6. QED
    BY <1>2, <1>5, <2>1, <2>3, <2>4, <2>5 DEF TreeKept
<1>7. Groups = {} /\ strippable.elf = {} /\ strippable.static = {}
  BY <1>2, <1>5 DEF Groups
<1>8. GroupsHold
  BY <1>7 DEF GroupsHold
<1>9. \A p \in Installed : recipe.install[p].ino \in DOMAIN strips
  BY <1>2 DEF Installed
<1>10. InodesHold
  BY <1>2, <1>7, <1>9 DEF InodesHold
<1>11. StripsHold
  <2>1. recipe.outside \subseteq {recipe.install[p].ino : p \in DOMAIN recipe.install}
    BY <1>3 DEF Packable
  <2>2. recipe.skip \subseteq Installed
    BY <1>3 DEF Packable, Installed
  <2>3. \A i \in DOMAIN strips : strips[i] = 0
    BY <1>2
  <2>4. recipe.outside \subseteq DOMAIN strips
    BY <1>2, <2>1
  <2>5. QED
    BY <1>2, <1>9, <2>2, <2>3, <2>4 DEF StripsHold
<1>12. HalvesHold /\ DebugLies /\ FilesHold
  BY <1>2, <1>4 DEF HalvesHold, DebugLies, FilesHold, Installed
<1>13. DependsHold
  <2>1. packages \in Seq(AsSet(packages))
    BY <1>2, <1>3 DEF Packable
  <2>2. QED
    BY <1>2, <1>4, <2>1 DEF DependsHold
<1>14. QED
  BY <1>6, <1>8, <1>10, <1>11, <1>12, <1>13 DEF PackInv

LEMMA PackStutters == ASSUME PackInv, UNCHANGED packVars PROVE PackInv'
<1>1. /\ UNCHANGED <<recipe, packing, fileVars, pkgVars, depVars, ending>>
      /\ UNCHANGED <<tree, strippable, busy, strips, moved, packages, files>>
      /\ UNCHANGED <<rdepends, libdeps, recommends>>
  BY DEF packVars, fileVars, pkgVars, depVars
<1>2. /\ (InPlace' <=> InPlace) /\ (Handed' <=> Handed) /\ (Stripping' <=> Stripping)
      /\ Installed' = Installed /\ ToStrip' = ToStrip
  BY <1>1 DEF InPlace, Handed, Stripping, Installed, ToStrip
<1>3. TreeKept' /\ GroupsHold' /\ InodesHold'
  BY <1>1, <1>2, TreeStays
<1>4. \A f, p : /\ (Rival(f, p)' <=> Rival(f, p)) /\ HalfOf(f, p)' = HalfOf(f, p)
                /\ WayOf(f)' = WayOf(f) /\ Beside(f, "debug", f.name)' = Beside(f, "debug", f.name)
  BY <1>1 DEF Rival, HalfOf, Beside, WayOf
<1>5. StripsHold'
  BY <1>1, <1>2 DEF PackInv, StripsHold
<1>6. HalvesHold'
  BY <1>1, <1>2, <1>4 DEF PackInv, HalvesHold
<1>7. DebugLies'
  BY <1>1, <1>4 DEF PackInv, DebugLies
<1>8. FilesHold'
  BY <1>1, <1>2, FilesStay DEF FilesHold
<1>9. DependsHold'
  <2>1. /\ InPackages' = InPackages
        /\ \A p : ShlibDeps(p, Provider)' = ShlibDeps(p, Provider)
        /\ \A p : PkgConfigDeps(p)' = PkgConfigDeps(p)
    BY <1>1, SourcesStay
  <2>2. LinksFollowed => LinksFollowed'
    BY <1>1, LinksStay
  <2>3. DependsHold
    BY DEF PackInv
  <2>4. \A p : Of(recipe.rdepends, p)' = Of(recipe.rdepends, p)
    BY <1>1 DEF Of
  <2>5. \A d, S : Chained(d, "dbg", S)' = Chained(d, "dbg", S)
    BY DEF Chained, Bare
  <2>6. (UNION {libdeps[p] : p \in InPackages})' = UNION {libdeps[p] : p \in InPackages}
    BY <1>1, <2>1
  <2>7. AsSet(packages)' = AsSet(packages)
    BY <1>1 DEF AsSet
  <2>8. \A d : EndsWith(d, "dbg")' <=> EndsWith(d, "dbg")
    BY DEF EndsWith
  <2>9. QED
    BY <1>1, <1>2, <2>1, <2>2, <2>3, <2>4, <2>5, <2>6, <2>7, <2>8 DEF DependsHold
<1>10. QED
  BY <1>3, <1>5, <1>6, <1>7, <1>8, <1>9 DEF PackInv

\* Every step of do_package keeps what it has made of the recipe's files.
THEOREM PackInvariant == PackSpec => []PackInv
<1>1. ASSUME PackInv, [PackNext]_packVars PROVE PackInv'
  <2>1. CASE Select
    BY <1>1, <2>1, SelectKeeps
  <2>2. CASE SplitDebug
    BY <1>1, <2>2, SplitDebugKeeps
  <2>3. CASE LinkDebug
    BY <1>1, <2>3, LinkDebugKeeps
  <2>4. CASE LinkSymbols
    BY <1>1, <2>4, LinkSymbolsKeeps
  <2>5. CASE \E p \in ToStrip : StripBegin(p) \/ StripEnd(p)
    BY <1>1, <2>5, StripBeginKeeps, StripEndKeeps
  <2>6. CASE StripDone
    BY <1>1, <2>6, StripDoneKeeps
  <2>7. CASE FixupPerms
    BY <1>1, <2>7, FixupPermsKeeps
  <2>8. CASE SplitLocales
    BY <1>1, <2>8, SplitLocalesKeeps
  <2>9. CASE Populate
    BY <1>1, <2>9, PopulateKeeps
  <2>10. CASE FixSymlinks
    BY <1>1, <2>10, FixSymlinksKeeps
  <2>11. CASE Shlibs
    BY <1>1, <2>11, ShlibsKeeps
  <2>12. CASE PkgConfig
    BY <1>1, <2>12, PkgConfigKeeps
  <2>13. CASE ReadLibDeps
    BY <1>1, <2>13, ReadLibDepsKeeps
  <2>14. CASE DepChains
    BY <1>1, <2>14, DepChainsKeeps
  <2>15. CASE UNCHANGED packVars
    BY <1>1, <2>15, PackStutters
  <2>16. QED
    BY <1>1, <2>1, <2>2, <2>3, <2>4, <2>5, <2>6, <2>7, <2>8, <2>9, <2>10, <2>11, <2>12, <2>13,
       <2>14, <2>15 DEF PackNext
<1>2. QED
  BY <1>1, PackStarts, PTL DEF PackSpec

LEMMA BinariesStay == ASSUME PackInv PROVE BinariesKept
<1>1. /\ TreeKept /\ GroupsHold /\ InodesHold /\ StripsHold /\ DebugLies /\ FilesHold /\ DependsHold
      /\ Packable(recipe)
  BY PackAssumption DEF PackInv, TreeKept
<1>2. StrippedOnce
  <2>1. \A i \in DOMAIN strips : strips[i] <= 1
    BY <1>1 DEF StripsHold
  <2>2. \A p, q \in busy : p # q => tree[p].ino # tree[q].ino
    BY <1>1, ApartHolds DEF StripsHold
  <2>3. \A i \in recipe.outside : strips[i] = 0
    BY <1>1 DEF StripsHold
  <2>4. ASSUME NEW p \in recipe.skip \cap DOMAIN tree PROVE strips[tree[p].ino] = 0
    <3>1. p \in Installed /\ \A f \in Groups : p \notin strippable.group[f]
      BY <1>1 DEF Packable, Installed, GroupsHold
    <3>2. tree[p].ino = recipe.install[p].ino
      BY <1>1, <3>1 DEF InodesHold
    <3>3. QED
      BY <1>1, <3>2 DEF StripsHold
  <2>5. \A f \in DOMAIN strippable.group : \A p \in strippable.group[f] :
           p \in DOMAIN tree /\ f \in DOMAIN tree => tree[p].ino = tree[f].ino
    BY <1>1 DEF InodesHold, Groups
  <2>6. QED
    BY <2>1, <2>2, <2>3, <2>4, <2>5 DEF StrippedOnce
<1>3. DebugFound
  <2>1. ASSUME packing \in {"strip", "perms", "fixsymlinks", "shlibs"}, recipe.debugsplit,
               NEW f \in strippable.elf, NEW p \in strippable.group[f],
               recipe.data[recipe.install[p].what].kind # "signed", ~Rival(f, p)
        PROVE  LET d == HalfOf(f, p)
               IN  /\ d \in DOMAIN tree /\ tree[d].what = recipe.install[p].what
                   /\ packing \in {"fixsymlinks", "shlibs"} /\ recipe.autodebug =>
                         \A pkg \in DOMAIN files :
                            EndsWith(pkg, "dbg") /\ ~(\E s \in DOMAIN files : EndsWith(s, "src")) =>
                               \A x \in DOMAIN files : d \in files[x] => EndsWith(x, "dbg")
    <3> DEFINE d == HalfOf(f, p)
    <3>1. ending = "ok"
      BY <1>1, <2>1 DEF DependsHold
    <3>2. f \in Installed /\ p \in Installed /\ recipe.install[p].ino = recipe.install[f].ino
      BY <1>1 DEF GroupsHold
    <3>3. recipe.install[p].what = recipe.install[f].what
      BY <1>1, <3>2 DEF Packable, Installed
    <3>4. WayOf(f) # "signed"
      BY <2>1, <3>3 DEF WayOf
    <3>5. d \in DOMAIN tree /\ tree[d].what = recipe.install[p].what
      BY <1>1, <2>1, <3>1, <3>3, <3>4 DEF DebugLies
    <3>6. d.area # ""
      <4>1. \A a, b, c, e : [[dir |-> a, area |-> b, name |-> c] EXCEPT !.dir = e].area = b
        OBVIOUS
      <4>2. d.area = "debug"
        BY <4>1 DEF HalfOf, Beside
      <4>3. QED
        BY <4>2
    <3> HIDE DEF d
    <3>7. packing \in {"fixsymlinks", "shlibs"} => Handed
      BY <3>1 DEF Handed
    <3>8. QED
      BY <1>1, <3>5, <3>6, <3>7 DEF FilesHold, d
  <2>2. QED
    BY <2>1 DEF DebugFound, HalfOf, Rival
<1>4. QED
  BY <1>2, <1>3 DEF BinariesKept

\* What becomes of a binary: however the workers interleave, no inode is
\* stripped twice, none that is linked outside or excepted at all, hard links
\* stay hard links, and the debug half of every stripped file lies where its
\* debug link looks for it and is shipped in the -dbg package.
THEOREM BinariesAreKept == PackSpec => []BinariesKept
BY PackInvariant, BinariesStay, PTL

\* A package of the recipe that uses a library, a pkg-config module or a link's
\* target in another one depends on it, and so does its debug package.
THEOREM DepsAreFollowed == PackSpec => []DepsFollowFiles
BY PackInvariant, DepsFollow, PTL

-----------------------------------------------------------------------------
(* The lines bbappend_recipe writes: sequences of lines, of words.         *)

IsSeq(s) == s \in Seq(ToSet(s))

LEMMA SeqHolds ==
  ASSUME NEW S, NEW s \in Seq(S)
  PROVE  IsSeq(s) /\ Len(s) \in Nat /\ DOMAIN s = 1..Len(s) /\ ToSet(s) \subseteq S
<1>1. Len(s) \in Nat /\ DOMAIN s = 1..Len(s) /\ s = [i \in 1..Len(s) |-> s[i]]
      /\ \A i \in 1..Len(s) : s[i] \in S
  BY SMTT(30)
<1>2. \A i \in 1..Len(s) : s[i] \in ToSet(s)
  BY <1>1 DEF ToSet
<1>3. s \in Seq(ToSet(s))
  BY <1>1, <1>2, SMTT(30)
<1>4. QED
  BY <1>1, <1>3 DEF IsSeq, ToSet

LEMMA JoinHolds ==
  ASSUME NEW s, NEW r, IsSeq(s), IsSeq(r)
  PROVE  /\ IsSeq(s \o r) /\ Len(s \o r) = Len(s) + Len(r)
         /\ Len(s) \in Nat /\ Len(r) \in Nat
         /\ DOMAIN s = 1..Len(s) /\ DOMAIN r = 1..Len(r) /\ DOMAIN (s \o r) = 1..(Len(s) + Len(r))
         /\ \A i \in 1..Len(s) : (s \o r)[i] = s[i]
         /\ \A i \in 1..Len(r) : (s \o r)[Len(s) + i] = r[i]
         /\ ToSet(s \o r) = ToSet(s) \cup ToSet(r)
<1> DEFINE S == ToSet(s) \cup ToSet(r)
           m == Len(s)
           n == Len(r)
           t == s \o r
<1>1. s \in Seq(ToSet(s)) /\ r \in Seq(ToSet(r))
  BY DEF IsSeq
<1>2. s \in Seq(S) /\ r \in Seq(S)
  <2> DEFINE A == ToSet(s)
             B == ToSet(r)
  <2>1. s \in Seq(A) /\ r \in Seq(B)
    BY <1>1
  <2> HIDE DEF A, B
  <2>2. s \in Seq(A \cup B) /\ r \in Seq(A \cup B)
    BY <2>1, SMTT(30)
  <2>3. QED
    BY <2>2 DEF A, B
<1> HIDE DEF S
<1>3. t \in Seq(S) /\ Len(t) = m + n /\ m \in Nat /\ n \in Nat
      /\ DOMAIN s = 1..m /\ DOMAIN r = 1..n /\ DOMAIN t = 1..(m + n)
  BY <1>2, SMTT(30)
<1>4. \A i \in 1..m : t[i] = s[i]
  BY <1>2, SMTT(30)
<1>5. \A i \in 1..n : t[m + i] = r[i]
  BY <1>2, SMTT(30)
<1>6. IsSeq(t)
  BY <1>3, SeqHolds
<1> HIDE DEF t, m, n
<1>7. \A i \in 1..n : m + i \in 1..(m + n)
  BY <1>3
<1>8. \A i \in 1..m : i \in 1..(m + n)
  BY <1>3
<1>9. ToSet(s) \cup ToSet(r) \subseteq ToSet(t)
  BY <1>3, <1>4, <1>5, <1>7, <1>8 DEF ToSet
<1>10. ASSUME NEW i \in 1..(m + n) PROVE t[i] \in ToSet(s) \cup ToSet(r)
  <2>1. CASE i <= m
    <3>1. i \in 1..m
      BY <1>3, <2>1
    <3>2. QED
      BY <1>3, <1>4, <3>1 DEF ToSet
  <2>2. CASE ~(i <= m)
    <3>1. i - m \in 1..n /\ m + (i - m) = i
      BY <1>3, <2>2
    <3>2. QED
      BY <1>3, <1>5, <3>1 DEF ToSet
  <2>3. QED
    BY <2>1, <2>2
<1>11. ToSet(t) = ToSet(s) \cup ToSet(r)
  BY <1>3, <1>9, <1>10 DEF ToSet
<1>12. QED
  BY <1>3, <1>4, <1>5, <1>6, <1>11 DEF t, m, n

LEMMA NoElements == IsSeq(<<>>) /\ Len(<<>>) = 0 /\ DOMAIN <<>> = {} /\ ToSet(<<>>) = {}
<1>1. <<>> \in Seq({0})
  BY SMTT(30)
<1>2. Len(<<>>) = 0
  BY SMTT(30)
<1>3. IsSeq(<<>>) /\ DOMAIN <<>> = 1..0
  BY <1>1, <1>2, SeqHolds, Zenon
<1>4. DOMAIN <<>> = {}
  BY <1>3
<1>5. ToSet(<<>>) = {}
  BY <1>4, Zenon DEF ToSet
<1>6. QED
  BY <1>2, <1>3, <1>4, <1>5, Zenon

LEMMA OneSeq ==
  ASSUME NEW x
  PROVE  /\ IsSeq(<<x>>) /\ Len(<<x>>) = 1 /\ <<x>>[1] = x /\ DOMAIN <<x>> = {1}
         /\ ToSet(<<x>>) = {x}
<1>1. <<x>> \in Seq({x}) /\ Len(<<x>>) = 1 /\ <<x>>[1] = x /\ DOMAIN <<x>> = {1}
  OBVIOUS
<1>2. IsSeq(<<x>>)
  BY <1>1, SeqHolds
<1>3. ToSet(<<x>>) = {x}
  BY <1>1, Zenon DEF ToSet
<1>4. QED
  BY <1>1, <1>2, <1>3

LEMMA AppendHolds ==
  ASSUME NEW s, NEW x, IsSeq(s)
  PROVE  /\ IsSeq(Append(s, x)) /\ Len(Append(s, x)) = Len(s) + 1 /\ Len(s) \in Nat
         /\ DOMAIN s = 1..Len(s) /\ DOMAIN Append(s, x) = 1..(Len(s) + 1)
         /\ \A i \in 1..Len(s) : Append(s, x)[i] = s[i]
         /\ Append(s, x)[Len(s) + 1] = x
         /\ ToSet(Append(s, x)) = ToSet(s) \cup {x}
<1> DEFINE S == ToSet(s) \cup {x}
           n == Len(s)
           t == Append(s, x)
<1>1. s \in Seq(ToSet(s))
  BY DEF IsSeq
<1>2. s \in Seq(S) /\ x \in S
  <2> DEFINE A == ToSet(s)
  <2>1. s \in Seq(A)
    BY <1>1
  <2> HIDE DEF A
  <2>2. s \in Seq(A \cup {x})
    BY <2>1, SMTT(30)
  <2>3. QED
    BY <2>2 DEF A
<1> HIDE DEF S
<1>3. /\ t \in Seq(S) /\ Len(t) = n + 1 /\ n \in Nat
      /\ DOMAIN s = 1..n /\ DOMAIN t = 1..(n + 1)
      /\ \A i \in 1..n : t[i] = s[i]
      /\ t[n + 1] = x
  BY <1>2, SMTT(30)
<1>4. IsSeq(t)
  BY <1>3, SeqHolds
<1> HIDE DEF t, n
<1>5. \A i \in 1..n : i \in 1..(n + 1)
  BY <1>3
<1>6. \A i \in 1..(n + 1) : i \in 1..n \/ i = n + 1
  BY <1>3
<1>7. n + 1 \in 1..(n + 1)
  BY <1>3
<1>8. ToSet(t) = ToSet(s) \cup {x}
  BY <1>3, <1>5, <1>6, <1>7 DEF ToSet
<1>9. QED
  BY <1>3, <1>4, <1>8 DEF t, n

\* c has what FlattenSeq has put together after each of the first n sequences.
FlatUpTo(c, ss, n) ==
  c = [k \in 1..n |-> IF k = 1 THEN ss[k] ELSE c[k - 1] \o ss[k]]

LEMMA FlatExists ==
  ASSUME NEW ss, NEW n \in Nat
  PROVE  \E c : FlatUpTo(c, ss, n)
<1> DEFINE T == {m \in Nat : ~ \E c : FlatUpTo(c, ss, m)}
<1>1. SUFFICES ASSUME T # {} PROVE FALSE
  OBVIOUS
<1>2. PICK m \in T : \A k \in T : m <= k
  <2> HIDE DEF T
  <2>1. T \subseteq Nat
    BY DEF T
  <2> QED
    BY <1>1, <2>1, LeastNumber
<1>3. m # 0
  <2> DEFINE c == [k \in 1..0 |-> <<>>]
  <2>1. FlatUpTo(c, ss, 0)
    BY DEF FlatUpTo
  <2>2. QED
    BY <2>1
<1>4. PICK c : FlatUpTo(c, ss, m - 1)
  BY <1>2, <1>3
<1> DEFINE Step(f, k) == IF k = 1 THEN ss[k] ELSE f[k - 1] \o ss[k]
<1> DEFINE h == [k \in 1..m |-> IF k = m THEN Step(c, m) ELSE c[k]]
<1>5. FlatUpTo(h, ss, m)
  <2>1. ASSUME NEW k \in 1..m PROVE h[k] = Step(h, k)
    <3>1. CASE k = m
      <4>1. h[m] = Step(c, m) /\ (m # 1 => h[m - 1] = c[m - 1])
        <5>1. m # 1 => m - 1 \in 1..m /\ m - 1 # m
          BY <1>2, <1>3
        <5>2. QED
          BY <3>1, <5>1
      <4>2. QED
        BY <3>1, <4>1
    <3>2. CASE k # m
      <4>1. k \in 1..(m - 1)
        BY <1>2, <3>2
      <4>2. c[k] = Step(c, k)
        BY <1>4, <4>1 DEF FlatUpTo
      <4>3. h[k] = c[k]
        BY <3>2
      <4>4. k # 1 => k - 1 \in 1..m /\ k - 1 # m
        BY <1>2, <4>1
      <4>5. k # 1 => h[k - 1] = c[k - 1]
        BY <4>4
      <4>6. QED
        BY <4>2, <4>3, <4>5
    <3>3. QED
      BY <3>1, <3>2
  <2>2. h = [k \in 1..m |-> Step(h, k)]
    BY <2>1
  <2>3. QED
    BY <2>2 DEF FlatUpTo
<1>6. QED
  BY <1>2, <1>5

\* What FlattenSeq has put together, and how.
FlatBy(c, ss, n) ==
  /\ FlattenSeq(ss) = c[n] /\ c[1] = ss[1]
  /\ \A k \in 2..n : c[k] = c[k - 1] \o ss[k]

LEMMA FlatTurns ==
  ASSUME NEW ss, NEW n, n \in Nat, Len(ss) = n, n # 0
  PROVE  \E c : FlatBy(c, ss, n)
<1> DEFINE c == CHOOSE f : FlatUpTo(f, ss, n)
<1>1. FlattenSeq(ss) = c[n]
  BY DEF FlattenSeq, FlatUpTo
<1>2. FlatUpTo(c, ss, n)
  BY FlatExists
<1> HIDE DEF c
<1>3. \A k \in 1..n : c[k] = IF k = 1 THEN ss[k] ELSE c[k - 1] \o ss[k]
  BY <1>2, Zenon DEF FlatUpTo
<1>4. 1 \in 1..n /\ \A k \in 2..n : k \in 1..n /\ k # 1
  OBVIOUS
<1>5. c[1] = ss[1] /\ \A k \in 2..n : c[k] = c[k - 1] \o ss[k]
  BY <1>3, <1>4, Zenon
<1>6. QED
  BY <1>1, <1>5, Zenon DEF FlatBy

LEMMA SameSeq ==
  ASSUME NEW s, NEW r, IsSeq(s), IsSeq(r), Len(s) = Len(r), \A i \in 1..Len(s) : s[i] = r[i]
  PROVE  s = r
<1>1. s = [i \in 1..Len(s) |-> s[i]] /\ r = [i \in 1..Len(s) |-> r[i]]
  <2> DEFINE A == ToSet(s)
             B == ToSet(r)
  <2>1. s \in Seq(A) /\ r \in Seq(B)
    BY DEF IsSeq
  <2> HIDE DEF A, B
  <2>2. QED
    BY <2>1, SMTT(30)
<1>2. QED
  BY <1>1

LEMMA FlattenHolds ==
  ASSUME NEW ss, IsSeq(ss), \A k \in DOMAIN ss : IsSeq(ss[k])
  PROVE  /\ IsSeq(FlattenSeq(ss))
         /\ ToSet(FlattenSeq(ss)) = UNION {ToSet(ss[k]) : k \in DOMAIN ss}
<1> DEFINE n == Len(ss)
<1>1. n \in Nat /\ DOMAIN ss = 1..n
  BY SeqHolds DEF IsSeq
<1>2. CASE n = 0
  <2>1. FlattenSeq(ss) = ss /\ DOMAIN ss = {}
    BY <1>1, <1>2 DEF FlattenSeq
  <2>2. ToSet(ss) = {}
    BY <2>1, Zenon DEF ToSet
  <2>3. QED
    BY <2>1, <2>2
<1>3. CASE n # 0
  <2>0. IsSeq(ss) /\ Len(ss) = n /\ n \in Nat /\ n # 0
    BY <1>1, <1>3
  <2> HIDE DEF n
  <2>a. PICK c : FlatBy(c, ss, n)
    BY <2>0, FlatTurns, Zenon
  <2>1. FlattenSeq(ss) = c[n] /\ c[1] = ss[1] /\ \A k \in 2..n : c[k] = c[k - 1] \o ss[k]
    BY <2>a DEF FlatBy
  <2> DEFINE P(k) == IsSeq(c[k]) /\ ToSet(c[k]) = UNION {ToSet(ss[j]) : j \in 1..k}
             T == {k \in 1..n : ~P(k)}
  <2>2. ASSUME T # {} PROVE FALSE
    <3>1. PICK k \in T : \A j \in T : k <= j
      <4>1. T \subseteq Nat
        BY <1>1
      <4> HIDE DEF T
      <4> QED
        BY <2>2, <4>1, LeastNumber
    <3>2. k \in 1..n /\ ~P(k)
      BY <3>1
    <3>3. CASE k = 1
      <4>1. 1..1 = {1} /\ 1 \in DOMAIN ss
        BY <1>1, <1>3
      <4>2. UNION {ToSet(ss[j]) : j \in {1}} = ToSet(ss[1])
        OBVIOUS
      <4>3. P(1)
        BY <2>1, <4>1, <4>2
      <4>4. QED
        BY <3>2, <3>3, <4>3
    <3>4. CASE k # 1
      <4>1. k - 1 \in 1..n /\ k \in 2..n /\ ~(k <= k - 1)
        BY <1>1, <3>2, <3>4
      <4>2. P(k - 1)
        BY <3>1, <4>1
      <4>3. c[k] = c[k - 1] \o ss[k] /\ IsSeq(ss[k])
        BY <1>1, <2>1, <3>2, <4>1
      <4>4. IsSeq(c[k]) /\ ToSet(c[k]) = ToSet(c[k - 1]) \cup ToSet(ss[k])
        BY <4>2, <4>3, JoinHolds
      <4>5. 1..k = (1..(k - 1)) \cup {k}
        BY <4>1
      <4>6. UNION {ToSet(ss[j]) : j \in 1..k} = (UNION {ToSet(ss[j]) : j \in 1..(k - 1)}) \cup ToSet(ss[k])
        BY <4>5
      <4>7. QED
        BY <3>2, <4>2, <4>4, <4>6
    <3>5. QED
      BY <3>3, <3>4
  <2>3. n \in 1..n
    BY <1>1, <1>3
  <2>4. P(n)
    BY <2>2, <2>3
  <2>5. QED
    BY <1>1, <2>1, <2>4
<1>4. QED
  BY <1>2, <1>3

\* A sequence made of one for each place.
LEMMA MappedHolds ==
  ASSUME NEW s, IsSeq(s), NEW F, F = [i \in DOMAIN s |-> F[i]]
  PROVE  IsSeq(F) /\ Len(F) = Len(s) /\ DOMAIN F = DOMAIN s
<1> DEFINE n == Len(s)
           S == {F[i] : i \in DOMAIN s}
<1>1. n \in Nat /\ DOMAIN s = 1..n
  BY SeqHolds DEF IsSeq
<1>2. F = [i \in 1..n |-> F[i]] /\ \A i \in 1..n : F[i] \in S
  BY <1>1
<1> HIDE DEF S
<1>3. F \in [1..n -> S]
  BY <1>2
<1>4. F \in Seq(S) /\ Len(F) = n
  BY <1>1, <1>3, SMTT(30)
<1>5. QED
  BY <1>1, <1>2, <1>4, SeqHolds

\* No word of P is twice in s.
OnceOf(s, P) == \A x, y \in DOMAIN s : s[x] = s[y] /\ s[x] \in P => x = y

LEMMA JoinOnce ==
  ASSUME NEW s, NEW r, NEW P, IsSeq(s), IsSeq(r), OnceOf(s, P), OnceOf(r, P),
         \A w \in P : ~(w \in ToSet(s) /\ w \in ToSet(r))
  PROVE  OnceOf(s \o r, P)
<1> DEFINE m == Len(s)
           n == Len(r)
           t == s \o r
<1>1. /\ m \in Nat /\ n \in Nat /\ DOMAIN s = 1..m /\ DOMAIN r = 1..n /\ DOMAIN t = 1..(m + n)
      /\ \A i \in 1..m : t[i] = s[i]
      /\ \A i \in 1..n : t[m + i] = r[i]
  BY JoinHolds
<1> HIDE DEF m, n, t
<1>2. ASSUME NEW x \in 1..(m + n)
      PROVE  \/ x \in 1..m /\ t[x] = s[x] /\ t[x] \in ToSet(s)
             \/ x - m \in 1..n /\ t[x] = r[x - m] /\ t[x] \in ToSet(r)
  <2>1. CASE x <= m
    <3>1. x \in 1..m
      BY <1>1, <2>1
    <3>2. QED
      BY <1>1, <3>1 DEF ToSet
  <2>2. CASE ~(x <= m)
    <3>1. x - m \in 1..n /\ m + (x - m) = x
      BY <1>1, <2>2
    <3>2. t[x] = r[x - m]
      BY <1>1, <3>1
    <3>3. QED
      BY <1>1, <3>1, <3>2, Zenon DEF ToSet
  <2>3. QED
    BY <2>1, <2>2
<1>3. ASSUME NEW x \in 1..(m + n), NEW y \in 1..(m + n), t[x] = t[y], t[x] \in P PROVE x = y
  <2>1. CASE x \in 1..m /\ t[x] = s[x] /\ t[x] \in ToSet(s)
    <3>1. y \in 1..m /\ t[y] = s[y]
      BY <1>2, <1>3, <2>1
    <3>2. QED
      BY <1>1, <1>3, <2>1, <3>1 DEF OnceOf
  <2>2. CASE x - m \in 1..n /\ t[x] = r[x - m] /\ t[x] \in ToSet(r)
    <3>1. y - m \in 1..n /\ t[y] = r[y - m]
      BY <1>2, <1>3, <2>2
    <3>2. x - m = y - m
      BY <1>1, <1>3, <2>2, <3>1 DEF OnceOf
    <3>3. QED
      BY <1>1, <3>2
  <2>3. QED
    BY <1>2, <2>1, <2>2
<1>4. QED
  BY <1>1, <1>3 DEF OnceOf, t

LEMMA FlattenOnce ==
  ASSUME NEW ss, NEW P, IsSeq(ss), \A k \in DOMAIN ss : IsSeq(ss[k]) /\ OnceOf(ss[k], P),
         \A j, k \in DOMAIN ss, w \in P : w \in ToSet(ss[j]) /\ w \in ToSet(ss[k]) => j = k
  PROVE  OnceOf(FlattenSeq(ss), P)
<1> DEFINE n == Len(ss)
<1>1. n \in Nat /\ DOMAIN ss = 1..n /\ Len(ss) = n
  BY SeqHolds DEF IsSeq
<1> HIDE DEF n
<1>2. CASE n = 0
  <2>1. FlattenSeq(ss) = ss /\ DOMAIN ss = {}
    BY <1>1, <1>2 DEF FlattenSeq
  <2>2. QED
    BY <2>1 DEF OnceOf
<1>3. CASE n # 0
  <2>1. PICK c : FlatBy(c, ss, n)
    BY <1>1, <1>3, FlatTurns, Zenon
  <2>2. FlattenSeq(ss) = c[n] /\ c[1] = ss[1] /\ \A k \in 2..n : c[k] = c[k - 1] \o ss[k]
    BY <2>1 DEF FlatBy
  <2> DEFINE Q(k) == /\ IsSeq(c[k]) /\ OnceOf(c[k], P)
                     /\ \A w \in ToSet(c[k]) : \E j \in 1..k : w \in ToSet(ss[j])
             T == {k \in 1..n : ~Q(k)}
  <2>3. ASSUME T # {} PROVE FALSE
    <3>1. PICK k \in T : \A j \in T : k <= j
      <4>1. T \subseteq Nat
        BY <1>1
      <4> HIDE DEF T
      <4> QED
        BY <2>3, <4>1, LeastNumber
    <3>2. k \in 1..n /\ ~Q(k)
      BY <3>1
    <3>3. CASE k = 1
      <4>1. 1 \in DOMAIN ss /\ 1 \in 1..1
        BY <1>1, <1>3
      <4>2. Q(1)
        BY <2>2, <4>1
      <4>3. QED
        BY <3>2, <3>3, <4>2
    <3>4. CASE k # 1
      <4>1. k - 1 \in 1..n /\ k \in 2..n /\ ~(k <= k - 1)
        BY <1>1, <3>2, <3>4
      <4>2. Q(k - 1)
        BY <3>1, <4>1
      <4>3. c[k] = c[k - 1] \o ss[k] /\ IsSeq(ss[k]) /\ OnceOf(ss[k], P)
        BY <1>1, <2>2, <3>2, <4>1
      <4>4. IsSeq(c[k]) /\ ToSet(c[k]) = ToSet(c[k - 1]) \cup ToSet(ss[k])
        BY <4>2, <4>3, JoinHolds
      <4>5. 1..k = (1..(k - 1)) \cup {k} /\ k \notin 1..(k - 1) /\ 1..k \subseteq 1..n
        BY <1>1, <4>1
      <4>6. \A w \in P : ~(w \in ToSet(c[k - 1]) /\ w \in ToSet(ss[k]))
        BY <1>1, <3>2, <4>2, <4>5
      <4>7. OnceOf(c[k], P)
        BY <4>2, <4>3, <4>6, JoinOnce
      <4>8. \A w \in ToSet(c[k]) : \E j \in 1..k : w \in ToSet(ss[j])
        BY <4>2, <4>4, <4>5
      <4>9. QED
        BY <3>2, <4>4, <4>7, <4>8
    <3>5. QED
      BY <3>3, <3>4
  <2>4. n \in 1..n
    BY <1>1, <1>3
  <2>5. Q(n)
    BY <2>3, <2>4
  <2>6. QED
    BY <2>2, <2>5
<1>4. QED
  BY <1>2, <1>3

LEMMA ChosenHolds ==
  ASSUME NEW s, IsSeq(s), NEW K
  PROVE  /\ IsSeq(Picked(s, K))
         /\ ToSet(Picked(s, K)) = {s[i] : i \in K \cap DOMAIN s}
<1> DEFINE F == [i \in DOMAIN s |-> IF i \in K THEN <<s[i]>> ELSE <<>>]
<1>1. Picked(s, K) = FlattenSeq(F)
  BY DEF Picked
<1>2. IsSeq(F) /\ DOMAIN F = DOMAIN s
  BY MappedHolds
<1>3. ASSUME NEW i \in DOMAIN s
      PROVE  IsSeq(F[i]) /\ ToSet(F[i]) = {x \in {s[i]} : i \in K}
  <2>1. CASE i \in K
    BY <2>1, OneSeq
  <2>2. CASE i \notin K
    BY <2>2, NoElements
  <2>3. QED
    BY <2>1, <2>2
<1> HIDE DEF F
<1>4. IsSeq(FlattenSeq(F)) /\ ToSet(FlattenSeq(F)) = UNION {ToSet(F[k]) : k \in DOMAIN F}
  BY <1>2, <1>3, FlattenHolds
<1>5. UNION {ToSet(F[k]) : k \in DOMAIN F} = {s[i] : i \in K \cap DOMAIN s}
  BY <1>2, <1>3
<1>6. QED
  BY <1>1, <1>4, <1>5

LEMMA ChosenOnce ==
  ASSUME NEW s, IsSeq(s), NEW K, NEW P,
         \A i, j \in K \cap DOMAIN s : s[i] = s[j] /\ s[i] \in P => i = j
  PROVE  OnceOf(Picked(s, K), P)
<1> DEFINE F == [i \in DOMAIN s |-> IF i \in K THEN <<s[i]>> ELSE <<>>]
<1>1. Picked(s, K) = FlattenSeq(F)
  BY DEF Picked
<1>2. IsSeq(F) /\ DOMAIN F = DOMAIN s
  BY MappedHolds
<1>3. ASSUME NEW i \in DOMAIN s
      PROVE  IsSeq(F[i]) /\ ToSet(F[i]) = {x \in {s[i]} : i \in K} /\ OnceOf(F[i], P)
  <2>1. CASE i \in K
    BY <2>1, OneSeq DEF OnceOf
  <2>2. CASE i \notin K
    BY <2>2, NoElements DEF OnceOf
  <2>3. QED
    BY <2>1, <2>2
<1> HIDE DEF F
<1>4. \A j, k \in DOMAIN F, w \in P : w \in ToSet(F[j]) /\ w \in ToSet(F[k]) => j = k
  BY <1>2, <1>3
<1>5. OnceOf(FlattenSeq(F), P)
  BY <1>2, <1>3, <1>4, FlattenOnce
<1>6. QED
  BY <1>1, <1>5

LEMMA WithoutHolds ==
  ASSUME NEW s, IsSeq(s), NEW S
  PROVE  IsSeq(Without(s, S)) /\ ToSet(Without(s, S)) = ToSet(s) \ S
<1> DEFINE K == {i \in DOMAIN s : s[i] \notin S}
<1>1. IsSeq(Picked(s, K)) /\ ToSet(Picked(s, K)) = {s[i] : i \in K \cap DOMAIN s}
  BY ChosenHolds
<1>2. {s[i] : i \in K \cap DOMAIN s} = ToSet(s) \ S
  BY DEF ToSet
<1>3. QED
  BY <1>1, <1>2 DEF Without

LEMMA FirstsOutHolds ==
  ASSUME NEW s, IsSeq(s), NEW S
  PROVE  /\ IsSeq(FirstsOut(s, S)) /\ ToSet(FirstsOut(s, S)) \subseteq ToSet(s)
         /\ \A w \in ToSet(s) : w \notin S => w \in ToSet(FirstsOut(s, S))
<1> DEFINE K == {i \in DOMAIN s : s[i] \in S => \E j \in 1..(i - 1) : s[j] = s[i]}
<1>1. IsSeq(Picked(s, K)) /\ ToSet(Picked(s, K)) = {s[i] : i \in K \cap DOMAIN s}
  BY ChosenHolds
<1>2. {s[i] : i \in K \cap DOMAIN s} \subseteq ToSet(s)
  BY DEF ToSet
<1>3. \A i \in DOMAIN s : s[i] \notin S => i \in K \cap DOMAIN s
  OBVIOUS
<1> HIDE DEF K
<1>4. \A w \in ToSet(s) : w \notin S => w \in {s[i] : i \in K \cap DOMAIN s}
  BY <1>3 DEF ToSet
<1>5. QED
  BY <1>1, <1>2, <1>4 DEF FirstsOut, K

LEMMA FirstHolds ==
  ASSUME NEW S, S \subseteq Nat, S # {}
  PROVE  First(S) \in S /\ \A j \in S : First(S) <= j
<1>1. \E i \in S : \A j \in S : i <= j
  BY LeastNumber
<1>2. QED
  BY <1>1 DEF First

AllLines(ls) == IsSeq(ls) /\ \A l \in ToSet(ls) : IsLine(l)
NamesOnce(ls) == \A i, j \in DOMAIN ls : ls[i].name = ls[j].name => i = j
NamesOf(ls) == {l.name : l \in ToSet(ls)}

\* The word w is in a line of that name.
Has(ls, n, w) == \E l \in ToSet(ls) : l.name = n /\ w \in ToSet(l.val)

LEMMA LineHolds ==
  ASSUME NEW l, IsLine(l)
  PROVE  /\ IsSeq(l.val)
         /\ l = [name |-> l.name, op |-> l.op, val |-> l.val, lead |-> l.lead]
         /\ l.name[1] = "do_install()" => OnceOf(l.val, ToSet(l.val))
BY DEF IsLine, NewLine, IsSeq, OnceOf

LEMMA NewLineIs ==
  ASSUME NEW n, NEW op, NEW v, IsSeq(v), NEW d, n[1] # "do_install()" \/ OnceOf(v, ToSet(v))
  PROVE  /\ IsLine(NewLine(n, op, v, d)) /\ NewLine(n, op, v, d).name = n
         /\ NewLine(n, op, v, d).op = op /\ NewLine(n, op, v, d).val = v
<1> DEFINE l == NewLine(n, op, v, d)
<1>1. l.name = n /\ l.op = op /\ l.val = v /\ l.lead = d
  BY DEF NewLine
<1>2. n[1] = "do_install()" => \A x, y \in DOMAIN v : v[x] = v[y] => x = y
  BY DEF OnceOf, ToSet
<1>3. l = NewLine(l.name, l.op, l.val, l.lead)
  BY <1>1
<1> HIDE DEF l
<1>4. IsLine(l)
  BY <1>1, <1>2, <1>3 DEF IsLine, IsSeq
<1>5. QED
  BY <1>1, <1>4 DEF l

LEMMA NewInstallIs ==
  ASSUME NEW n, NEW op, NEW v, IsSeq(v), NEW d, OnceOf(v, ToSet(v))
  PROVE  /\ IsLine(NewLine(n, op, v, d)) /\ NewLine(n, op, v, d).name = n
         /\ NewLine(n, op, v, d).op = op /\ NewLine(n, op, v, d).val = v
<1>1. n[1] # "do_install()" \/ OnceOf(v, ToSet(v))
  OBVIOUS
<1>2. QED
  BY <1>1, NewLineIs

LEMMA HasIs ==
  ASSUME NEW ls, NEW n, NEW w
  PROVE  Has(ls, n, w) <=> \E i \in LinesNamed(ls, n) : w \in ToSet(ls[i].val)
BY DEF Has, LinesNamed, ToSet

LEMMA NamedIs ==
  ASSUME NEW ls, NEW n
  PROVE  LinesNamed(ls, n) # {} <=> n \in NamesOf(ls)
BY DEF NamesOf, LinesNamed, ToSet

LEMMA FirstNamed ==
  ASSUME NEW ls, IsSeq(ls), NEW n, LinesNamed(ls, n) # {}
  PROVE  First(LinesNamed(ls, n)) \in DOMAIN ls /\ ls[First(LinesNamed(ls, n))].name = n
         /\ ls[First(LinesNamed(ls, n))] \in ToSet(ls) /\ First(LinesNamed(ls, n)) \in 1..Len(ls) /\ Len(ls) \in Nat
<1>1. Len(ls) \in Nat /\ DOMAIN ls = 1..Len(ls)
  BY SeqHolds DEF IsSeq
<1>2. LinesNamed(ls, n) \subseteq Nat
  BY <1>1 DEF LinesNamed
<1>3. First(LinesNamed(ls, n)) \in LinesNamed(ls, n)
  BY <1>2, FirstHolds
<1>4. QED
  BY <1>1, <1>3 DEF LinesNamed, ToSet

\* The line new has been joined to ls.
JoinedTo(r, ls, new) ==
  /\ AllLines(r) /\ NamesOnce(r) /\ NamesOf(r) = NamesOf(ls) \cup {new.name}
  /\ \A l \in ToSet(r) : l \in ToSet(ls) \/ l.name = new.name
  /\ \A l \in ToSet(ls) : l.name # new.name => l \in ToSet(r)
  /\ \A l \in ToSet(r) : \E o \in ToSet(ls) \cup {new} : o.name = l.name /\ o.op = l.op
  /\ \A n, w : Has(r, n, w) <=> Has(ls, n, w) \/ (n = new.name /\ w \in ToSet(new.val))

LEMMA AppendLineHolds ==
  ASSUME NEW ls, AllLines(ls), NamesOnce(ls), NEW new, IsLine(new), new.name[1] # "do_install()"
  PROVE  JoinedTo(AppendLine(ls, new), ls, new)
<1> DEFINE r == AppendLine(ls, new)
           N == LinesNamed(ls, new.name)
<1>1. IsSeq(ls) /\ (\A l \in ToSet(ls) : IsLine(l)) /\ DOMAIN ls = 1..Len(ls) /\ Len(ls) \in Nat
  BY SeqHolds DEF AllLines, IsSeq
<1>2. CASE N = {}
  <2>1. r = Append(ls, new)
    BY <1>2 DEF AppendLine
  <2>2. /\ IsSeq(r) /\ DOMAIN r = 1..(Len(ls) + 1) /\ (\A i \in 1..Len(ls) : r[i] = ls[i])
        /\ r[Len(ls) + 1] = new /\ ToSet(r) = ToSet(ls) \cup {new}
    BY <1>1, <2>1, AppendHolds
  <2> HIDE DEF r
  <2>3. new.name \notin NamesOf(ls)
    BY <1>2, NamedIs
  <2>4. NamesOnce(r)
    <3>1. \A i \in 1..Len(ls) : ls[i].name # new.name
      BY <1>1, <2>3 DEF NamesOf, ToSet
    <3>2. \A i \in 1..(Len(ls) + 1) : i \in 1..Len(ls) \/ i = Len(ls) + 1
      BY <1>1
    <3>3. QED
      BY <1>1, <2>2, <3>1, <3>2 DEF NamesOnce
  <2>5. AllLines(r) /\ NamesOf(r) = NamesOf(ls) \cup {new.name}
    BY <1>1, <2>2 DEF AllLines, NamesOf
  <2>6. \A n, w : Has(r, n, w) <=> Has(ls, n, w) \/ (n = new.name /\ w \in ToSet(new.val))
    BY <2>2 DEF Has
  <2>7. QED
    BY <2>2, <2>4, <2>5, <2>6 DEF JoinedTo, r
<1>3. CASE N # {}
  <2> DEFINE k == First(N)
             o == ls[k]
             v == o.val \o new.val
             x == [name |-> o.name, op |-> o.op, val |-> v, lead |-> o.lead]
  <2>1. k \in DOMAIN ls /\ o.name = new.name /\ o \in ToSet(ls)
    BY <1>1, <1>3, FirstNamed
  <2>2. IsLine(o) /\ IsSeq(o.val) /\ IsSeq(new.val)
        /\ o = [name |-> o.name, op |-> o.op, val |-> o.val, lead |-> o.lead]
    BY <1>1, <2>1, LineHolds
  <2>3. IsSeq(v) /\ ToSet(v) = ToSet(o.val) \cup ToSet(new.val)
    BY <2>2, JoinHolds
  <2>4. r = [ls EXCEPT ![k] = [o EXCEPT !.val = v]]
    BY <1>3 DEF AppendLine
  <2> HIDE DEF v
  <2>5. [o EXCEPT !.val = v] = x
    BY <2>2
  <2>6. IsLine(x) /\ x.name = new.name /\ x.op = o.op /\ x.val = v
    <3>1. o.name[1] # "do_install()"
      BY <2>1
    <3>2. x = NewLine(o.name, o.op, v, o.lead)
      BY DEF NewLine
    <3> HIDE DEF x, o
    <3>3. QED
      BY <2>1, <2>2, <2>3, <3>1, <3>2, NewLineIs
  <2> HIDE DEF r, x, o, k
  <2>7. DOMAIN r = DOMAIN ls /\ r[k] = x /\ \A i \in DOMAIN ls : i # k => r[i] = ls[i]
    BY <1>1, <2>1, <2>4, <2>5
  <2>8. r = [i \in DOMAIN ls |-> r[i]]
    BY <1>1, <2>4
  <2>9. IsSeq(r)
    BY <1>1, <2>8, MappedHolds
  <2>10. \A i \in DOMAIN ls : r[i].name = ls[i].name
    BY <2>1, <2>6, <2>7 DEF o
  <2>11. NamesOnce(r)
    BY <2>7, <2>10 DEF NamesOnce
  <2>12. NamesOf(r) = NamesOf(ls) /\ new.name \in NamesOf(ls)
    <3>1. NamesOf(r) = {r[i].name : i \in DOMAIN r} /\ NamesOf(ls) = {ls[i].name : i \in DOMAIN ls}
      BY DEF NamesOf, ToSet
    <3>2. QED
      BY <2>1, <2>7, <2>10, <3>1 DEF o
  <2>13. \A i \in DOMAIN ls : ls[i].name = new.name => i = k
    BY <2>1 DEF NamesOnce, o
  <2>14. ToSet(r) = {l \in ToSet(ls) : l.name # new.name} \cup {x}
    <3>1. ToSet(r) = {r[i] : i \in DOMAIN ls} /\ ToSet(ls) = {ls[i] : i \in DOMAIN ls}
      BY <2>7 DEF ToSet
    <3>2. \A i \in DOMAIN ls : i = k <=> ls[i].name = new.name
      BY <2>1, <2>13 DEF o
    <3>3. QED
      BY <2>1, <2>7, <3>1, <3>2
  <2>15. AllLines(r)
    BY <1>1, <2>6, <2>9, <2>14 DEF AllLines
  <2>16. \A l \in ToSet(ls) : l.name = new.name => l = o
    BY <2>13 DEF ToSet, o
  <2>17. ASSUME NEW n, NEW w PROVE Has(r, n, w) <=> Has(ls, n, w) \/ (n = new.name /\ w \in ToSet(new.val))
    BY <2>1, <2>3, <2>6, <2>14, <2>16 DEF Has
  <2>18. \A l \in ToSet(r) : \E a \in ToSet(ls) \cup {new} : a.name = l.name /\ a.op = l.op
    BY <2>1, <2>6, <2>14
  <2>19. NamesOf(r) = NamesOf(ls) \cup {new.name}
    BY <2>12
  <2>20. QED
    BY <2>6, <2>11, <2>14, <2>15, <2>17, <2>18, <2>19 DEF JoinedTo, r
<1>4. QED
  BY <1>2, <1>3

LEMMA PoppedHolds ==
  ASSUME NEW ls, AllLines(ls), NamesOnce(ls), NEW n
  PROVE  /\ AllLines(Popped(ls, n)) /\ NamesOnce(Popped(ls, n))
         /\ ToSet(Popped(ls, n)) = {l \in ToSet(ls) : l.name # n}
<1>1. IsSeq(ls) /\ (\A l \in ToSet(ls) : IsLine(l)) /\ DOMAIN ls = 1..Len(ls) /\ Len(ls) \in Nat
  BY SeqHolds DEF AllLines, IsSeq
<1>2. CASE LinesNamed(ls, n) = {}
  <2>1. Popped(ls, n) = ls /\ \A l \in ToSet(ls) : l.name # n
    BY <1>2 DEF Popped, LinesNamed, ToSet
  <2>2. QED
    BY <2>1
<1>3. CASE LinesNamed(ls, n) # {}
  <2> DEFINE k == First(LinesNamed(ls, n))
             r == Popped(ls, n)
             N == Len(ls)
             At(i) == IF i < k THEN i ELSE i + 1
  <2>1. k \in 1..N /\ ls[k].name = n /\ N \in Nat
    BY <1>1, <1>3, FirstNamed
  <2>2. r = SubSeq(ls, 1, k - 1) \o SubSeq(ls, k + 1, N)
    BY <1>3 DEF Popped, RemoveAt
  <2> HIDE DEF k, r
  <2>3. DOMAIN r = 1..(N - 1) /\ IsSeq(r) /\ \A i \in 1..(N - 1) : r[i] = ls[At(i)]
    <3> DEFINE S == ToSet(ls)
    <3>1. ls \in Seq(S) /\ N = Len(ls)
      BY <1>1 DEF IsSeq
    <3> HIDE DEF S, N
    <3> DEFINE a == SubSeq(ls, 1, k - 1)
               b == SubSeq(ls, k + 1, N)
    <3>2. a \in Seq(S) /\ Len(a) = k - 1 /\ \A i \in 1..(k - 1) : a[i] = ls[i]
      BY <2>1, <3>1, SMTT(30)
    <3>3. b \in Seq(S) /\ Len(b) = N - k /\ \A i \in 1..(N - k) : b[i] = ls[k + i]
      BY <2>1, <3>1, SMTT(30)
    <3>4. r = a \o b
      BY <2>2
    <3> HIDE DEF a, b
    <3>5. IsSeq(a) /\ IsSeq(b)
      BY <3>2, <3>3, SeqHolds
    <3>6. /\ IsSeq(r) /\ DOMAIN r = 1..(k - 1 + (N - k))
          /\ \A i \in 1..(k - 1) : r[i] = a[i]
          /\ \A i \in 1..(N - k) : r[k - 1 + i] = b[i]
      BY <3>2, <3>3, <3>4, <3>5, JoinHolds
    <3>7. k - 1 + (N - k) = N - 1
      BY <2>1
    <3>8. ASSUME NEW i \in 1..(N - 1) PROVE r[i] = ls[At(i)]
      <4>1. CASE i < k
        <5>1. i \in 1..(k - 1)
          BY <2>1, <4>1
        <5>2. QED
          BY <3>2, <3>6, <4>1, <5>1
      <4>2. CASE ~(i < k)
        <5>1. i - k + 1 \in 1..(N - k) /\ k - 1 + (i - k + 1) = i /\ k + (i - k + 1) = i + 1
          BY <2>1, <4>2
        <5>2. r[i] = b[i - k + 1] /\ b[i - k + 1] = ls[i + 1]
          BY <3>3, <3>6, <5>1
        <5>3. QED
          BY <4>2, <5>2
      <4>3. QED
        BY <4>1, <4>2
    <3>9. QED
      BY <3>6, <3>7, <3>8
  <2> HIDE DEF N
  <2>4. \A i \in 1..(N - 1) : At(i) \in 1..N /\ At(i) # k
    BY <2>1
  <2>5. \A i, j \in 1..(N - 1) : At(i) = At(j) => i = j
    BY <2>1
  <2>6. \A j \in 1..N : j # k => \E i \in 1..(N - 1) : At(i) = j
    <3> SUFFICES ASSUME NEW j \in 1..N, j # k PROVE \E i \in 1..(N - 1) : At(i) = j
      OBVIOUS
    <3>1. CASE j < k
      <4>1. j \in 1..(N - 1) /\ At(j) = j
        BY <2>1, <3>1
      <4>2. QED
        BY <4>1
    <3>2. CASE ~(j < k)
      <4>1. j - 1 \in 1..(N - 1) /\ At(j - 1) = j
        BY <2>1, <3>2
      <4>2. QED
        BY <4>1
    <3>3. QED
      BY <3>1, <3>2
  <2>7. DOMAIN ls = 1..N
    BY <1>1 DEF N
  <2> HIDE DEF At
  <2>8. \A j \in 1..N : j # k <=> ls[j].name # n
    BY <2>1, <2>7 DEF NamesOnce
  <2>9. ToSet(r) = {l \in ToSet(ls) : l.name # n}
    <3>1. ToSet(r) = {ls[At(i)] : i \in 1..(N - 1)}
      BY <2>3, Zenon DEF ToSet
    <3>2. ToSet(ls) = {ls[j] : j \in 1..N}
      BY <2>7 DEF ToSet
    <3>3. QED
      BY <2>4, <2>6, <2>8, <3>1, <3>2
  <2>10. NamesOnce(r)
    BY <2>3, <2>4, <2>5, <2>7 DEF NamesOnce
  <2>11. AllLines(r)
    BY <1>1, <2>3, <2>9 DEF AllLines
  <2>12. QED
    BY <2>9, <2>10, <2>11 DEF r
<1>4. QED
  BY <1>2, <1>3

-----------------------------------------------------------------------------
(* The lines for one call, before the file is read.                         *)

LEMMA OldHolds ==
  ASSUME IsSeq(rd), NEW f, OldOnes(f) # {}
  PROVE  /\ OldEntry(f) \in ToSet(rd) /\ OldEntry(f).file = f
         /\ \E i \in OldOnes(f) : OldEntry(f) = rd[i] /\ \A j \in OldOnes(f) : j <= i
<1> DEFINE n == Len(rd)
           T == {n - i : i \in OldOnes(f)}
<1>1. n \in Nat /\ DOMAIN rd = 1..n /\ OldOnes(f) \subseteq 1..n
  BY SeqHolds DEF IsSeq, OldOnes
<1> HIDE DEF n
<1>2. T \subseteq Nat /\ T # {}
  BY <1>1
<1> HIDE DEF T
<1>3. PICK m \in T : \A k \in T : m <= k
  BY <1>2, LeastNumber
<1>4. PICK i \in OldOnes(f) : m = n - i
  BY <1>3 DEF T
<1>5. \A j \in OldOnes(f) : j <= i
  <2>1. \A j \in OldOnes(f) : n - j \in T
    BY DEF T
  <2>2. QED
    BY <1>1, <1>3, <1>4, <2>1
<1>6. \E x \in OldOnes(f) : OldEntry(f) = rd[x] /\ \A j \in OldOnes(f) : j <= x
  BY <1>5 DEF OldEntry
<1>7. QED
  BY <1>6 DEF OldOnes, ToSet

AddName(c) == IF c.machine = Unsaid THEN SrcUri("", Unsaid) ELSE SrcUri(":append", c.machine)
OutName(c) == SrcUri(":remove", c.machine)
Instead(c) == inRecipe /\ c.machine = Unsaid
Fresh(s) == ~s.listed /\ EntryOf(s) \notin ToSet(rd)
Stale(c, k) == {j \in 1..k : Fresh(c.srcs[j]) /\ OldOnes(c.srcs[j].file) # {}}

\* The first k sources of the call have been looked at.
Tells(acc, c, k) ==
  /\ acc = [lines |-> acc.lines, remove |-> acc.remove]
  /\ AllLines(acc.lines) /\ NamesOnce(acc.lines)
  /\ Instead(c) => OutName(c) \notin NamesOf(acc.lines)
  /\ \A l \in ToSet(acc.lines) :
        /\ l.name = SrcUri("", Unsaid) => l.op = "+="
        /\ l.name = ExtraPaths => ~inRecipe /\ c.srcs # <<>> /\ l.val = <<"PN">>
  /\ ~inRecipe /\ c.srcs # <<>> => ExtraPaths \in NamesOf(acc.lines)
  /\ \A w : Has(acc.lines, AddName(c), w)
            <=> \E j \in 1..k : Fresh(c.srcs[j]) /\ w = EntryOf(c.srcs[j])
  /\ \A w : Has(acc.lines, OutName(c), w)
            => ~Instead(c) /\ \E j \in Stale(c, k) : w = OldEntry(c.srcs[j].file)
  /\ \/ acc.remove = c.remove
     \/ Instead(c) /\ \E j \in Stale(c, k) : acc.remove = {OldEntry(c.srcs[j].file)}

AccIs(acc, c, k) ==
  Tells(acc, c, k) /\ NamesOf(acc.lines) \subseteq {ExtraPaths, PackageArch, OutName(c), AddName(c)}

LEMMA NamesDiffer ==
  ASSUME NEW c
  PROVE  /\ ExtraPaths # PackageArch /\ ExtraPaths # OutName(c) /\ ExtraPaths # AddName(c)
         /\ PackageArch # OutName(c) /\ PackageArch # AddName(c) /\ OutName(c) # AddName(c)
         /\ ExtraPaths[1] # "do_install()" /\ PackageArch[1] # "do_install()"
         /\ OutName(c)[1] # "do_install()" /\ AddName(c)[1] # "do_install()"
         /\ SrcUri("", Unsaid) \notin {ExtraPaths, PackageArch, OutName(c)}
         /\ ExtraPaths[1] = "FILESEXTRAPATHS" /\ PackageArch[1] = "PACKAGE_ARCH"
         /\ SrcUri("", Unsaid)[1] = "SRC_URI" /\ OutName(c)[1] = "SRC_URI" /\ AddName(c)[1] = "SRC_URI"
         /\ \A ov : ExtraPaths # DoInstall(ov) /\ PackageArch # DoInstall(ov) /\ OutName(c) # DoInstall(ov)
                    /\ AddName(c) # DoInstall(ov)
BY DEF ExtraPaths, PackageArch, OutName, AddName, SrcUri, DoInstall

LEMMA SourceAdded ==
  ASSUME IsSeq(rd), NEW c \in AppendCalls, NEW k \in Nat, k + 1 \in DOMAIN c.srcs, NEW acc, AccIs(acc, c, k)
  PROVE  AccIs(WithSource(acc, c, c.srcs[k + 1]), c, k + 1)
<1> DEFINE s == c.srcs[k + 1]
           entry == EntryOf(s)
           old   == OldEntry(s.file)
           ov    == c.machine
           instead == inRecipe /\ ov = Unsaid
           gone  == NewLine(SrcUri(":remove", ov), "=", <<old>>, ov # Unsaid)
           out   == IF OldOnes(s.file) = {} \/ instead THEN acc.lines ELSE AppendLine(acc.lines, gone)
           add   == IF ov = Unsaid THEN NewLine(SrcUri("", Unsaid), "+=", <<entry>>, FALSE)
                    ELSE NewLine(SrcUri(":append", ov), "=", <<entry>>, TRUE)
           r     == WithSource(acc, c, s)
<1>2. 1..(k + 1) = (1..k) \cup {k + 1}
  OBVIOUS
<1>3. Instead(c) <=> instead
  BY DEF Instead
<1>4. CASE ~Fresh(s)
  <2>1. r = acc
    BY <1>4 DEF WithSource, Fresh
  <2>2. Stale(c, k + 1) = Stale(c, k)
    BY <1>2, <1>4 DEF Stale
  <2>3. \A w : (\E j \in 1..(k + 1) : Fresh(c.srcs[j]) /\ w = EntryOf(c.srcs[j]))
               <=> (\E j \in 1..k : Fresh(c.srcs[j]) /\ w = EntryOf(c.srcs[j]))
    BY <1>2, <1>4
  <2>4. QED
    BY <2>1, <2>2, <2>3 DEF AccIs, Tells
<1>5. CASE Fresh(s)
  <2>1. r = [lines |-> AppendLine(out, add),
             remove |-> IF OldOnes(s.file) # {} /\ instead THEN {old} ELSE acc.remove]
    BY <1>5 DEF WithSource, Fresh
  <2>2. /\ IsLine(add) /\ add.name = AddName(c) /\ add.val = <<entry>>
        /\ add.name = SrcUri("", Unsaid) => add.op = "+="
    <3>1. IsSeq(<<entry>>)
      BY OneSeq
    <3>2. CASE ov = Unsaid
      <4>1. add = NewLine(SrcUri("", Unsaid), "+=", <<entry>>, FALSE) /\ AddName(c) = SrcUri("", Unsaid)
        BY <3>2 DEF AddName
      <4>2. AddName(c)[1] # "do_install()"
        BY NamesDiffer
      <4> DEFINE v == <<entry>>
                 n == SrcUri("", Unsaid)
                 d == FALSE
                 x == NewLine(n, "+=", v, d)
      <4>3. IsLine(x) /\ x.name = n /\ x.val = v /\ x.op = "+="
        <5>1. IsSeq(v) /\ n[1] # "do_install()"
          BY <3>1, <4>1, <4>2
        <5> HIDE DEF v, n, d
        <5>2. QED
          BY <5>1, NewLineIs
      <4>4. add = x
        BY <4>1
      <4> HIDE DEF add, x
      <4>5. QED
        BY <4>1, <4>3, <4>4
    <3>3. CASE ov # Unsaid
      <4>1. add = NewLine(SrcUri(":append", ov), "=", <<entry>>, TRUE) /\ AddName(c) = SrcUri(":append", ov)
        BY <3>3 DEF AddName
      <4>2. AddName(c)[1] # "do_install()"
        BY NamesDiffer
      <4>3. SrcUri(":append", ov) # SrcUri("", Unsaid)
        BY DEF SrcUri
      <4> DEFINE v == <<entry>>
                 n == SrcUri(":append", ov)
                 d == TRUE
                 x == NewLine(n, "=", v, d)
      <4>4. IsLine(x) /\ x.name = n /\ x.val = v
        <5>1. IsSeq(v) /\ n[1] # "do_install()"
          BY <3>1, <4>1, <4>2
        <5> HIDE DEF v, n, d
        <5>2. QED
          BY <5>1, NewLineIs
      <4>5. add = x
        BY <4>1
      <4> HIDE DEF add, x
      <4>6. QED
        BY <4>1, <4>3, <4>4, <4>5
    <3>4. QED
      BY <3>2, <3>3
  <2>3. IsLine(gone) /\ gone.name = OutName(c) /\ gone.val = <<old>>
    <3>1. IsSeq(<<old>>)
      BY OneSeq
    <3>2. OutName(c) = SrcUri(":remove", ov) /\ OutName(c)[1] # "do_install()"
      BY NamesDiffer DEF OutName
    <3> DEFINE d == ov # Unsaid
               v == <<old>>
               n == SrcUri(":remove", ov)
               x == NewLine(n, "=", v, d)
    <3>4. IsLine(x) /\ x.name = n /\ x.val = v
      <4>1. IsSeq(v) /\ n[1] # "do_install()"
        BY <3>1, <3>2
      <4> HIDE DEF v, n, d
      <4>2. QED
        BY <4>1, NewLineIs
    <3>5. gone = x
      OBVIOUS
    <3> HIDE DEF gone, x
    <3>6. QED
      BY <3>2, <3>4, <3>5
  <2> DEFINE a == acc.lines
             m == AppendLine(out, add)
  <2>4. /\ AllLines(a) /\ NamesOnce(a) /\ NamesOf(a) \subseteq {ExtraPaths, PackageArch, OutName(c), AddName(c)}
        /\ Instead(c) => OutName(c) \notin NamesOf(a)
    BY DEF AccIs, Tells
  <2>5. /\ AllLines(out) /\ NamesOnce(out) /\ NamesOf(out) \subseteq NamesOf(a) \cup {OutName(c)}
        /\ NamesOf(a) \subseteq NamesOf(out)
        /\ Instead(c) => NamesOf(out) = NamesOf(a)
        /\ \A l \in ToSet(out) : l \in ToSet(a) \/ l.name = OutName(c)
        /\ \A n, w : Has(out, n, w) => Has(a, n, w) \/ (n = OutName(c) /\ w = old /\ ~Instead(c) /\ OldOnes(s.file) # {})
        /\ \A n, w : Has(a, n, w) => Has(out, n, w)
    <3>1. CASE OldOnes(s.file) = {} \/ instead
      <4>1. out = a
        BY <3>1
      <4> HIDE DEF out, a
      <4>2. QED
        BY <2>4, <4>1
    <3>2. CASE ~(OldOnes(s.file) = {} \/ instead)
      <4>1. out = AppendLine(a, gone)
        BY <3>2
      <4>2. ToSet(<<old>>) = {old}
        BY OneSeq
      <4>3. gone.name[1] # "do_install()"
        BY <2>3, NamesDiffer
      <4> HIDE DEF out, a, gone, old
      <4>4. /\ AllLines(out) /\ NamesOnce(out) /\ NamesOf(out) = NamesOf(a) \cup {gone.name}
            /\ \A l \in ToSet(out) : l \in ToSet(a) \/ l.name = gone.name
            /\ \A n, w : Has(out, n, w) <=> Has(a, n, w) \/ (n = gone.name /\ w \in ToSet(gone.val))
        BY <2>3, <2>4, <4>1, <4>3, AppendLineHolds DEF JoinedTo
      <4>5. QED
        BY <1>3, <2>3, <3>2, <4>2, <4>4
    <3>3. QED
      BY <3>1, <3>2
  <2> HIDE DEF out, a, add
  <2>6. /\ AllLines(m) /\ NamesOnce(m) /\ NamesOf(m) = NamesOf(out) \cup {AddName(c)}
        /\ \A l \in ToSet(m) : l \in ToSet(out) \/ l.name = AddName(c)
        /\ \A l \in ToSet(m) : \E o \in ToSet(out) \cup {add} : o.name = l.name /\ o.op = l.op
        /\ \A n, w : Has(m, n, w) <=> Has(out, n, w) \/ (n = AddName(c) /\ w = entry)
    <3>1. ToSet(add.val) = {entry}
      BY <2>2, OneSeq
    <3>2. add.name[1] # "do_install()"
      BY <2>2, NamesDiffer
    <3> HIDE DEF entry
    <3>3. /\ AllLines(m) /\ NamesOnce(m) /\ NamesOf(m) = NamesOf(out) \cup {add.name}
          /\ \A l \in ToSet(m) : l \in ToSet(out) \/ l.name = add.name
          /\ \A l \in ToSet(m) : \E o \in ToSet(out) \cup {add} : o.name = l.name /\ o.op = l.op
          /\ \A n, w : Has(m, n, w) <=> Has(out, n, w) \/ (n = add.name /\ w \in ToSet(add.val))
      <4>1. JoinedTo(m, out, add)
        BY <2>2, <2>5, <3>2, AppendLineHolds
      <4> HIDE DEF m, out
      <4>2. QED
        BY <4>1 DEF JoinedTo
    <3>4. \A n, w : Has(m, n, w) <=> Has(out, n, w) \/ (n = AddName(c) /\ w = entry)
      <4>1. add.name = AddName(c)
        BY <2>2
      <4> SUFFICES ASSUME NEW n, NEW w
                   PROVE  Has(m, n, w) <=> Has(out, n, w) \/ (n = AddName(c) /\ w = entry)
        OBVIOUS
      <4>2. Has(m, n, w) <=> Has(out, n, w) \/ (n = add.name /\ w \in ToSet(add.val))
        BY <3>3, Zenon
      <4>3. w \in ToSet(add.val) <=> w = entry
        BY <3>1
      <4>4. QED
        BY <4>1, <4>2, <4>3, Zenon
    <3>5. QED
      BY <2>2, <3>3, <3>4, Zenon
  <2> HIDE DEF m
  <2>7. NamesOf(m) \subseteq {ExtraPaths, PackageArch, OutName(c), AddName(c)}
        /\ (Instead(c) => OutName(c) \notin NamesOf(m))
    BY <2>4, <2>5, <2>6, NamesDiffer
  <2>8. ASSUME NEW l \in ToSet(m)
        PROVE  /\ l.name = SrcUri("", Unsaid) => l.op = "+="
               /\ l.name = ExtraPaths => ~inRecipe /\ c.srcs # <<>> /\ l.val = <<"PN">>
    <3>1. ASSUME NEW o \in ToSet(a)
          PROVE  /\ o.name = SrcUri("", Unsaid) => o.op = "+="
                 /\ o.name = ExtraPaths => ~inRecipe /\ c.srcs # <<>> /\ o.val = <<"PN">>
      BY <3>1 DEF AccIs, Tells, a
    <3>2. l.name = SrcUri("", Unsaid) => l.op = "+="
      <4>1. PICK o \in ToSet(out) \cup {add} : o.name = l.name /\ o.op = l.op
        BY <2>6
      <4>2. QED
        BY <2>2, <2>5, <3>1, <4>1, NamesDiffer
    <3>3. l.name = ExtraPaths => l \in ToSet(a)
      BY <2>5, <2>6, NamesDiffer
    <3>4. QED
      BY <3>1, <3>2, <3>3
  <2>9. ~inRecipe /\ c.srcs # <<>> => ExtraPaths \in NamesOf(m)
    BY <2>5, <2>6 DEF AccIs, Tells, a
  <2>10. ASSUME NEW w
         PROVE  Has(m, AddName(c), w) <=> \E j \in 1..(k + 1) : Fresh(c.srcs[j]) /\ w = EntryOf(c.srcs[j])
    <3>1. Has(out, AddName(c), w) <=> Has(a, AddName(c), w)
      BY <2>5, NamesDiffer
    <3>2. Has(a, AddName(c), w) <=> \E j \in 1..k : Fresh(c.srcs[j]) /\ w = EntryOf(c.srcs[j])
      BY DEF AccIs, Tells, a
    <3>3. QED
      BY <1>2, <1>5, <2>6, <3>1, <3>2
  <2>11. \A j \in Stale(c, k) : j \in Stale(c, k + 1)
    BY <1>2 DEF Stale
  <2>12. OldOnes(s.file) # {} => k + 1 \in Stale(c, k + 1)
    BY <1>5 DEF Stale
  <2>13. ASSUME NEW w, Has(m, OutName(c), w)
         PROVE  ~Instead(c) /\ \E j \in Stale(c, k + 1) : w = OldEntry(c.srcs[j].file)
    <3>1. Has(out, OutName(c), w)
      BY <2>6, <2>13, NamesDiffer
    <3>2. CASE Has(a, OutName(c), w)
      <4>1. ~Instead(c) /\ \E j \in Stale(c, k) : w = OldEntry(c.srcs[j].file)
        BY <3>2 DEF AccIs, Tells, a
      <4>2. QED
        BY <2>11, <4>1
    <3>3. CASE w = old /\ ~Instead(c) /\ OldOnes(s.file) # {}
      BY <2>12, <3>3
    <3>4. QED
      BY <2>5, <3>1, <3>2, <3>3
  <2>14. r.lines = m /\ r.remove = (IF OldOnes(s.file) # {} /\ instead THEN {old} ELSE acc.remove)
         /\ r = [lines |-> r.lines, remove |-> r.remove]
    BY <2>1 DEF m
  <2> HIDE DEF r
  <2>15. \/ r.remove = c.remove
         \/ Instead(c) /\ \E j \in Stale(c, k + 1) : r.remove = {OldEntry(c.srcs[j].file)}
    <3>1. CASE OldOnes(s.file) # {} /\ instead
      BY <1>3, <2>12, <2>14, <3>1
    <3>2. CASE ~(OldOnes(s.file) # {} /\ instead)
      <4>1. r.remove = acc.remove
        BY <2>14, <3>2
      <4>2. QED
        BY <2>11, <4>1 DEF AccIs, Tells
    <3>3. QED
      BY <3>1, <3>2
  <2>16. AccIs(r, c, k + 1)
    BY <2>6, <2>7, <2>8, <2>9, <2>10, <2>13, <2>14, <2>15 DEF AccIs, Tells
  <2>17. QED
    BY <2>16 DEF r
<1>6. QED
  BY <1>4, <1>5

LEMMA TwoSeq ==
  ASSUME NEW x, NEW y
  PROVE  /\ IsSeq(<<x, y>>) /\ ToSet(<<x, y>>) = {x, y} /\ DOMAIN <<x, y>> = {1, 2}
         /\ <<x, y>>[1] = x /\ <<x, y>>[2] = y
<1>1. <<x, y>> \in Seq({x, y}) /\ Len(<<x, y>>) = 2 /\ <<x, y>>[1] = x /\ <<x, y>>[2] = y
  OBVIOUS
<1>2. DOMAIN <<x, y>> = {1, 2}
  OBVIOUS
<1>3. IsSeq(<<x, y>>)
  BY <1>1, SeqHolds
<1> DEFINE s == <<x, y>>
<1>4. ToSet(s) = {s[i] : i \in DOMAIN s}
  BY DEF ToSet
<1>5. QED
  BY <1>1, <1>2, <1>3, <1>4

\* Every file is installed by one line.
LEMMA InstallHolds ==
  ASSUME NEW c \in AppendCalls
  PROVE  IsSeq(InstallLines(c)) /\ OnceOf(InstallLines(c), ToSet(InstallLines(c)))
<1> DEFINE srcs == c.srcs
           G == [i \in DOMAIN srcs |-> IF srcs[i].install = Unsaid THEN <<>>
                                       ELSE <<<<"-d", srcs[i].install>>, <<"-m", srcs[i].file>>>>]
           each == FlattenSeq(G)
           P == {<<"-m", srcs[i].file>> : i \in DOMAIN srcs}
           K == {i \in DOMAIN each : each[i][1] = "-m" \/ \A j \in 1..(i - 1) : each[j] # each[i]}
<1>1. IsSeq(srcs) /\ \A i, j \in DOMAIN srcs : srcs[i].file = srcs[j].file => i = j
  BY AppendAssumption DEF IsSeq
<1>2. InstallLines(c) = Picked(each, K)
  BY DEF InstallLines
<1> HIDE DEF srcs
<1>3. IsSeq(G) /\ DOMAIN G = DOMAIN srcs
  BY <1>1, MappedHolds
<1>4. ASSUME NEW i \in DOMAIN srcs
      PROVE  /\ IsSeq(G[i]) /\ OnceOf(G[i], P)
             /\ \A w \in ToSet(G[i]) : w = <<"-d", srcs[i].install>> \/ w = <<"-m", srcs[i].file>>
  <2>1. CASE srcs[i].install = Unsaid
    <3>1. G[i] = <<>>
      BY <2>1
    <3>2. QED
      BY <3>1, NoElements DEF OnceOf
  <2>2. CASE srcs[i].install # Unsaid
    <3> DEFINE x == <<"-d", srcs[i].install>>
               y == <<"-m", srcs[i].file>>
    <3>1. G[i] = <<x, y>>
      BY <2>2
    <3>2. x \notin P /\ x # y
      OBVIOUS
    <3> HIDE DEF G, x, y, P
    <3>3. IsSeq(<<x, y>>) /\ ToSet(<<x, y>>) = {x, y} /\ DOMAIN <<x, y>> = {1, 2}
          /\ <<x, y>>[1] = x /\ <<x, y>>[2] = y
      BY TwoSeq
    <3>4. OnceOf(G[i], P)
      BY <3>1, <3>2, <3>3 DEF OnceOf
    <3>5. QED
      BY <3>1, <3>3, <3>4 DEF x, y
  <2>3. QED
    BY <2>1, <2>2
<1> HIDE DEF G
<1>5. ASSUME NEW j \in DOMAIN G, NEW k \in DOMAIN G, NEW w \in P, w \in ToSet(G[j]), w \in ToSet(G[k])
      PROVE  j = k
  <2>1. w[1] = "-m" /\ \E i \in DOMAIN srcs : w = <<"-m", srcs[i].file>>
    OBVIOUS
  <2>2. w # <<"-d", srcs[j].install>> /\ w # <<"-d", srcs[k].install>>
    BY <2>1
  <2>3. w = <<"-m", srcs[j].file>> /\ w = <<"-m", srcs[k].file>>
    BY <1>3, <1>4, <1>5, <2>2
  <2>4. srcs[j].file = srcs[k].file
    BY <2>3
  <2>5. QED
    BY <1>1, <1>3, <2>4
<1>6. IsSeq(each) /\ ToSet(each) = UNION {ToSet(G[k]) : k \in DOMAIN G}
  BY <1>3, <1>4, FlattenHolds
<1>7. OnceOf(each, P)
  BY <1>3, <1>4, <1>5, FlattenOnce
<1>8. ASSUME NEW w \in ToSet(each), w[1] = "-m" PROVE w \in P
  <2>1. PICK i \in DOMAIN srcs : w \in ToSet(G[i])
    BY <1>3, <1>6
  <2>2. w = <<"-d", srcs[i].install>> \/ w = <<"-m", srcs[i].file>>
    BY <1>4, <2>1
  <2>3. QED
    BY <1>8, <2>2
<1>9. DOMAIN each \subseteq Nat /\ \A i \in DOMAIN each : each[i] \in ToSet(each) /\ i \in 1..Len(each)
  BY <1>6, SeqHolds DEF IsSeq, ToSet
<1> HIDE DEF each, P
<1>10. ASSUME NEW i \in K \cap DOMAIN each, NEW j \in K \cap DOMAIN each, each[i] = each[j] PROVE i = j
  <2>1. CASE each[i][1] = "-m"
    BY <1>7, <1>8, <1>9, <1>10, <2>1 DEF OnceOf
  <2>2. CASE each[i][1] # "-m"
    <3>1. (\A m \in 1..(i - 1) : each[m] # each[i]) /\ (\A m \in 1..(j - 1) : each[m] # each[j])
      BY <1>10, <2>2
    <3>2. i \in Nat /\ j \in Nat /\ 1 <= i /\ 1 <= j
      BY <1>9
    <3>3. ~(i < j) /\ ~(j < i)
      BY <1>10, <3>1, <3>2
    <3>4. QED
      BY <3>2, <3>3
  <2>3. QED
    BY <2>1, <2>2
<1> HIDE DEF K
<1>11. IsSeq(Picked(each, K)) /\ ToSet(Picked(each, K)) = {each[i] : i \in K \cap DOMAIN each}
  BY <1>6, ChosenHolds
<1>12. OnceOf(Picked(each, K), ToSet(each))
  BY <1>6, <1>10, ChosenOnce
<1>13. ToSet(Picked(each, K)) \subseteq ToSet(each)
  BY <1>9, <1>11
<1>14. OnceOf(Picked(each, K), ToSet(Picked(each, K)))
  BY <1>12, <1>13 DEF OnceOf
<1>15. QED
  BY <1>2, <1>11, <1>14

\* What bbappend_recipe has put together for each of the first n sources.
FirstLines(c) ==
  (IF ~inRecipe /\ c.srcs # <<>> THEN <<NewLine(ExtraPaths, ":=", <<"PN">>, FALSE)>> ELSE <<>>)
  \o (IF c.machine # Unsaid THEN <<NewLine(PackageArch, "=", <<"MACHINE_ARCH">>, FALSE)>> ELSE <<>>)

AccUpTo(f, c, n) ==
  f = [i \in 0..n |-> IF i = 0 THEN [lines |-> FirstLines(c), remove |-> c.remove]
                      ELSE WithSource(f[i - 1], c, c.srcs[i])]

LEMMA AccExists ==
  ASSUME NEW c, NEW n \in Nat
  PROVE  \E f : AccUpTo(f, c, n)
<1> DEFINE T == {m \in Nat : ~ \E f : AccUpTo(f, c, m)}
           Start == [lines |-> FirstLines(c), remove |-> c.remove]
           Step(f, k) == IF k = 0 THEN Start ELSE WithSource(f[k - 1], c, c.srcs[k])
<1>1. SUFFICES ASSUME T # {} PROVE FALSE
  OBVIOUS
<1>2. PICK m \in T : \A k \in T : m <= k
  <2> HIDE DEF T
  <2>1. T \subseteq Nat
    BY DEF T
  <2> QED
    BY <1>1, <2>1, LeastNumber
<1>3. m # 0
  <2> DEFINE f == [k \in 0..0 |-> Start]
  <2>1. \A k \in 0..0 : k = 0
    OBVIOUS
  <2>2. f = [k \in 0..0 |-> Step(f, k)]
    BY <2>1
  <2>3. AccUpTo(f, c, 0)
    BY <2>2 DEF AccUpTo
  <2>4. QED
    BY <2>3
<1>4. PICK f : AccUpTo(f, c, m - 1)
  BY <1>2, <1>3
<1> DEFINE h == [k \in 0..m |-> IF k = m THEN Step(f, m) ELSE f[k]]
<1>5. AccUpTo(h, c, m)
  <2>1. ASSUME NEW k \in 0..m PROVE h[k] = Step(h, k)
    <3>1. CASE k = m
      <4>1. h[m] = Step(f, m) /\ m - 1 \in 0..m /\ m - 1 # m
        BY <1>2, <1>3
      <4>2. h[m - 1] = f[m - 1]
        BY <4>1
      <4>3. QED
        BY <1>3, <3>1, <4>1, <4>2
    <3>2. CASE k # m
      <4>1. k \in 0..(m - 1)
        BY <1>2, <3>2
      <4>2. f[k] = Step(f, k)
        BY <1>4, <4>1 DEF AccUpTo
      <4>3. h[k] = f[k]
        BY <3>2
      <4>4. k # 0 => k - 1 \in 0..m /\ k - 1 # m
        BY <1>2, <4>1
      <4>5. k # 0 => h[k - 1] = f[k - 1]
        BY <4>4
      <4>6. QED
        BY <4>2, <4>3, <4>5
    <3>3. QED
      BY <3>1, <3>2
  <2>2. h = [k \in 0..m |-> Step(h, k)]
    BY <2>1
  <2>3. QED
    BY <2>2 DEF AccUpTo
<1>6. QED
  BY <1>2, <1>5

LEMMA FirstLinesHold ==
  ASSUME IsSeq(rd), inRecipe \in BOOLEAN, NEW c \in AppendCalls
  PROVE  AccIs([lines |-> FirstLines(c), remove |-> c.remove], c, 0)
<1> DEFINE v == <<"PN">>
           u == <<"MACHINE_ARCH">>
           d == FALSE
           x == NewLine(ExtraPaths, ":=", v, d)
           y == NewLine(PackageArch, "=", u, d)
           a == IF ~inRecipe /\ c.srcs # <<>> THEN <<x>> ELSE <<>>
           b == IF c.machine # Unsaid THEN <<y>> ELSE <<>>
           r == a \o b
           acc == [lines |-> FirstLines(c), remove |-> c.remove]
<1>1. IsSeq(v) /\ IsSeq(u)
  BY OneSeq
<1>2. /\ IsLine(x) /\ x.name = ExtraPaths /\ x.val = v
      /\ IsLine(y) /\ y.name = PackageArch
  <2>1. ExtraPaths[1] # "do_install()" /\ PackageArch[1] # "do_install()"
    BY NamesDiffer
  <2> HIDE DEF v, u, d
  <2>2. QED
    BY <1>1, <2>1, NewLineIs
<1>3. acc.lines = r /\ acc.remove = c.remove /\ acc = [lines |-> acc.lines, remove |-> acc.remove]
  BY DEF FirstLines
<1> HIDE DEF x, y
<1>4. IsSeq(a) /\ ToSet(a) = {z \in {x} : ~inRecipe /\ c.srcs # <<>>} /\ \A i \in DOMAIN a : i = 1 /\ a[i] = x
  <2>1. CASE ~inRecipe /\ c.srcs # <<>>
    BY <2>1, OneSeq
  <2>2. CASE ~(~inRecipe /\ c.srcs # <<>>)
    BY <2>2, NoElements
  <2>3. QED
    BY <2>1, <2>2
<1>5. IsSeq(b) /\ ToSet(b) = {z \in {y} : c.machine # Unsaid} /\ \A i \in DOMAIN b : i = 1 /\ b[i] = y
  <2>1. CASE c.machine # Unsaid
    BY <2>1, OneSeq
  <2>2. CASE ~(c.machine # Unsaid)
    BY <2>2, NoElements
  <2>3. QED
    BY <2>1, <2>2
<1> HIDE DEF a, b
<1>6. IsSeq(r) /\ ToSet(r) = ToSet(a) \cup ToSet(b)
  BY <1>4, <1>5, JoinHolds
<1>7. NamesOnce(r)
  <2>1. OnceOf(a, {x, y}) /\ OnceOf(b, {x, y})
    BY <1>4, <1>5 DEF OnceOf
  <2>2. x # y
    BY <1>2, NamesDiffer
  <2>3. OnceOf(r, {x, y})
    BY <1>4, <1>5, <2>1, <2>2, JoinOnce
  <2>4. ToSet(r) \subseteq {x, y} /\ \A l, o \in {x, y} : l.name = o.name => l = o
    BY <1>2, <1>4, <1>5, <1>6, NamesDiffer
  <2>5. \A i \in DOMAIN r : r[i] \in ToSet(r)
    BY DEF ToSet
  <2> HIDE DEF r
  <2>6. QED
    BY <2>3, <2>4, <2>5 DEF OnceOf, NamesOnce
<1> HIDE DEF r
<1>8. AllLines(r)
  BY <1>2, <1>4, <1>5, <1>6 DEF AllLines
<1>9. \A l \in ToSet(r) : (l = x /\ ~inRecipe /\ c.srcs # <<>>) \/ (l = y /\ c.machine # Unsaid)
  BY <1>4, <1>5, <1>6
<1>10. NamesOf(r) \subseteq {ExtraPaths, PackageArch}
  BY <1>2, <1>9 DEF NamesOf
<1>11. ~inRecipe /\ c.srcs # <<>> => ExtraPaths \in NamesOf(r)
  BY <1>2, <1>4, <1>6 DEF NamesOf
<1>12. \A l \in ToSet(r) : /\ l.name = SrcUri("", Unsaid) => l.op = "+="
                           /\ l.name = ExtraPaths => ~inRecipe /\ c.srcs # <<>> /\ l.val = <<"PN">>
  BY <1>2, <1>9, NamesDiffer
<1>13. \A w : ~Has(r, AddName(c), w) /\ ~Has(r, OutName(c), w)
  BY <1>2, <1>9, NamesDiffer DEF Has
<1>14. OutName(c) \notin NamesOf(r)
  BY <1>10, NamesDiffer
<1>15. ~(\E j \in 1..0 : TRUE)
  OBVIOUS
<1> HIDE DEF acc
<1>16. AccIs(acc, c, 0)
  BY <1>3, <1>7, <1>8, <1>10, <1>11, <1>12, <1>13, <1>14, <1>15 DEF AccIs, Tells
<1>17. QED
  BY <1>16 DEF acc

PreparedIs(p, c) ==
  /\ Tells(p, c, Len(c.srcs))
  /\ NamesOf(p.lines) \subseteq {ExtraPaths, PackageArch, OutName(c), AddName(c), DoInstall(c.machine)}

LEMMA PreparedHolds ==
  ASSUME IsSeq(rd), inRecipe \in BOOLEAN, NEW c \in AppendCalls
  PROVE  PreparedIs(Prepared(c), c)
<1> DEFINE n == Len(c.srcs)
           f == CHOOSE g : AccUpTo(g, c, n)
           done == f[n]
           inst == InstallLines(c)
           p == Prepared(c)
<1>1. IsSeq(c.srcs) /\ n \in Nat /\ DOMAIN c.srcs = 1..n
  BY AppendAssumption, SeqHolds DEF IsSeq
<1>2. p = [done EXCEPT !.lines = IF inst = <<>> THEN done.lines
                                 ELSE Append(done.lines, NewLine(DoInstall(c.machine), "", inst, FALSE))]
  BY DEF Prepared, AccUpTo, FirstLines
<1> HIDE DEF n
<1>3. AccUpTo(f, c, n)
  BY <1>1, AccExists
<1> HIDE DEF f
<1>4. /\ \A i \in 0..n : f[i] = IF i = 0 THEN [lines |-> FirstLines(c), remove |-> c.remove]
                                ELSE WithSource(f[i - 1], c, c.srcs[i])
  BY <1>3, Zenon DEF AccUpTo
<1> DEFINE T == {i \in 0..n : ~AccIs(f[i], c, i)}
<1>5. ASSUME T # {} PROVE FALSE
  <2>1. PICK i \in T : \A j \in T : i <= j
    <3>1. T \subseteq Nat
      BY <1>1
    <3> HIDE DEF T
    <3> QED
      BY <1>5, <3>1, LeastNumber
  <2>2. i \in 0..n /\ ~AccIs(f[i], c, i)
    BY <2>1
  <2>3. CASE i = 0
    <3>1. f[0] = [lines |-> FirstLines(c), remove |-> c.remove]
      BY <1>4, <2>2, <2>3
    <3>2. QED
      BY <2>2, <2>3, <3>1, FirstLinesHold
  <2>4. CASE i # 0
    <3> DEFINE k == i - 1
    <3>1. k \in 0..n /\ k \in Nat /\ k + 1 = i /\ ~(i <= k) /\ i \in DOMAIN c.srcs
      BY <1>1, <2>2, <2>4
    <3>2. AccIs(f[k], c, k)
      BY <2>1, <3>1
    <3>3. f[i] = WithSource(f[k], c, c.srcs[i])
      BY <1>4, <2>2, <2>4
    <3> HIDE DEF k
    <3>4. AccIs(WithSource(f[k], c, c.srcs[k + 1]), c, k + 1)
      BY <3>1, <3>2, SourceAdded
    <3>5. QED
      BY <2>2, <3>1, <3>3, <3>4
  <2>5. QED
    BY <2>3, <2>4
<1>6. AccIs(done, c, n)
  <2>1. n \in 0..n
    BY <1>1
  <2>2. QED
    BY <1>5, <2>1
<1> HIDE DEF done
<1>7. /\ done = [lines |-> done.lines, remove |-> done.remove] /\ AllLines(done.lines) /\ NamesOnce(done.lines)
      /\ NamesOf(done.lines) \subseteq {ExtraPaths, PackageArch, OutName(c), AddName(c)}
  BY <1>6 DEF AccIs, Tells
<1>8. CASE inst = <<>>
  <2>1. p = done
    BY <1>2, <1>7, <1>8
  <2>2. QED
    BY <1>6, <2>1 DEF AccIs, PreparedIs, n
<1>9. CASE inst # <<>>
  <2> DEFINE d == FALSE
             x == NewLine(DoInstall(c.machine), "", inst, d)
             r == Append(done.lines, x)
  <2>1. p.lines = r /\ p.remove = done.remove /\ p = [lines |-> p.lines, remove |-> p.remove]
    BY <1>2, <1>7, <1>9
  <2>2. IsLine(x) /\ x.name = DoInstall(c.machine)
    <3>1. IsSeq(inst) /\ OnceOf(inst, ToSet(inst))
      BY InstallHolds
    <3> DEFINE nm == DoInstall(c.machine)
               z == NewLine(nm, "", inst, d)
    <3>2. x = z
      OBVIOUS
    <3> HIDE DEF inst, d, nm, x
    <3>3. IsLine(z) /\ z.name = nm
      <4>1. nm[1] # "do_install()" \/ OnceOf(inst, ToSet(inst))
        BY <3>1
      <4>2. \A m, op, v, e : IsSeq(v) /\ OnceOf(v, ToSet(v))
               => IsLine(NewLine(m, op, v, e)) /\ NewLine(m, op, v, e).name = m
        BY NewLineIs
      <4>3. QED
        BY <3>1, <4>2, Zenon
    <3> HIDE DEF z
    <3>4. QED
      BY <3>2, <3>3 DEF nm
  <2>3. IsSeq(done.lines) /\ \A l \in ToSet(done.lines) : IsLine(l)
    BY <1>7 DEF AllLines
  <2> HIDE DEF x, p
  <2>4. /\ IsSeq(r) /\ DOMAIN r = 1..(Len(done.lines) + 1) /\ Len(done.lines) \in Nat
        /\ DOMAIN done.lines = 1..Len(done.lines)
        /\ (\A i \in 1..Len(done.lines) : r[i] = done.lines[i])
        /\ r[Len(done.lines) + 1] = x /\ ToSet(r) = ToSet(done.lines) \cup {x}
    BY <2>3, AppendHolds
  <2>5. x.name \notin NamesOf(done.lines) /\ x.name \notin {ExtraPaths, PackageArch, OutName(c), AddName(c)}
        /\ x.name # SrcUri("", Unsaid)
    <3>1. x.name # SrcUri("", Unsaid)
      BY <2>2 DEF DoInstall, SrcUri
    <3>2. QED
      BY <1>7, <2>2, <3>1, NamesDiffer
  <2> HIDE DEF r
  <2>6. NamesOnce(r)
    <3> DEFINE N == Len(done.lines)
    <3>1. \A i \in 1..N : done.lines[i].name # x.name
      BY <2>4, <2>5 DEF NamesOf, ToSet
    <3>2. \A i \in 1..(N + 1) : i \in 1..N \/ i = N + 1
      BY <2>4
    <3>3. QED
      BY <1>7, <2>4, <3>1, <3>2 DEF NamesOnce
  <2>7. AllLines(r) /\ NamesOf(r) = NamesOf(done.lines) \cup {x.name}
    BY <2>2, <2>3, <2>4 DEF AllLines, NamesOf
  <2>8. \A w : /\ Has(r, AddName(c), w) <=> Has(done.lines, AddName(c), w)
               /\ Has(r, OutName(c), w) <=> Has(done.lines, OutName(c), w)
    BY <2>4, <2>5 DEF Has
  <2>9. OutName(c) \in NamesOf(r) <=> OutName(c) \in NamesOf(done.lines)
    BY <2>5, <2>7
  <2>10. \A l \in ToSet(r) : l \in ToSet(done.lines) \/ l = x
    BY <2>4
  <2>11. /\ Instead(c) => OutName(c) \notin NamesOf(done.lines)
         /\ \A l \in ToSet(done.lines) :
               /\ l.name = SrcUri("", Unsaid) => l.op = "+="
               /\ l.name = ExtraPaths => ~inRecipe /\ c.srcs # <<>> /\ l.val = <<"PN">>
         /\ ~inRecipe /\ c.srcs # <<>> => ExtraPaths \in NamesOf(done.lines)
         /\ \A w : Has(done.lines, AddName(c), w)
                   <=> \E j \in 1..n : Fresh(c.srcs[j]) /\ w = EntryOf(c.srcs[j])
         /\ \A w : Has(done.lines, OutName(c), w)
                   => ~Instead(c) /\ \E j \in Stale(c, n) : w = OldEntry(c.srcs[j].file)
         /\ \/ done.remove = c.remove
            \/ Instead(c) /\ \E j \in Stale(c, n) : done.remove = {OldEntry(c.srcs[j].file)}
    BY <1>6, Zenon DEF AccIs, Tells
  <2>12. \A l \in ToSet(r) : /\ l.name = SrcUri("", Unsaid) => l.op = "+="
                             /\ l.name = ExtraPaths => ~inRecipe /\ c.srcs # <<>> /\ l.val = <<"PN">>
    BY <2>5, <2>10, <2>11
  <2>13. Tells(p, c, n)
    BY <2>1, <2>6, <2>7, <2>8, <2>9, <2>11, <2>12 DEF Tells
  <2>14. NamesOf(p.lines) \subseteq {ExtraPaths, PackageArch, OutName(c), AddName(c), DoInstall(c.machine)}
    BY <1>7, <2>1, <2>2, <2>7
  <2>15. QED
    BY <2>13, <2>14 DEF PreparedIs, p, n
<1>10. QED
  BY <1>8, <1>9

-----------------------------------------------------------------------------
(* One line of the file is edited.                                          *)

IsTurn(st) == st = [out |-> st.out, left |-> st.left, dir |-> st.dir, changed |-> st.changed]

\* The new line.
Revised(l, v) == NewLine(l.name, l.op, v, FALSE)

LEMMA KeepIs ==
  ASSUME NEW st, IsTurn(st), NEW l
  PROVE  /\ Keep(st, l) = [out |-> Append(st.out, l), left |-> st.left, dir |-> st.dir,
                           changed |-> st.changed]
         /\ IsTurn(Keep(st, l)) /\ Keep(st, l).out = Append(st.out, l) /\ Keep(st, l).left = st.left
         /\ Keep(st, l).dir = st.dir /\ Keep(st, l).changed = st.changed
<1> DEFINE r == [out |-> Append(st.out, l), left |-> st.left, dir |-> st.dir, changed |-> st.changed]
<1>1. st = [out |-> st.out, left |-> st.left, dir |-> st.dir, changed |-> st.changed]
  BY DEF IsTurn
<1>2. Keep(st, l) = r
  BY <1>1 DEF Keep
<1>3. IsTurn(r) /\ r.out = Append(st.out, l) /\ r.left = st.left /\ r.dir = st.dir /\ r.changed = st.changed
  BY DEF IsTurn
<1>4. QED
  BY <1>2, <1>3

RewrittenTo(r, st, l, v) ==
  /\ IsTurn(r) /\ r.out = Append(st.out, Revised(l, v)) /\ r.left = st.left
  /\ r.dir = st.dir /\ r.changed = TRUE

LEMMA RewriteIs ==
  ASSUME NEW st, IsTurn(st), NEW l, IsLine(l), NEW v
  PROVE  RewrittenTo(Rewrite(st, l, v), st, l, v)
<1> DEFINE z == [l EXCEPT !.val = v, !.lead = FALSE]
           k == Keep(st, z)
           r == [out |-> Append(st.out, z), left |-> st.left, dir |-> st.dir, changed |-> TRUE]
<1>1. l = [name |-> l.name, op |-> l.op, val |-> l.val, lead |-> l.lead]
  BY LineHolds
<1> DEFINE d == FALSE
<1>2. z = Revised(l, v)
  <2> DEFINE y == [l EXCEPT !.val = v, !.lead = d]
             x == [name |-> l.name, op |-> l.op, val |-> v, lead |-> d]
  <2>1. z = y /\ Revised(l, v) = x
    BY DEF Revised, NewLine
  <2> HIDE DEF d
  <2> DEFINE q == [l EXCEPT !.val = v]
  <2>2. q = [name |-> l.name, op |-> l.op, val |-> v, lead |-> l.lead]
    BY <1>1
  <2>3. y = [q EXCEPT !.lead = d]
    OBVIOUS
  <2> HIDE DEF q
  <2>4. [q EXCEPT !.lead = d] = x
    BY <2>2
  <2>5. QED
    BY <2>1, <2>3, <2>4
<1> HIDE DEF z
<1>3. k = [out |-> Append(st.out, z), left |-> st.left, dir |-> st.dir, changed |-> st.changed]
  BY KeepIs
<1>4. Rewrite(st, l, v) = [k EXCEPT !.changed = TRUE]
  BY DEF Rewrite, z
<1> HIDE DEF k
<1>5. Rewrite(st, l, v) = r
  BY <1>3, <1>4
<1>6. IsTurn(r) /\ r.out = Append(st.out, z) /\ r.left = st.left /\ r.dir = st.dir /\ r.changed = TRUE
  BY DEF IsTurn
<1> HIDE DEF r
<1>7. QED
  BY <1>2, <1>5, <1>6 DEF RewrittenTo

LEMMA RevisedHolds ==
  ASSUME NEW l, IsLine(l), NEW v, IsSeq(v), l.name[1] # "do_install()" \/ OnceOf(v, ToSet(v))
  PROVE  /\ IsLine(Revised(l, v)) /\ Revised(l, v).name = l.name
         /\ Revised(l, v).op = l.op /\ Revised(l, v).val = v
<1> DEFINE d == FALSE
           n == l.name
           o == l.op
<1>1. Revised(l, v) = NewLine(n, o, v, d)
  BY DEF Revised
<1>2. n[1] # "do_install()" \/ OnceOf(v, ToSet(v))
  OBVIOUS
<1> HIDE DEF d, n, o
<1>3. IsLine(NewLine(n, o, v, d)) /\ NewLine(n, o, v, d).name = n
      /\ NewLine(n, o, v, d).op = o /\ NewLine(n, o, v, d).val = v
  <2>1. CASE n[1] # "do_install()"
    BY <2>1, NewLineIs
  <2>2. CASE OnceOf(v, ToSet(v))
    BY <2>2, NewInstallIs
  <2>3. QED
    BY <1>2, <2>1, <2>2
<1>4. QED
  BY <1>1, <1>3 DEF n, o

\* Whether a call takes the word w out of lines of that name.
Stays(p, c, n, w) == w \notin p.remove \/ n \notin {SrcUri("", Unsaid), AddName(c)}

\* What the words of the line z are that l becomes.
WordsOf(z, l, left, p, c) ==
  /\ l.name # OutName(c) => \A w \in ToSet(l.val) : Stays(p, c, l.name, w) => w \in ToSet(z.val)
  /\ l.name = AddName(c) => \A w : Has(left, l.name, w) /\ w \notin p.remove => w \in ToSet(z.val)
  /\ \A w \in ToSet(z.val) : w \in ToSet(l.val) \/ Has(left, l.name, w)
  /\ l.name = OutName(c) /\ l.name \in NamesOf(left) => \A w \in ToSet(z.val) : Has(left, l.name, w)

Becomes(z, st, l, r, p, c) ==
  /\ r.out = Append(st.out, z) /\ z.name = l.name /\ z.op = l.op /\ IsLine(z)
  /\ z = l \/ r.changed
  /\ l.name = ExtraPaths => z = l
  /\ l.name[1] = "SRC_URI" => WordsOf(z, l, st.left, p, c)

Dropped(st, l, r, p, c) ==
  /\ r.out = st.out /\ r.changed /\ l.name \in {SrcUri("", Unsaid), AddName(c), OutName(c)}
  /\ l.name # OutName(c) =>
        \A w : w \in ToSet(l.val) \/ (l.name = AddName(c) /\ Has(st.left, l.name, w)) => w \in p.remove

Elsewhere(l) == l.name = ExtraPaths /\ l.val[1] = "elsewhere"

EditedTo(st, l, r, p, c) ==
  /\ IsTurn(r) /\ r.changed \in BOOLEAN /\ (st.changed => r.changed)
  /\ Dropped(st, l, r, p, c) \/ \E z : Becomes(z, st, l, r, p, c)
  /\ r.left = IF Elsewhere(l) THEN st.left ELSE Popped(st.left, l.name)
  /\ r.dir = IF l.name = ExtraPaths /\ l.name \in NamesOf(p.lines) /\ ~Elsewhere(l) THEN l.val[1] ELSE st.dir

LEMMA MergedHolds ==
  ASSUME NEW old, NEW new, IsSeq(old), IsSeq(new), OnceOf(old, ToSet(old)), OnceOf(new, ToSet(new))
  PROVE  IsSeq(MergedInstall(old, new)) /\ OnceOf(MergedInstall(old, new), ToSet(MergedInstall(old, new)))
<1> DEFINE K == {i \in DOMAIN new : new[i] \notin ToSet(old)}
           rest == Without(new, ToSet(old))
           P == ToSet(old) \cup ToSet(rest)
           m == MergedInstall(old, new)
<1>1. IsSeq(rest) /\ ToSet(rest) = ToSet(new) \ ToSet(old)
  BY WithoutHolds
<1>2. OnceOf(Picked(new, K), ToSet(new))
  <2>1. \A i, j \in K \cap DOMAIN new : new[i] = new[j] /\ new[i] \in ToSet(new) => i = j
    BY DEF OnceOf
  <2> HIDE DEF K
  <2>2. QED
    BY <2>1, ChosenOnce
<1>3. OnceOf(rest, ToSet(new))
  BY <1>2 DEF Without
<1>4. OnceOf(old, P) /\ OnceOf(rest, P)
  BY <1>1, <1>3 DEF OnceOf, ToSet
<1>5. m = old \o rest
  BY DEF MergedInstall
<1> HIDE DEF rest, m
<1>6. IsSeq(m) /\ ToSet(m) = P
  BY <1>1, <1>5, JoinHolds
<1>7. OnceOf(m, P)
  BY <1>1, <1>4, <1>5, JoinOnce
<1>8. QED
  BY <1>6, <1>7 DEF m

LEMMA WithWordsHolds ==
  ASSUME NEW v, IsSeq(v), NEW l, IsLine(l)
  PROVE  IsSeq(WithWords(v, l)) /\ ToSet(WithWords(v, l)) = ToSet(v) \cup ToSet(l.val)
<1>1. IsSeq(l.val)
  BY LineHolds
<1>2. CASE Len(l.val) = 1 /\ ~l.lead /\ l.val[1] \in ToSet(v)
  <2>1. WithWords(v, l) = v
    BY <1>2 DEF WithWords
  <2>2. DOMAIN l.val = {1}
    <3>1. DOMAIN l.val = 1..1
      BY <1>1, <1>2, SeqHolds DEF IsSeq
    <3>2. QED
      BY <3>1
  <2>3. ToSet(l.val) = {l.val[1]}
    BY <2>2, Zenon DEF ToSet
  <2>4. QED
    BY <1>2, <2>1, <2>3
<1>3. CASE ~(Len(l.val) = 1 /\ ~l.lead /\ l.val[1] \in ToSet(v))
  <2>1. WithWords(v, l) = v \o l.val
    BY <1>3 DEF WithWords
  <2>2. QED
    BY <1>1, <2>1, JoinHolds
<1>4. QED
  BY <1>2, <1>3

\* The line of that name that the call has.
LineOf(left, n) == left[First(LinesNamed(left, n))]

LEMMA LineOfHolds ==
  ASSUME NEW left, AllLines(left), NamesOnce(left), NEW n, LinesNamed(left, n) # {}
  PROVE  /\ IsLine(LineOf(left, n)) /\ LineOf(left, n).name = n /\ LineOf(left, n) \in ToSet(left)
         /\ \A w : Has(left, n, w) <=> w \in ToSet(LineOf(left, n).val)
<1> DEFINE k == First(LinesNamed(left, n))
<1>1. IsSeq(left) /\ \A l \in ToSet(left) : IsLine(l)
  BY DEF AllLines
<1>2. k \in DOMAIN left /\ left[k].name = n /\ left[k] \in ToSet(left)
  BY <1>1, FirstNamed
<1> HIDE DEF k
<1>3. \A l \in ToSet(left) : l.name = n => l = left[k]
  BY <1>2 DEF ToSet, NamesOnce
<1>4. QED
  BY <1>1, <1>2, <1>3 DEF LineOf, Has, k

LEMMA PoppedIs ==
  ASSUME NEW st, IsTurn(st), NEW n
  PROVE  LET r == [st EXCEPT !.left = Popped(@, n)]
         IN  /\ IsTurn(r) /\ r.out = st.out /\ r.left = Popped(st.left, n) /\ r.dir = st.dir
             /\ r.changed = st.changed
<1> DEFINE q == Popped(st.left, n)
           r == [st EXCEPT !.left = q]
<1>1. st = [out |-> st.out, left |-> st.left, dir |-> st.dir, changed |-> st.changed]
  BY DEF IsTurn
<1> HIDE DEF q
<1>2. r = [out |-> st.out, left |-> q, dir |-> st.dir, changed |-> st.changed]
  BY <1>1
<1>3. QED
  BY <1>2 DEF IsTurn, q

LEMMA UrisEdited ==
  ASSUME NEW p, NEW c, NEW st, IsTurn(st), st.changed \in BOOLEAN, AllLines(st.left), NamesOnce(st.left),
         NEW l, IsLine(l), l.name \in {OutName(c), AddName(c), SrcUri("", Unsaid)},
         NamesOf(st.left) \subseteq {ExtraPaths, PackageArch, OutName(c), AddName(c), DoInstall(c.machine)}
  PROVE  EditedTo(st, l, OnUris(st, l, c, p.remove), p, c)
<1> DEFINE mine  == LinesNamed(st.left, l.name)
           adds  == l.name \in {SrcUri("", Unsaid), SrcUri(":append", c.machine)}
           x     == LineOf(st.left, l.name)
           given == IF mine = {} THEN l.val ELSE IF adds THEN WithWords(l.val, x) ELSE x.val
           val   == IF adds THEN FirstsOut(given, p.remove) ELSE given
           next  == [st EXCEPT !.left = Popped(@, l.name)]
           r     == OnUris(st, l, c, p.remove)
<1>1. r = IF val = l.val THEN Keep(next, l)
          ELSE IF val = <<>> /\ (l.op = "+=" \/ l.name[2] = ":append")
               THEN [next EXCEPT !.changed = TRUE]
               ELSE Rewrite(next, l, val)
  BY DEF OnUris, LineOf
<1>2. /\ IsTurn(next) /\ next.out = st.out /\ next.left = Popped(st.left, l.name) /\ next.dir = st.dir
      /\ next.changed = st.changed
  BY PoppedIs
<1>3. IsSeq(l.val)
  BY LineHolds
<1>4. /\ adds <=> l.name # OutName(c)
      /\ l.name # ExtraPaths /\ l.name[1] # "do_install()" /\ ~Elsewhere(l)
  <2>1. OutName(c) # SrcUri("", Unsaid) /\ OutName(c) # SrcUri(":append", c.machine)
    BY DEF OutName, SrcUri
  <2>2. AddName(c) \in {SrcUri("", Unsaid), SrcUri(":append", c.machine)}
    BY DEF AddName
  <2>3. SrcUri("", Unsaid)[1] # "do_install()" /\ SrcUri("", Unsaid) # ExtraPaths
    BY DEF SrcUri, ExtraPaths
  <2>4. QED
    BY <2>1, <2>2, <2>3, NamesDiffer DEF Elsewhere
<1>5. mine # {} => /\ IsLine(x) /\ IsSeq(x.val) /\ x.name = l.name
                   /\ \A w : Has(st.left, l.name, w) <=> w \in ToSet(x.val)
  <2> SUFFICES ASSUME mine # {} PROVE /\ IsLine(x) /\ IsSeq(x.val) /\ x.name = l.name
                   /\ \A w : Has(st.left, l.name, w) <=> w \in ToSet(x.val)
    OBVIOUS
  <2>1. IsLine(x) /\ x.name = l.name /\ \A w : Has(st.left, l.name, w) <=> w \in ToSet(x.val)
    BY LineOfHolds
  <2> HIDE DEF x
  <2>2. QED
    BY <2>1, LineHolds
<1>6. mine = {} => \A w : ~Has(st.left, l.name, w)
  BY DEF Has, LinesNamed, ToSet
<1> HIDE DEF x, mine, next, adds
<1>7. /\ IsSeq(given)
      /\ adds => \A w : w \in ToSet(given) <=> w \in ToSet(l.val) \/ Has(st.left, l.name, w)
      /\ ~adds /\ mine # {} => \A w : w \in ToSet(given) <=> Has(st.left, l.name, w)
      /\ mine = {} => given = l.val
  <2>1. CASE mine = {}
    <3>1. given = l.val
      BY <2>1
    <3>2. QED
      BY <1>3, <1>6, <2>1, <3>1
  <2>2. CASE mine # {} /\ adds
    <3>1. given = WithWords(l.val, x)
      BY <2>2
    <3>2. IsSeq(given) /\ ToSet(given) = ToSet(l.val) \cup ToSet(x.val)
      BY <1>3, <1>5, <2>2, <3>1, WithWordsHolds
    <3> HIDE DEF given
    <3>3. QED
      BY <1>5, <2>2, <3>2
  <2>3. CASE mine # {} /\ ~adds
    <3>1. given = x.val
      BY <2>3
    <3>2. QED
      BY <1>5, <2>3, <3>1
  <2>4. QED
    BY <2>1, <2>2, <2>3
<1> HIDE DEF given
<1>8. /\ IsSeq(val)
      /\ adds => \A w \in ToSet(val) : w \in ToSet(l.val) \/ Has(st.left, l.name, w)
      /\ adds => \A w : w \in ToSet(l.val) \/ Has(st.left, l.name, w) => w \in p.remove \/ w \in ToSet(val)
      /\ ~adds /\ mine # {} => \A w \in ToSet(val) : Has(st.left, l.name, w)
      /\ ~adds /\ mine = {} => val = l.val
  <2>1. CASE adds
    <3>1. val = FirstsOut(given, p.remove)
      BY <2>1
    <3>2. /\ IsSeq(val) /\ ToSet(val) \subseteq ToSet(given)
          /\ \A w \in ToSet(given) : w \notin p.remove => w \in ToSet(val)
      BY <1>7, <3>1, FirstsOutHolds
    <3> HIDE DEF val
    <3>3. QED
      BY <1>7, <2>1, <3>2
  <2>2. CASE ~adds
    <3>1. val = given
      BY <2>2
    <3>2. QED
      BY <1>7, <2>2, <3>1
  <2>3. QED
    BY <2>1, <2>2
<1> HIDE DEF val
<1>9. adds => l.name \in {SrcUri("", Unsaid), AddName(c)}
  BY <1>4
<1>10. ASSUME NEW z, z.val = val, z.name = l.name PROVE WordsOf(z, l, st.left, p, c)
  <2>1. CASE adds
    <3>1. l.name # OutName(c)
      BY <1>4, <2>1
    <3>2. \A w \in ToSet(l.val) : Stays(p, c, l.name, w) => w \in ToSet(z.val)
      BY <1>8, <1>9, <1>10, <2>1 DEF Stays
    <3>3. \A w : Has(st.left, l.name, w) /\ w \notin p.remove => w \in ToSet(z.val)
      BY <1>8, <1>10, <2>1
    <3>4. \A w \in ToSet(z.val) : w \in ToSet(l.val) \/ Has(st.left, l.name, w)
      BY <1>8, <1>10, <2>1
    <3>5. QED
      BY <3>1, <3>2, <3>3, <3>4 DEF WordsOf
  <2>2. CASE ~adds
    <3>1. l.name = OutName(c) /\ l.name # AddName(c)
      BY <1>4, <2>2, NamesDiffer
    <3>2. l.name \in NamesOf(st.left) => \A w \in ToSet(z.val) : Has(st.left, l.name, w)
      BY <1>8, <1>10, <2>2, NamedIs DEF mine
    <3>3. \A w \in ToSet(z.val) : w \in ToSet(l.val) \/ Has(st.left, l.name, w)
      BY <1>8, <1>10, <2>2
    <3>4. QED
      BY <3>1, <3>2, <3>3 DEF WordsOf
  <2>3. QED
    BY <2>1, <2>2
<1>11. CASE val = l.val
  <2>1. r = Keep(next, l)
    BY <1>1, <1>11
  <2> HIDE DEF r
  <2>2. IsTurn(r) /\ r.out = Append(st.out, l) /\ r.left = Popped(st.left, l.name) /\ r.dir = st.dir
        /\ r.changed = st.changed
    BY <1>2, <2>1, KeepIs
  <2>3. Becomes(l, st, l, r, p, c)
    BY <1>10, <1>11, <2>2 DEF Becomes
  <2>4. QED
    BY <1>4, <2>2, <2>3 DEF EditedTo, r
<1>12. CASE val # l.val /\ val = <<>> /\ (l.op = "+=" \/ l.name[2] = ":append")
  <2>1. r = [next EXCEPT !.changed = TRUE]
    BY <1>1, <1>12
  <2> HIDE DEF r
  <2>2. IsTurn(r) /\ r.out = st.out /\ r.left = Popped(st.left, l.name) /\ r.dir = st.dir /\ r.changed = TRUE
    <3>1. next = [out |-> next.out, left |-> next.left, dir |-> next.dir, changed |-> next.changed]
      BY <1>2 DEF IsTurn
    <3>2. r = [out |-> next.out, left |-> next.left, dir |-> next.dir, changed |-> TRUE]
      BY <2>1, <3>1
    <3>3. QED
      BY <1>2, <3>2 DEF IsTurn
  <2>3. ToSet(val) = {}
    BY <1>12, NoElements
  <2>4. l.name # OutName(c) =>
          \A w : w \in ToSet(l.val) \/ (l.name = AddName(c) /\ Has(st.left, l.name, w)) => w \in p.remove
    BY <1>4, <1>8, <2>3
  <2>5. Dropped(st, l, r, p, c)
    BY <2>2, <2>4 DEF Dropped
  <2>6. QED
    BY <1>4, <2>2, <2>5 DEF EditedTo, r
<1>13. CASE val # l.val /\ ~(val = <<>> /\ (l.op = "+=" \/ l.name[2] = ":append"))
  <2>1. r = Rewrite(next, l, val)
    BY <1>1, <1>13
  <2> HIDE DEF r
  <2>2. IsTurn(r) /\ r.out = Append(st.out, Revised(l, val)) /\ r.left = Popped(st.left, l.name)
        /\ r.dir = st.dir /\ r.changed = TRUE
    <3>1. RewrittenTo(r, next, l, val)
      BY <1>2, <2>1, RewriteIs
    <3>2. QED
      BY <1>2, <3>1 DEF RewrittenTo
  <2>3. IsLine(Revised(l, val)) /\ Revised(l, val).name = l.name /\ Revised(l, val).op = l.op
        /\ Revised(l, val).val = val
    BY <1>4, <1>8, RevisedHolds
  <2> DEFINE z == Revised(l, val)
  <2>4. Becomes(z, st, l, r, p, c)
    BY <1>4, <1>10, <2>2, <2>3 DEF Becomes
  <2>5. QED
    BY <1>4, <2>2, <2>4 DEF EditedTo, r
<1>14. QED
  BY <1>11, <1>12, <1>13

LEMMA LineEdited ==
  ASSUME NEW p, NEW c, NEW st, IsTurn(st), st.changed \in BOOLEAN, AllLines(st.left), NamesOnce(st.left),
         NEW l, IsLine(l), NamesOf(st.left) \subseteq NamesOf(p.lines),
         NamesOf(p.lines) \subseteq {ExtraPaths, PackageArch, OutName(c), AddName(c), DoInstall(c.machine)}
  PROVE  EditedTo(st, l, EditLine(st, l, c, p), p, c)
<1> DEFINE r == EditLine(st, l, c, p)
           next == [st EXCEPT !.left = Popped(@, l.name)]
<1>1. /\ IsTurn(next) /\ next.out = st.out /\ next.left = Popped(st.left, l.name) /\ next.dir = st.dir
      /\ next.changed = st.changed
  BY PoppedIs
<1>2. l.name \in NamesOf(st.left) <=> LinesNamed(st.left, l.name) # {}
  BY NamedIs
<1>3. /\ l.name \in NamesOf(p.lines) <=> LinesNamed(p.lines, l.name) # {}
      /\ LinesNamed(st.left, l.name) # {} => LinesNamed(p.lines, l.name) # {}
  BY <1>2, NamedIs
<1> DEFINE idle == LinesNamed(p.lines, l.name) = {} /\ ~(p.remove # {} /\ l.name = SrcUri("", Unsaid))
           install == l.name[1] = "do_install()"
<1>4. CASE idle \/ (~idle /\ install /\ LinesNamed(st.left, l.name) = {})
  <2>8. LinesNamed(st.left, l.name) = {}
    BY <1>3, <1>4
  <2>9. l.name \in NamesOf(p.lines) => l.name # ExtraPaths
    BY <1>3, <1>4, NamesDiffer
  <2>1. r = Keep(st, l)
    <3>1. CASE idle
      BY <3>1 DEF EditLine
    <3>2. CASE ~idle /\ install /\ LinesNamed(st.left, l.name) = {}
      <4>1. l.name # ExtraPaths /\ l.name # PackageArch
        BY <3>2, NamesDiffer
      <4>2. QED
        BY <3>2, <4>1 DEF EditLine
    <3>3. QED
      BY <1>4, <3>1, <3>2
  <2> HIDE DEF r
  <2>2. IsTurn(r) /\ r.out = Append(st.out, l) /\ r.left = st.left /\ r.dir = st.dir /\ r.changed = st.changed
    BY <2>1, KeepIs
  <2>3. \A w : ~Has(st.left, l.name, w)
    BY <2>8 DEF Has, LinesNamed, ToSet
  <2>4. WordsOf(l, l, st.left, p, c)
    BY <1>2, <2>8, <2>3 DEF WordsOf
  <2>5. Becomes(l, st, l, r, p, c)
    BY <2>2, <2>4 DEF Becomes
  <2>6. Popped(st.left, l.name) = st.left
    BY <2>8 DEF Popped
  <2>7. QED
    BY <2>9, <2>2, <2>5, <2>6 DEF EditedTo, r
<1>5. l.name = ExtraPaths /\ ~idle => l.name \in NamesOf(p.lines)
  BY <1>3, NamesDiffer
<1>6. CASE l.name = ExtraPaths /\ ~idle
  <2>1. l.name[1] # "SRC_URI"
    BY <1>6, NamesDiffer
  <2>2. CASE l.val[1] = "elsewhere"
    <3>1. r = Keep(st, l)
      BY <1>6, <2>2 DEF EditLine
    <3> HIDE DEF r
    <3>2. IsTurn(r) /\ r.out = Append(st.out, l) /\ r.left = st.left /\ r.dir = st.dir /\ r.changed = st.changed
      BY <3>1, KeepIs
    <3>3. Becomes(l, st, l, r, p, c)
      BY <2>1, <3>2 DEF Becomes
    <3>4. QED
      BY <1>6, <2>2, <3>2, <3>3 DEF EditedTo, Elsewhere, r
  <2>3. CASE l.val[1] # "elsewhere"
    <3> DEFINE k == Keep(st, l)
               q == Popped(st.left, l.name)
               x == l.val[1]
               m == [k EXCEPT !.left = q]
    <3>1. k = [out |-> k.out, left |-> k.left, dir |-> k.dir, changed |-> k.changed]
          /\ k.out = Append(st.out, l) /\ k.left = st.left /\ k.dir = st.dir /\ k.changed = st.changed
      BY KeepIs DEF IsTurn
    <3>2. r = [k EXCEPT !.left = Popped(k.left, ExtraPaths), !.dir = x]
      BY <1>6, <2>3 DEF EditLine
    <3>3. Popped(k.left, ExtraPaths) = q
      BY <1>6, <3>1
    <3>4. r = [k EXCEPT !.left = q, !.dir = x]
      BY <3>2, <3>3
    <3> HIDE DEF k, q, x, r
    <3>5. m = [out |-> k.out, left |-> q, dir |-> k.dir, changed |-> k.changed]
      <4>1. k = [out |-> k.out, left |-> k.left, dir |-> k.dir, changed |-> k.changed]
        BY <3>1
      <4>2. QED
        BY <4>1
    <3>6. r = [m EXCEPT !.dir = x]
      BY <3>4
    <3> HIDE DEF m
    <3>7. r = [out |-> k.out, left |-> q, dir |-> x, changed |-> k.changed]
      BY <3>5, <3>6
    <3>8. IsTurn(r) /\ r.out = Append(st.out, l) /\ r.left = q /\ r.dir = x /\ r.changed = st.changed
      BY <3>1, <3>7 DEF IsTurn
    <3>9. Becomes(l, st, l, r, p, c)
      BY <2>1, <3>8 DEF Becomes
    <3>10. QED
      BY <1>3, <1>6, <1>5, <2>3, <3>8, <3>9 DEF EditedTo, Elsewhere, r, q, x
  <2>4. QED
    BY <2>2, <2>3
<1>7. CASE l.name = PackageArch /\ ~idle
  <2> DEFINE v == <<c.machine>>
  <2>1. l.name # ExtraPaths /\ l.name[1] # "SRC_URI" /\ l.name[1] # "do_install()" /\ ~Elsewhere(l)
    BY <1>7, NamesDiffer DEF Elsewhere
  <2>2. r = Rewrite(next, l, v)
    BY <1>7, <2>1 DEF EditLine
  <2>3. IsSeq(v)
    BY OneSeq
  <2> HIDE DEF r, next, v
  <2>4. RewrittenTo(r, next, l, v)
    BY <1>1, <2>2, RewriteIs
  <2>5. IsLine(Revised(l, v)) /\ Revised(l, v).name = l.name /\ Revised(l, v).op = l.op
    BY <2>1, <2>3, RevisedHolds
  <2> DEFINE z == Revised(l, v)
  <2>6. Becomes(z, st, l, r, p, c)
    BY <1>1, <2>1, <2>4, <2>5 DEF Becomes, RewrittenTo
  <2>7. QED
    BY <1>1, <2>1, <2>4, <2>6 DEF EditedTo, RewrittenTo, r
<1>8. CASE install /\ ~idle /\ LinesNamed(st.left, l.name) # {}
  <2> DEFINE x == LineOf(st.left, l.name)
             v == MergedInstall(l.val, x.val)
  <2>1. l.name # ExtraPaths /\ l.name # PackageArch /\ l.name # SrcUri("", Unsaid) /\ l.name[1] # "SRC_URI"
        /\ ~Elsewhere(l)
    BY <1>8, NamesDiffer DEF Elsewhere
  <2>2. r = Rewrite(next, l, v)
    BY <1>8, <2>1 DEF EditLine, LineOf
  <2>3. IsSeq(v) /\ OnceOf(v, ToSet(v))
    <3>1. IsLine(x) /\ x.name = l.name
      BY <1>8, LineOfHolds
    <3> HIDE DEF x
    <3>2. IsSeq(x.val) /\ OnceOf(x.val, ToSet(x.val)) /\ IsSeq(l.val) /\ OnceOf(l.val, ToSet(l.val))
      BY <1>8, <3>1, LineHolds
    <3>3. QED
      BY <3>2, MergedHolds
  <2> HIDE DEF r, next, v
  <2>4. RewrittenTo(r, next, l, v)
    BY <1>1, <2>2, RewriteIs
  <2>5. IsLine(Revised(l, v)) /\ Revised(l, v).name = l.name /\ Revised(l, v).op = l.op
    <3>1. l.name[1] # "do_install()" \/ OnceOf(v, ToSet(v))
      BY <2>3
    <3>2. QED
      BY <2>3, <3>1, RevisedHolds
  <2> DEFINE z == Revised(l, v)
  <2>6. Becomes(z, st, l, r, p, c)
    BY <1>1, <2>1, <2>4, <2>5 DEF Becomes, RewrittenTo
  <2>7. QED
    BY <1>1, <2>1, <2>4, <2>6 DEF EditedTo, RewrittenTo, r
<1>9. CASE ~idle /\ l.name # ExtraPaths /\ l.name # PackageArch /\ ~install
  <2>1. r = OnUris(st, l, c, p.remove)
    BY <1>9 DEF EditLine
  <2>2. l.name \in {OutName(c), AddName(c), SrcUri("", Unsaid)}
    <3>1. DoInstall(c.machine)[1] = "do_install()"
      BY DEF DoInstall
    <3>2. l.name \in NamesOf(p.lines) \/ l.name = SrcUri("", Unsaid)
      BY <1>3, <1>9
    <3>3. QED
      BY <1>9, <3>1, <3>2
  <2> HIDE DEF r
  <2>3. QED
    BY <2>1, <2>2, UrisEdited DEF r
<1>10. QED
  BY <1>6, <1>7, <1>8, <1>9, <1>4

-----------------------------------------------------------------------------
(* The loop over the lines of the file.                                     *)

\* After its first i lines.
Seen(ls, i, n) == \E j \in 1..i : ls[j].name = n /\ ~Elsewhere(ls[j])
HasIn(ls, i, n, w) == \E j \in 1..i : ls[j].name = n /\ w \in ToSet(ls[j].val)

\* The lines have the directory x last among those of the layer.
Leads(l) == l.name = ExtraPaths /\ l.val[1] # "elsewhere"
NoneLeads(ls, n) == \A j \in 1..n : ~Leads(ls[j])
LastDir(ls, n, x) ==
  \E i \in 1..n : Leads(ls[i]) /\ ls[i].val[1] = x /\ \A j \in (i + 1)..n : ~Leads(ls[j])

\* At most one line removes for a machine.
OutOnce(ls) == \A x, y \in DOMAIN ls : IsOut(ls[x].name) /\ ls[x].name = ls[y].name => x = y

TurnLines(st, ls, p, i) ==
  /\ IsTurn(st) /\ st.changed \in BOOLEAN
  /\ AllLines(st.out) /\ AllLines(st.left) /\ NamesOnce(st.left) /\ OutOnce(st.out)
  /\ ToSet(st.left) = {l \in ToSet(p.lines) : ~Seen(ls, i, l.name)}
  /\ \A l \in ToSet(st.out) : \E j \in 1..i : ls[j].name = l.name /\ ls[j].op = l.op

TurnWords(st, ls, p, c, i) ==
  /\ \A n, w : n[1] = "SRC_URI" /\ n # OutName(c) /\ HasIn(ls, i, n, w) /\ Stays(p, c, n, w)
                => Has(st.out, n, w)
  /\ \A w : Seen(ls, i, AddName(c)) /\ Has(p.lines, AddName(c), w) /\ w \notin p.remove
            => Has(st.out, AddName(c), w)
  /\ \A n, w : n[1] = "SRC_URI" /\ Has(st.out, n, w) => HasIn(ls, i, n, w) \/ Has(p.lines, n, w)
  /\ OutName(c) \in NamesOf(p.lines) => \A w : Has(st.out, OutName(c), w) => Has(p.lines, OutName(c), w)

TurnDir(st, ls, p, i) ==
  /\ \A x : LastDir(ls, i, x) => LastDir(st.out, Len(st.out), x)
  /\ NoneLeads(ls, i) => NoneLeads(st.out, Len(st.out)) /\ st.dir = "PN"
  /\ ExtraPaths \in NamesOf(p.lines) => NoneLeads(ls, i) \/ LastDir(ls, i, st.dir)
  /\ ExtraPaths \notin NamesOf(p.lines) => st.dir = "PN"

TurnSame(st, ls, i) ==
  ~st.changed => Len(st.out) = i /\ \A j \in 1..i : st.out[j] = ls[j]

LEMMA SeenNext ==
  ASSUME NEW ls, NEW i \in Nat, NEW n, NEW w
  PROVE  /\ Seen(ls, i + 1, n) <=> Seen(ls, i, n) \/ (ls[i + 1].name = n /\ ~Elsewhere(ls[i + 1]))
         /\ HasIn(ls, i + 1, n, w) <=> HasIn(ls, i, n, w) \/ (ls[i + 1].name = n /\ w \in ToSet(ls[i + 1].val))
<1>1. 1..(i + 1) = (1..i) \cup {i + 1}
  OBVIOUS
<1>2. QED
  BY <1>1 DEF Seen, HasIn

LEMMA LinesTurn ==
  ASSUME NEW ls, AllLines(ls), OutOnce(ls), NEW p, NEW c, NEW i \in Nat, i + 1 \in DOMAIN ls,
         NEW st, TurnLines(st, ls, p, i), NEW r, EditedTo(st, ls[i + 1], r, p, c)
  PROVE  TurnLines(r, ls, p, i + 1)
<1> DEFINE l == ls[i + 1]
<1>1. DOMAIN ls = 1..Len(ls) /\ Len(ls) \in Nat /\ IsLine(l) /\ 1..i \subseteq DOMAIN ls
      /\ \A j \in 1..i : j # i + 1
  <2>1. DOMAIN ls = 1..Len(ls) /\ Len(ls) \in Nat
    BY SeqHolds DEF AllLines, IsSeq
  <2>2. l \in ToSet(ls)
    BY DEF ToSet
  <2>3. 1..i \subseteq DOMAIN ls /\ \A j \in 1..i : j # i + 1
    BY <2>1
  <2>4. QED
    BY <2>1, <2>2, <2>3 DEF AllLines
<1>2. 1..(i + 1) = (1..i) \cup {i + 1}
  OBVIOUS
<1>3. IsTurn(r) /\ r.changed \in BOOLEAN
  BY DEF EditedTo
<1>4. /\ AllLines(r.left) /\ NamesOnce(r.left)
      /\ ToSet(r.left) = {o \in ToSet(st.left) : Elsewhere(l) \/ o.name # l.name}
  <2>1. AllLines(st.left) /\ NamesOnce(st.left)
    BY DEF TurnLines
  <2>2. CASE Elsewhere(l)
    <3>1. r.left = st.left
      BY <2>2 DEF EditedTo
    <3>2. QED
      BY <2>1, <2>2, <3>1
  <2>3. CASE ~Elsewhere(l)
    <3>1. r.left = Popped(st.left, l.name)
      BY <2>3 DEF EditedTo
    <3>2. /\ AllLines(Popped(st.left, l.name)) /\ NamesOnce(Popped(st.left, l.name))
          /\ ToSet(Popped(st.left, l.name)) = {o \in ToSet(st.left) : o.name # l.name}
      BY <2>1, PoppedHolds
    <3>3. QED
      BY <2>3, <3>1, <3>2
  <2>4. QED
    BY <2>2, <2>3
<1>5. ToSet(r.left) = {o \in ToSet(p.lines) : ~Seen(ls, i + 1, o.name)}
  <2>1. ToSet(st.left) = {o \in ToSet(p.lines) : ~Seen(ls, i, o.name)}
    BY DEF TurnLines
  <2>2. \A o : Seen(ls, i + 1, o.name) <=> Seen(ls, i, o.name) \/ (l.name = o.name /\ ~Elsewhere(l))
    BY SeenNext
  <2>3. QED
    BY <1>4, <2>1, <2>2
<1>6. AllLines(st.out) /\ OutOnce(st.out)
      /\ \A o \in ToSet(st.out) : \E j \in 1..i : ls[j].name = o.name /\ ls[j].op = o.op
  BY DEF TurnLines
<1>7. CASE Dropped(st, l, r, p, c)
  <2>1. r.out = st.out
    BY <1>7 DEF Dropped
  <2>2. \A o \in ToSet(r.out) : \E j \in 1..(i + 1) : ls[j].name = o.name /\ ls[j].op = o.op
    BY <1>2, <1>6, <2>1
  <2>3. QED
    BY <1>3, <1>4, <1>5, <1>6, <2>1, <2>2 DEF TurnLines
<1>8. ASSUME NEW z, Becomes(z, st, l, r, p, c) PROVE TurnLines(r, ls, p, i + 1)
  <2>1. r.out = Append(st.out, z) /\ z.name = l.name /\ z.op = l.op /\ IsLine(z)
    BY <1>8 DEF Becomes
  <2> DEFINE m == Len(st.out)
  <2>2. /\ IsSeq(r.out) /\ DOMAIN r.out = 1..(m + 1) /\ m \in Nat /\ DOMAIN st.out = 1..m
        /\ (\A j \in 1..m : r.out[j] = st.out[j]) /\ r.out[m + 1] = z /\ ToSet(r.out) = ToSet(st.out) \cup {z}
    BY <1>6, <2>1, AppendHolds DEF AllLines
  <2> HIDE DEF m
  <2>3. AllLines(r.out)
    BY <1>6, <2>1, <2>2 DEF AllLines
  <2>4. \A o \in ToSet(r.out) : \E j \in 1..(i + 1) : ls[j].name = o.name /\ ls[j].op = o.op
    BY <1>2, <1>6, <2>1, <2>2
  <2>5. \A j \in 1..m : ~(IsOut(z.name) /\ st.out[j].name = z.name)
    <3> SUFFICES ASSUME NEW j \in 1..m, IsOut(z.name), st.out[j].name = z.name PROVE FALSE
      OBVIOUS
    <3>1. st.out[j] \in ToSet(st.out)
      BY <2>2 DEF ToSet
    <3>2. PICK k \in 1..i : ls[k].name = st.out[j].name
      BY <1>6, <3>1
    <3>3. k \in DOMAIN ls /\ k # i + 1
      BY <1>1, <3>2
    <3>4. QED
      BY <2>1, <3>2, <3>3 DEF OutOnce
  <2>6. \A j \in 1..(m + 1) : j \in 1..m \/ j = m + 1
    BY <2>2
  <2>7. OutOnce(r.out)
    BY <1>6, <2>2, <2>5, <2>6 DEF OutOnce
  <2>8. QED
    BY <1>3, <1>4, <1>5, <2>3, <2>4, <2>7 DEF TurnLines
<1>9. QED
  BY <1>7, <1>8 DEF EditedTo

\* What is left of the call's lines.
LEMMA LeftHas ==
  ASSUME NEW st, NEW ls, NEW p, NEW i, TurnLines(st, ls, p, i), NEW n
  PROVE  /\ \A w : Has(st.left, n, w) <=> Has(p.lines, n, w) /\ ~Seen(ls, i, n)
         /\ n \in NamesOf(st.left) <=> n \in NamesOf(p.lines) /\ ~Seen(ls, i, n)
BY DEF TurnLines, Has, NamesOf

LEMMA WordsTurn ==
  ASSUME NEW ls, AllLines(ls), OutOnce(ls), NEW p, NEW c, NEW i \in Nat, i + 1 \in DOMAIN ls,
         NEW st, TurnLines(st, ls, p, i), TurnWords(st, ls, p, c, i),
         NEW r, EditedTo(st, ls[i + 1], r, p, c)
  PROVE  TurnWords(r, ls, p, c, i + 1)
<1> DEFINE l == ls[i + 1]
<1>1. /\ \A n, w : n[1] = "SRC_URI" /\ n # OutName(c) /\ HasIn(ls, i, n, w) /\ Stays(p, c, n, w) => Has(st.out, n, w)
      /\ \A w : Seen(ls, i, AddName(c)) /\ Has(p.lines, AddName(c), w) /\ w \notin p.remove
                => Has(st.out, AddName(c), w)
      /\ \A n, w : n[1] = "SRC_URI" /\ Has(st.out, n, w) => HasIn(ls, i, n, w) \/ Has(p.lines, n, w)
      /\ OutName(c) \in NamesOf(p.lines) => \A w : Has(st.out, OutName(c), w) => Has(p.lines, OutName(c), w)
  BY Zenon DEF TurnWords
<1>2. \A n, w : /\ Has(st.left, n, w) <=> Has(p.lines, n, w) /\ ~Seen(ls, i, n)
                /\ n \in NamesOf(st.left) <=> n \in NamesOf(p.lines) /\ ~Seen(ls, i, n)
  BY LeftHas
<1>3. \A n, w : /\ Seen(ls, i + 1, n) <=> Seen(ls, i, n) \/ (l.name = n /\ ~Elsewhere(l))
                /\ HasIn(ls, i + 1, n, w) <=> HasIn(ls, i, n, w) \/ (l.name = n /\ w \in ToSet(l.val))
  BY SeenNext
<1>4. /\ AddName(c)[1] = "SRC_URI" /\ OutName(c)[1] = "SRC_URI" /\ AddName(c) # OutName(c) /\ IsOut(OutName(c))
      /\ SrcUri("", Unsaid) # OutName(c)
  BY NamesDiffer DEF IsOut, OutName, SrcUri
<1>5. CASE Dropped(st, l, r, p, c)
  <2>1. /\ r.out = st.out /\ l.name \in {SrcUri("", Unsaid), AddName(c), OutName(c)}
        /\ l.name # OutName(c) => \A w : w \in ToSet(l.val) \/ (l.name = AddName(c) /\ Has(st.left, l.name, w))
                                         => w \in p.remove
    BY <1>5 DEF Dropped
  <2>2. ASSUME NEW n, NEW w, n[1] = "SRC_URI", n # OutName(c), HasIn(ls, i + 1, n, w), Stays(p, c, n, w)
        PROVE  Has(r.out, n, w)
    <3>1. ~(l.name = n /\ w \in ToSet(l.val))
      BY <2>1, <2>2 DEF Stays
    <3>2. QED
      BY <1>1, <1>3, <2>1, <2>2, <3>1
  <2>3. ASSUME NEW w, Seen(ls, i + 1, AddName(c)), Has(p.lines, AddName(c), w), w \notin p.remove
        PROVE  Has(r.out, AddName(c), w)
    <3>1. CASE Seen(ls, i, AddName(c))
      BY <1>1, <2>1, <2>3, <3>1
    <3>2. CASE ~Seen(ls, i, AddName(c))
      <4>1. l.name = AddName(c) /\ Has(st.left, AddName(c), w)
        BY <1>2, <1>3, <2>3, <3>2
      <4>2. QED
        BY <1>4, <2>1, <2>3, <4>1
    <3>3. QED
      BY <3>1, <3>2
  <2>4. \A n, w : n[1] = "SRC_URI" /\ Has(r.out, n, w) => HasIn(ls, i + 1, n, w) \/ Has(p.lines, n, w)
    BY <1>1, <1>3, <2>1
  <2>5. QED
    BY <1>1, <2>1, <2>2, <2>3, <2>4 DEF TurnWords
<1>6. ASSUME NEW z, Becomes(z, st, l, r, p, c) PROVE TurnWords(r, ls, p, c, i + 1)
  <2>1. /\ r.out = Append(st.out, z) /\ z.name = l.name
        /\ l.name[1] = "SRC_URI" => WordsOf(z, l, st.left, p, c)
    BY <1>6 DEF Becomes
  <2>2. ToSet(r.out) = ToSet(st.out) \cup {z}
    BY <2>1, AppendHolds DEF TurnLines, AllLines
  <2>3. \A n, w : Has(r.out, n, w) <=> Has(st.out, n, w) \/ (l.name = n /\ w \in ToSet(z.val))
    BY <2>1, <2>2 DEF Has
  <2>4. ASSUME NEW n, NEW w, n[1] = "SRC_URI", n # OutName(c), HasIn(ls, i + 1, n, w), Stays(p, c, n, w)
        PROVE  Has(r.out, n, w)
    <3>1. CASE HasIn(ls, i, n, w)
      BY <1>1, <2>3, <2>4, <3>1
    <3>2. CASE l.name = n /\ w \in ToSet(l.val)
      <4>1. w \in ToSet(z.val)
        BY <2>1, <2>4, <3>2 DEF WordsOf
      <4>2. QED
        BY <2>3, <3>2, <4>1
    <3>3. QED
      BY <1>3, <2>4, <3>1, <3>2
  <2>5. ASSUME NEW w, Seen(ls, i + 1, AddName(c)), Has(p.lines, AddName(c), w), w \notin p.remove
        PROVE  Has(r.out, AddName(c), w)
    <3>1. CASE Seen(ls, i, AddName(c))
      BY <1>1, <2>3, <2>5, <3>1
    <3>2. CASE ~Seen(ls, i, AddName(c))
      <4>1. l.name = AddName(c) /\ Has(st.left, AddName(c), w)
        BY <1>2, <1>3, <2>5, <3>2
      <4>2. w \in ToSet(z.val)
        BY <1>4, <2>1, <2>5, <4>1 DEF WordsOf
      <4>3. QED
        BY <2>3, <4>1, <4>2
    <3>3. QED
      BY <3>1, <3>2
  <2>6. ASSUME NEW n, NEW w, n[1] = "SRC_URI", Has(r.out, n, w)
        PROVE  HasIn(ls, i + 1, n, w) \/ Has(p.lines, n, w)
    <3>1. CASE Has(st.out, n, w)
      BY <1>1, <1>3, <2>6, <3>1
    <3>2. CASE l.name = n /\ w \in ToSet(z.val)
      <4>1. w \in ToSet(l.val) \/ Has(st.left, n, w)
        BY <2>1, <2>6, <3>2 DEF WordsOf
      <4>2. QED
        BY <1>2, <1>3, <3>2, <4>1
    <3>3. QED
      BY <2>3, <2>6, <3>1, <3>2
  <2>7. ASSUME OutName(c) \in NamesOf(p.lines), NEW w, Has(r.out, OutName(c), w)
        PROVE  Has(p.lines, OutName(c), w)
    <3>1. CASE Has(st.out, OutName(c), w)
      BY <1>1, <2>7, <3>1
    <3>2. CASE l.name = OutName(c) /\ w \in ToSet(z.val)
      <4>1. ~Seen(ls, i, OutName(c))
        <5>1. SUFFICES ASSUME NEW j \in 1..i, ls[j].name = OutName(c) PROVE FALSE
          BY DEF Seen
        <5>2. DOMAIN ls = 1..Len(ls) /\ Len(ls) \in Nat
          BY SeqHolds DEF AllLines, IsSeq
        <5>3. j \in DOMAIN ls /\ j # i + 1
          BY <5>2
        <5>4. QED
          BY <1>4, <3>2, <5>1, <5>3 DEF OutOnce
      <4>2. OutName(c) \in NamesOf(st.left)
        BY <1>2, <2>7, <4>1
      <4>3. Has(st.left, OutName(c), w)
        BY <1>4, <2>1, <3>2, <4>2 DEF WordsOf
      <4>4. QED
        BY <1>2, <4>3
    <3>3. QED
      BY <2>3, <2>7, <3>1, <3>2
  <2>8. QED
    BY <2>4, <2>5, <2>6, <2>7 DEF TurnWords
<1>7. QED
  BY <1>5, <1>6 DEF EditedTo

LEMMA LastDirNext ==
  ASSUME NEW ls, NEW i \in Nat, NEW x
  PROVE  /\ LastDir(ls, i + 1, x)
            <=> (LastDir(ls, i, x) /\ ~Leads(ls[i + 1])) \/ (Leads(ls[i + 1]) /\ ls[i + 1].val[1] = x)
         /\ NoneLeads(ls, i + 1) <=> NoneLeads(ls, i) /\ ~Leads(ls[i + 1])
         /\ NoneLeads(ls, i) => ~LastDir(ls, i, x)
<1>1. 1..(i + 1) = (1..i) \cup {i + 1} /\ (i + 2)..(i + 1) = {}
  OBVIOUS
<1>2. \A k \in 1..i : (k + 1)..(i + 1) = ((k + 1)..i) \cup {i + 1}
  OBVIOUS
<1>3. LastDir(ls, i + 1, x)
            <=> (LastDir(ls, i, x) /\ ~Leads(ls[i + 1])) \/ (Leads(ls[i + 1]) /\ ls[i + 1].val[1] = x)
  <2>1. ASSUME NEW k \in 1..i, Leads(ls[k]), ls[k].val[1] = x, \A j \in (k + 1)..(i + 1) : ~Leads(ls[j])
        PROVE  LastDir(ls, i, x) /\ ~Leads(ls[i + 1])
    BY <1>2, <2>1 DEF LastDir
  <2>2. ASSUME NEW k \in 1..i, Leads(ls[k]), ls[k].val[1] = x, ~Leads(ls[i + 1]),
               \A j \in (k + 1)..i : ~Leads(ls[j])
        PROVE  LastDir(ls, i + 1, x)
    BY <1>1, <1>2, <2>2 DEF LastDir
  <2>3. Leads(ls[i + 1]) /\ ls[i + 1].val[1] = x => LastDir(ls, i + 1, x)
    <3>1. i + 1 \in 1..(i + 1) /\ (i + 1 + 1)..(i + 1) = {}
      OBVIOUS
    <3>2. QED
      BY <3>1 DEF LastDir
  <2>4. ASSUME LastDir(ls, i + 1, x)
        PROVE  (LastDir(ls, i, x) /\ ~Leads(ls[i + 1])) \/ (Leads(ls[i + 1]) /\ ls[i + 1].val[1] = x)
    <3>1. PICK k \in 1..(i + 1) : /\ Leads(ls[k]) /\ ls[k].val[1] = x
                                  /\ \A j \in (k + 1)..(i + 1) : ~Leads(ls[j])
      BY <2>4 DEF LastDir
    <3>2. QED
      BY <1>1, <2>1, <3>1
  <2>5. QED
    BY <2>2, <2>4, <2>3 DEF LastDir
<1>4. QED
  BY <1>1, <1>3 DEF LastDir, NoneLeads

LEMMA SameLast ==
  ASSUME NEW s, NEW r, NEW n \in Nat, \A j \in 1..n : r[j] = s[j], NEW x
  PROVE  (LastDir(s, n, x) <=> LastDir(r, n, x)) /\ (NoneLeads(s, n) <=> NoneLeads(r, n))
<1>1. \A j \in 1..n : \A k \in (j + 1)..n : k \in 1..n
  OBVIOUS
<1>2. QED
  BY <1>1 DEF LastDir, NoneLeads

LEMMA DirTurn ==
  ASSUME NEW ls, AllLines(ls), NEW p, NEW c, NEW i \in Nat, i + 1 \in DOMAIN ls,
         NEW st, TurnLines(st, ls, p, i), TurnDir(st, ls, p, i),
         NEW r, EditedTo(st, ls[i + 1], r, p, c)
  PROVE  TurnDir(r, ls, p, i + 1)
<1> DEFINE l == ls[i + 1]
           m == Len(st.out)
<1>1. /\ \A x : LastDir(ls, i, x) => LastDir(st.out, m, x)
      /\ NoneLeads(ls, i) => NoneLeads(st.out, m) /\ st.dir = "PN"
      /\ ExtraPaths \in NamesOf(p.lines) => NoneLeads(ls, i) \/ LastDir(ls, i, st.dir)
      /\ ExtraPaths \notin NamesOf(p.lines) => st.dir = "PN"
  BY DEF TurnDir
<1>2. \A x : /\ LastDir(ls, i + 1, x) <=> (LastDir(ls, i, x) /\ ~Leads(l)) \/ (Leads(l) /\ l.val[1] = x)
             /\ NoneLeads(ls, i + 1) <=> NoneLeads(ls, i) /\ ~Leads(l)
             /\ NoneLeads(ls, i) => ~LastDir(ls, i, x)
  BY LastDirNext
<1>3. \A n : n \in NamesOf(st.left) <=> n \in NamesOf(p.lines) /\ ~Seen(ls, i, n)
  BY LeftHas
<1>4. Seen(ls, i, ExtraPaths) <=> ~NoneLeads(ls, i)
  BY DEF Seen, NoneLeads, Leads, Elsewhere
<1>5. r.dir = IF l.name = ExtraPaths /\ l.name \in NamesOf(p.lines) /\ ~Elsewhere(l) THEN l.val[1] ELSE st.dir
  BY DEF EditedTo
<1>6. Leads(l) <=> l.name = ExtraPaths /\ ~Elsewhere(l)
  BY DEF Leads, Elsewhere
<1> DEFINE k == Len(r.out)
<1>7. /\ \A x : LastDir(st.out, m, x) /\ ~Leads(l) => LastDir(r.out, k, x)
      /\ NoneLeads(st.out, m) /\ ~Leads(l) => NoneLeads(r.out, k)
      /\ Leads(l) => LastDir(r.out, k, l.val[1])
  <2>1. CASE Dropped(st, l, r, p, c)
    <3>1. r.out = st.out /\ l.name \in {SrcUri("", Unsaid), AddName(c), OutName(c)}
      BY <2>1 DEF Dropped
    <3>2. ~Leads(l)
      BY <3>1, NamesDiffer DEF Leads
    <3>3. QED
      BY <3>1, <3>2
  <2>2. ASSUME NEW z, Becomes(z, st, l, r, p, c)
        PROVE  /\ \A x : LastDir(st.out, m, x) /\ ~Leads(l) => LastDir(r.out, k, x)
               /\ NoneLeads(st.out, m) /\ ~Leads(l) => NoneLeads(r.out, k)
               /\ Leads(l) => LastDir(r.out, k, l.val[1])
    <3>1. r.out = Append(st.out, z) /\ z.name = l.name /\ (l.name = ExtraPaths => z = l)
      BY <2>2 DEF Becomes
    <3>2. /\ k = m + 1 /\ m \in Nat /\ (\A j \in 1..m : r.out[j] = st.out[j]) /\ r.out[m + 1] = z
      BY <3>1, AppendHolds DEF TurnLines, AllLines
    <3>3. Leads(z) <=> Leads(l)
      BY <3>1 DEF Leads
    <3>4. Leads(l) => z = l
      BY <3>1 DEF Leads
    <3> HIDE DEF m, k
    <3>5. \A x : (LastDir(st.out, m, x) <=> LastDir(r.out, m, x))
                 /\ (NoneLeads(st.out, m) <=> NoneLeads(r.out, m))
      BY <3>2, SameLast
    <3>6. \A x : /\ LastDir(r.out, k, x)
                    <=> (LastDir(r.out, m, x) /\ ~Leads(z)) \/ (Leads(z) /\ z.val[1] = x)
                 /\ NoneLeads(r.out, k) <=> NoneLeads(r.out, m) /\ ~Leads(z)
      BY <3>2, LastDirNext
    <3>7. QED
      BY <3>3, <3>4, <3>5, <3>6
  <2>3. QED
    BY <2>1, <2>2 DEF EditedTo
<1> HIDE DEF m, k
<1>8. \A x : LastDir(ls, i + 1, x) => LastDir(r.out, k, x)
  BY <1>1, <1>2, <1>7
<1>9. NoneLeads(ls, i + 1) => NoneLeads(r.out, k) /\ r.dir = "PN"
  BY <1>1, <1>2, <1>5, <1>6, <1>7
<1>10. ExtraPaths \in NamesOf(p.lines) => NoneLeads(ls, i + 1) \/ LastDir(ls, i + 1, r.dir)
  <2> SUFFICES ASSUME ExtraPaths \in NamesOf(p.lines), ~NoneLeads(ls, i + 1) PROVE LastDir(ls, i + 1, r.dir)
    OBVIOUS
  <2>1. CASE Leads(l)
    <3>1. r.dir = l.val[1]
      BY <1>5, <1>6, <2>1
    <3>2. QED
      BY <1>2, <2>1, <3>1
  <2>2. CASE ~Leads(l)
    <3>1. r.dir = st.dir /\ LastDir(ls, i, st.dir)
      BY <1>1, <1>2, <1>5, <1>6, <2>2
    <3>2. QED
      BY <1>2, <2>2, <3>1
  <2>3. QED
    BY <2>1, <2>2
<1>11. ExtraPaths \notin NamesOf(p.lines) => r.dir = "PN"
  BY <1>1, <1>5
<1>12. QED
  BY <1>8, <1>9, <1>10, <1>11 DEF TurnDir, k

LEMMA SameTurn ==
  ASSUME NEW ls, NEW p, NEW c, NEW i \in Nat, NEW st, TurnLines(st, ls, p, i), TurnSame(st, ls, i),
         NEW r, EditedTo(st, ls[i + 1], r, p, c)
  PROVE  TurnSame(r, ls, i + 1)
<1> DEFINE l == ls[i + 1]
<1>1. SUFFICES ASSUME ~r.changed PROVE Len(r.out) = i + 1 /\ \A j \in 1..(i + 1) : r.out[j] = ls[j]
  BY DEF TurnSame
<1>2. ~st.changed /\ ~Dropped(st, l, r, p, c)
  BY <1>1 DEF EditedTo, Dropped
<1>3. PICK z : Becomes(z, st, l, r, p, c)
  BY <1>2 DEF EditedTo
<1>4. r.out = Append(st.out, l)
  BY <1>1, <1>3 DEF Becomes
<1>5. Len(st.out) = i /\ \A j \in 1..i : st.out[j] = ls[j]
  BY <1>2 DEF TurnSame
<1>6. Len(r.out) = i + 1 /\ (\A j \in 1..i : r.out[j] = st.out[j]) /\ r.out[i + 1] = l
  BY <1>4, <1>5, AppendHolds DEF TurnLines, AllLines
<1>7. \A j \in 1..(i + 1) : j \in 1..i \/ j = i + 1
  OBVIOUS
<1>8. QED
  BY <1>5, <1>6, <1>7

\* What edit_metadata has after each of the first n lines.
TurnsUpTo(f, ls, p, c, n) ==
  f = [i \in 0..n |-> IF i = 0 THEN [out |-> <<>>, left |-> p.lines, dir |-> "PN", changed |-> FALSE]
                      ELSE EditLine(f[i - 1], ls[i], c, p)]

LEMMA TurnsExist ==
  ASSUME NEW ls, NEW p, NEW c, NEW n \in Nat
  PROVE  \E f : TurnsUpTo(f, ls, p, c, n)
<1> DEFINE T == {m \in Nat : ~ \E f : TurnsUpTo(f, ls, p, c, m)}
           Start == [out |-> <<>>, left |-> p.lines, dir |-> "PN", changed |-> FALSE]
           Step(f, k) == IF k = 0 THEN Start ELSE EditLine(f[k - 1], ls[k], c, p)
<1>1. SUFFICES ASSUME T # {} PROVE FALSE
  OBVIOUS
<1>2. PICK m \in T : \A k \in T : m <= k
  <2> HIDE DEF T
  <2>1. T \subseteq Nat
    BY DEF T
  <2> QED
    BY <1>1, <2>1, LeastNumber
<1>3. m # 0
  <2> DEFINE f == [k \in 0..0 |-> Start]
  <2>1. \A k \in 0..0 : k = 0
    OBVIOUS
  <2>2. f = [k \in 0..0 |-> Step(f, k)]
    BY <2>1
  <2>3. TurnsUpTo(f, ls, p, c, 0)
    BY <2>2 DEF TurnsUpTo
  <2>4. QED
    BY <2>3
<1>4. PICK f : TurnsUpTo(f, ls, p, c, m - 1)
  BY <1>2, <1>3
<1> DEFINE h == [k \in 0..m |-> IF k = m THEN Step(f, m) ELSE f[k]]
<1>5. TurnsUpTo(h, ls, p, c, m)
  <2>1. ASSUME NEW k \in 0..m PROVE h[k] = Step(h, k)
    <3>1. CASE k = m
      <4>1. h[m] = Step(f, m) /\ m - 1 \in 0..m /\ m - 1 # m
        BY <1>2, <1>3
      <4>2. h[m - 1] = f[m - 1]
        BY <4>1
      <4>3. QED
        BY <1>3, <3>1, <4>1, <4>2
    <3>2. CASE k # m
      <4>1. k \in 0..(m - 1)
        BY <1>2, <3>2
      <4>2. f[k] = Step(f, k)
        BY <1>4, <4>1 DEF TurnsUpTo
      <4>3. h[k] = f[k]
        BY <3>2
      <4>4. k # 0 => k - 1 \in 0..m /\ k - 1 # m
        BY <1>2, <4>1
      <4>5. k # 0 => h[k - 1] = f[k - 1]
        BY <4>4
      <4>6. QED
        BY <4>2, <4>3, <4>5
    <3>3. QED
      BY <3>1, <3>2
  <2>2. h = [k \in 0..m |-> Step(h, k)]
    BY <2>1
  <2>3. QED
    BY <2>2 DEF TurnsUpTo
<1>6. QED
  BY <1>2, <1>5

TurnIs(st, ls, p, c, i) ==
  TurnLines(st, ls, p, i) /\ TurnWords(st, ls, p, c, i) /\ TurnDir(st, ls, p, i) /\ TurnSame(st, ls, i)

LEMMA FirstTurn ==
  ASSUME NEW ls, NEW p, NEW c, PreparedIs(p, c)
  PROVE  TurnIs([out |-> <<>>, left |-> p.lines, dir |-> "PN", changed |-> FALSE], ls, p, c, 0)
<1> DEFINE e == <<>>
           st == [out |-> e, left |-> p.lines, dir |-> "PN", changed |-> FALSE]
<1>1. st.out = e /\ st.left = p.lines /\ st.dir = "PN" /\ st.changed = FALSE /\ IsTurn(st)
  BY DEF IsTurn
<1>2. IsSeq(e) /\ Len(e) = 0 /\ DOMAIN e = {} /\ ToSet(e) = {}
  BY NoElements
<1>3. AllLines(p.lines) /\ NamesOnce(p.lines)
  BY DEF PreparedIs, Tells
<1> HIDE DEF e, st
<1>4. \A n, w : ~Seen(ls, 0, n) /\ ~HasIn(ls, 0, n, w)
  BY DEF Seen, HasIn
<1>5. \A x : NoneLeads(ls, 0) /\ NoneLeads(e, 0) /\ ~LastDir(ls, 0, x)
  BY DEF NoneLeads, LastDir
<1>6. AllLines(st.out) /\ OutOnce(st.out) /\ \A n, w : ~Has(st.out, n, w)
  BY <1>1, <1>2 DEF AllLines, OutOnce, Has
<1>7. TurnLines(st, ls, p, 0)
  BY <1>1, <1>2, <1>3, <1>4, <1>6 DEF TurnLines
<1>8. TurnWords(st, ls, p, c, 0)
  BY <1>4, <1>6 DEF TurnWords
<1>9. TurnDir(st, ls, p, 0)
  BY <1>1, <1>2, <1>5 DEF TurnDir
<1>10. TurnSame(st, ls, 0)
  BY <1>1, <1>2 DEF TurnSame
<1>11. QED
  BY <1>7, <1>8, <1>9, <1>10 DEF TurnIs, st, e

LEMMA EditAllHolds ==
  ASSUME NEW ls, AllLines(ls), OutOnce(ls), NEW p, NEW c, PreparedIs(p, c)
  PROVE  TurnIs(EditAll(ls, p, c), ls, p, c, Len(ls))
<1> DEFINE n == Len(ls)
           f == CHOOSE g : TurnsUpTo(g, ls, p, c, n)
<1>1. n \in Nat /\ DOMAIN ls = 1..n
  BY SeqHolds DEF AllLines, IsSeq
<1>2. EditAll(ls, p, c) = f[n]
  BY DEF EditAll, TurnsUpTo
<1> HIDE DEF n
<1>3. TurnsUpTo(f, ls, p, c, n)
  BY <1>1, TurnsExist
<1> HIDE DEF f
<1>4. \A i \in 0..n : f[i] = IF i = 0 THEN [out |-> <<>>, left |-> p.lines, dir |-> "PN", changed |-> FALSE]
                             ELSE EditLine(f[i - 1], ls[i], c, p)
  BY <1>3, Zenon DEF TurnsUpTo
<1> DEFINE T == {i \in 0..n : ~TurnIs(f[i], ls, p, c, i)}
<1>5. ASSUME T # {} PROVE FALSE
  <2>1. PICK i \in T : \A j \in T : i <= j
    <3>1. T \subseteq Nat
      BY <1>1
    <3> HIDE DEF T
    <3> QED
      BY <1>5, <3>1, LeastNumber
  <2>2. i \in 0..n /\ ~TurnIs(f[i], ls, p, c, i)
    BY <2>1
  <2>3. CASE i = 0
    <3>1. f[0] = [out |-> <<>>, left |-> p.lines, dir |-> "PN", changed |-> FALSE]
      BY <1>4, <2>2, <2>3
    <3>2. QED
      BY <2>2, <2>3, <3>1, FirstTurn
  <2>4. CASE i # 0
    <3> DEFINE k == i - 1
               st == f[k]
               l == ls[k + 1]
    <3>1. k \in 0..n /\ k \in Nat /\ k + 1 = i /\ ~(i <= k) /\ k + 1 \in DOMAIN ls
      BY <1>1, <2>2, <2>4
    <3>2. TurnIs(st, ls, p, c, k)
      BY <2>1, <3>1
    <3>3. f[i] = EditLine(st, l, c, p)
      BY <1>4, <2>2, <2>4, <3>1
    <3>4. TurnLines(st, ls, p, k)
      BY <3>2 DEF TurnIs
    <3>5. IsLine(l)
      BY <3>1 DEF AllLines, ToSet
    <3>6. /\ IsTurn(st) /\ st.changed \in BOOLEAN /\ AllLines(st.left) /\ NamesOnce(st.left)
          /\ ToSet(st.left) \subseteq ToSet(p.lines)
      BY <3>4 DEF TurnLines
    <3>7. /\ NamesOf(st.left) \subseteq NamesOf(p.lines)
          /\ NamesOf(p.lines) \subseteq {ExtraPaths, PackageArch, OutName(c), AddName(c), DoInstall(c.machine)}
      BY <3>6 DEF NamesOf, PreparedIs
    <3> HIDE DEF st, l, k
    <3>8. EditedTo(st, l, f[i], p, c)
      BY <3>3, <3>5, <3>6, <3>7, LineEdited
    <3>9. EditedTo(st, ls[k + 1], f[i], p, c)
      BY <3>8 DEF l
    <3>10. TurnLines(f[i], ls, p, k + 1)
      BY <3>1, <3>4, <3>9, LinesTurn
    <3>11. TurnWords(f[i], ls, p, c, k + 1)
      BY <3>1, <3>2, <3>9, WordsTurn DEF TurnIs
    <3>12. TurnDir(f[i], ls, p, k + 1)
      BY <3>1, <3>2, <3>9, DirTurn DEF TurnIs
    <3>13. TurnSame(f[i], ls, k + 1)
      BY <3>1, <3>2, <3>9, SameTurn DEF TurnIs
    <3>14. QED
      BY <2>2, <3>1, <3>10, <3>11, <3>12, <3>13 DEF TurnIs
  <2>5. QED
    BY <2>3, <2>4
<1>6. n \in 0..n
  BY <1>1
<1>7. TurnIs(f[n], ls, p, c, n)
  BY <1>5, <1>6
<1>8. QED
  BY <1>2, <1>7 DEF n

-----------------------------------------------------------------------------
(* What edit_metadata leaves.                                               *)

EditIs(e, ls, p, c) ==
  /\ AllLines(e.lines) /\ OutOnce(e.lines)
  /\ \A l \in ToSet(e.lines) : \E o \in ToSet(ls) \cup ToSet(p.lines) : o.name = l.name /\ o.op = l.op
  /\ \A n, w : n[1] = "SRC_URI" /\ n # OutName(c) /\ Has(ls, n, w) /\ Stays(p, c, n, w) => Has(e.lines, n, w)
  /\ \A w : Has(p.lines, AddName(c), w) /\ w \notin p.remove => Has(e.lines, AddName(c), w)
  /\ \A n, w : n[1] = "SRC_URI" /\ Has(e.lines, n, w) => Has(ls, n, w) \/ Has(p.lines, n, w)
  /\ OutName(c) \in NamesOf(p.lines) => \A w : Has(e.lines, OutName(c), w) => Has(p.lines, OutName(c), w)
  /\ \A x : LastDir(ls, Len(ls), x) => LastDir(e.lines, Len(e.lines), x)
  /\ ~inRecipe /\ c.srcs # <<>> => LastDir(e.lines, Len(e.lines), e.dir)
  /\ inRecipe => e.dir = "PN"

\* The lines are the same whether or not they are written again.
LEMMA EditedIs ==
  ASSUME NEW c, AllLines(appendFile), NEW done, done = EditAll(appendFile, Prepared(c), c),
         TurnLines(done, appendFile, Prepared(c), Len(appendFile)), TurnSame(done, appendFile, Len(appendFile))
  PROVE  Edited(c).dir = done.dir /\ Edited(c).lines = done.out \o done.left
<1>1. /\ Edited(c).dir = done.dir
      /\ Edited(c).lines = IF done.changed \/ done.left # <<>> THEN done.out \o done.left ELSE appendFile
  BY DEF Edited
<1>2. CASE ~done.changed /\ done.left = <<>>
  <2> DEFINE o == done.out
             ls == appendFile
             e == <<>>
             t == o \o e
  <2>1. IsSeq(o) /\ IsSeq(ls) /\ IsSeq(e) /\ Len(e) = 0
    BY NoElements DEF TurnLines, AllLines
  <2>2. Len(o) = Len(ls) /\ \A j \in 1..Len(ls) : o[j] = ls[j]
    BY <1>2 DEF TurnSame
  <2> HIDE DEF o, ls, e
  <2>3. /\ IsSeq(t) /\ Len(t) = Len(o) + 0 /\ (\A j \in 1..Len(o) : t[j] = o[j]) /\ Len(o) \in Nat
    BY <2>1, JoinHolds
  <2> HIDE DEF t
  <2>4. Len(t) = Len(ls) /\ \A j \in 1..Len(ls) : t[j] = ls[j]
    BY <2>2, <2>3
  <2>5. t = ls
    BY <2>1, <2>3, <2>4, SameSeq
  <2>6. QED
    BY <1>1, <1>2, <2>5 DEF t, o, ls, e
<1>3. QED
  BY <1>1, <1>2 DEF TurnLines

\* A sequence joined at the end.
LEMMA DirJoined ==
  ASSUME NEW s, IsSeq(s), NEW r, IsSeq(r), NEW x
  PROVE  /\ LastDir(s, Len(s), x) /\ (\A l \in ToSet(r) : ~Leads(l)) => LastDir(s \o r, Len(s \o r), x)
         /\ NamesOnce(r) /\ (\E l \in ToSet(r) : Leads(l) /\ l.val[1] = x)
            => LastDir(s \o r, Len(s \o r), x)
<1> DEFINE m == Len(s)
           n == Len(r)
           t == s \o r
           k == Len(t)
<1>1. /\ k = m + n /\ m \in Nat /\ n \in Nat /\ DOMAIN r = 1..n
      /\ \A i \in 1..m : t[i] = s[i]
      /\ \A i \in 1..n : t[m + i] = r[i]
  BY JoinHolds
<1> HIDE DEF m, n, t, k
<1>2. LastDir(t, m, x) <=> LastDir(s, m, x)
  BY <1>1, SameLast
<1>3. ASSUME LastDir(s, m, x), \A l \in ToSet(r) : ~Leads(l) PROVE LastDir(t, k, x)
  <2>1. \A i \in 1..m : i \in 1..k
    BY <1>1
  <2>2. PICK i \in 1..m : Leads(t[i]) /\ t[i].val[1] = x /\ \A j \in (i + 1)..m : ~Leads(t[j])
    BY <1>2, <1>3 DEF LastDir
  <2>3. \A j \in 1..n : ~Leads(r[j])
    BY <1>1, <1>3 DEF ToSet
  <2>4. ASSUME NEW j \in (i + 1)..k PROVE ~Leads(t[j])
    <3>1. CASE j <= m
      BY <1>1, <2>2, <2>4, <3>1
    <3>2. CASE ~(j <= m)
      <4>1. j - m \in 1..n /\ m + (j - m) = j
        BY <1>1, <2>4, <3>2
      <4>2. t[j] = r[j - m]
        BY <1>1, <4>1
      <4>3. QED
        BY <2>3, <4>1, <4>2
    <3>3. QED
      BY <3>1, <3>2
  <2>5. QED
    BY <2>1, <2>2, <2>4 DEF LastDir
<1>4. ASSUME NamesOnce(r), NEW l \in ToSet(r), Leads(l), l.val[1] = x
      PROVE  LastDir(t, k, x)
  <2>1. PICK i \in 1..n : r[i] = l
    BY <1>1, <1>4, Zenon DEF ToSet
  <2>2. t[m + i] = l /\ m + i \in 1..k
    BY <1>1, <2>1
  <2>3. ASSUME NEW j \in (m + i + 1)..k PROVE ~Leads(t[j])
    <3>1. j - m \in 1..n /\ m + (j - m) = j /\ j - m # i
      BY <1>1, <2>1, <2>3
    <3>2. t[j] = r[j - m] /\ r[j - m].name # r[i].name
      BY <1>1, <1>4, <2>1, <3>1 DEF NamesOnce
    <3>3. QED
      BY <1>4, <2>1, <3>2 DEF Leads
  <2>4. PICK h \in 1..k : h = m + i
    BY <2>2
  <2>5. t[h] = l /\ \A j \in (h + 1)..k : ~Leads(t[j])
    BY <1>1, <2>2, <2>3, <2>4
  <2>6. QED
    BY <1>4, <2>4, <2>5 DEF LastDir
<1>5. QED
  BY <1>3, <1>4 DEF m, t, k

LEMMA EditHolds ==
  ASSUME AllLines(appendFile), OutOnce(appendFile), IsSeq(rd), inRecipe \in BOOLEAN, NEW c \in AppendCalls
  PROVE  EditIs(Edited(c), appendFile, Prepared(c), c)
<1> DEFINE ls == appendFile
           n == Len(ls)
           p == Prepared(c)
           done == EditAll(ls, p, c)
           out == done.out
           left == done.left
           r == out \o left
<1>1. PreparedIs(p, c)
  BY PreparedHolds
<1>2. Tells(p, c, Len(c.srcs))
  BY <1>1 DEF PreparedIs
<1> HIDE DEF p
<1>3. TurnIs(done, ls, p, c, n)
  BY <1>1, EditAllHolds
<1> HIDE DEF done
<1>4. TurnLines(done, ls, p, n) /\ TurnWords(done, ls, p, c, n) /\ TurnDir(done, ls, p, n) /\ TurnSame(done, ls, n)
  BY <1>3 DEF TurnIs
<1>5. Edited(c).dir = done.dir /\ Edited(c).lines = r
  BY <1>4, EditedIs DEF done, p
<1>6. DOMAIN ls = 1..n /\ n \in Nat
  BY SeqHolds DEF AllLines, IsSeq
<1>7. \A m, w : /\ HasIn(ls, n, m, w) <=> Has(ls, m, w)
                /\ m # ExtraPaths => (Seen(ls, n, m) <=> m \in NamesOf(ls))
  BY <1>6 DEF HasIn, Has, Seen, NamesOf, ToSet, Elsewhere
<1>8. Seen(ls, n, ExtraPaths) <=> ~NoneLeads(ls, n)
  BY DEF Seen, NoneLeads, Leads, Elsewhere
<1>9. AllLines(out) /\ AllLines(left) /\ NamesOnce(left) /\ OutOnce(out)
  BY <1>4 DEF TurnLines
<1>10. /\ IsSeq(r) /\ ToSet(r) = ToSet(out) \cup ToSet(left) /\ Len(r) = Len(out) + Len(left)
       /\ Len(out) \in Nat /\ Len(left) \in Nat
       /\ DOMAIN out = 1..Len(out) /\ DOMAIN left = 1..Len(left) /\ DOMAIN r = 1..(Len(out) + Len(left))
       /\ \A i \in 1..Len(out) : r[i] = out[i]
       /\ \A i \in 1..Len(left) : r[Len(out) + i] = left[i]
  <2>1. IsSeq(out) /\ IsSeq(left)
    BY <1>9 DEF AllLines
  <2> HIDE DEF out, left
  <2>2. QED
    BY <2>1, JoinHolds
<1>11. /\ ToSet(left) = {l \in ToSet(p.lines) : ~Seen(ls, n, l.name)}
       /\ \A l \in ToSet(out) : \E j \in 1..n : ls[j].name = l.name /\ ls[j].op = l.op
  BY <1>4 DEF TurnLines
<1>12. \A m, w : /\ Has(left, m, w) <=> Has(p.lines, m, w) /\ ~Seen(ls, n, m)
                 /\ m \in NamesOf(left) <=> m \in NamesOf(p.lines) /\ ~Seen(ls, n, m)
  BY <1>4, LeftHas
<1>13. /\ \A x : LastDir(ls, n, x) => LastDir(r, Len(r), x)
       /\ ~inRecipe /\ c.srcs # <<>> => LastDir(r, Len(r), done.dir)
       /\ inRecipe => done.dir = "PN"
  <2>1. /\ \A x : LastDir(ls, n, x) => LastDir(out, Len(out), x)
        /\ NoneLeads(ls, n) => NoneLeads(out, Len(out)) /\ done.dir = "PN"
        /\ ExtraPaths \in NamesOf(p.lines) => NoneLeads(ls, n) \/ LastDir(ls, n, done.dir)
        /\ ExtraPaths \notin NamesOf(p.lines) => done.dir = "PN"
    BY <1>4 DEF TurnDir
  <2>2. /\ ~inRecipe /\ c.srcs # <<>> => ExtraPaths \in NamesOf(p.lines)
        /\ \A l \in ToSet(p.lines) : l.name = ExtraPaths => ~inRecipe /\ c.srcs # <<>> /\ l.val = <<"PN">>
    BY <1>2 DEF Tells
  <2>3. IsSeq(out) /\ IsSeq(left)
    BY <1>9 DEF AllLines
  <2> HIDE DEF ls, n, out, left
  <2>4. ASSUME NEW x, LastDir(ls, n, x) PROVE LastDir(r, Len(r), x)
    <3>1. ~NoneLeads(ls, n)
      BY <2>4 DEF LastDir, NoneLeads
    <3>2. ExtraPaths \notin NamesOf(left)
      BY <1>8, <1>12, <3>1
    <3>3. \A l \in ToSet(left) : ~Leads(l)
      BY <3>2 DEF NamesOf, Leads
    <3>4. QED
      BY <2>1, <2>3, <2>4, <3>3, DirJoined
  <2>5. ASSUME ~inRecipe, c.srcs # <<>> PROVE LastDir(r, Len(r), done.dir)
    <3>1. CASE ~NoneLeads(ls, n)
      BY <2>1, <2>2, <2>4, <2>5, <3>1
    <3>2. CASE NoneLeads(ls, n)
      <4>1. done.dir = "PN"
        BY <2>1, <3>2
      <4>2. ExtraPaths \in NamesOf(left)
        BY <1>8, <1>12, <2>2, <2>5, <3>2
      <4>3. PICK l \in ToSet(left) : l.name = ExtraPaths
        BY <4>2 DEF NamesOf
      <4>4. l.val = <<"PN">>
        BY <1>11, <2>2, <4>3
      <4>5. Leads(l) /\ l.val[1] = "PN"
        BY <4>3, <4>4 DEF Leads
      <4>6. QED
        BY <1>9, <2>3, <4>1, <4>5, DirJoined
    <3>3. QED
      BY <3>1, <3>2
  <2>6. ASSUME inRecipe PROVE done.dir = "PN"
    BY <2>1, <2>2, <2>6 DEF NamesOf
  <2>7. QED
    BY <2>4, <2>5, <2>6
<1> HIDE DEF r, out, left, ls, n
<1>14. AllLines(r)
  BY <1>9, <1>10 DEF AllLines
<1>15. \A m, w : Has(r, m, w) <=> Has(out, m, w) \/ Has(left, m, w)
  BY <1>10 DEF Has
<1>16. OutOnce(r)
  <2>1. \A l \in ToSet(out), o \in ToSet(left) : IsOut(l.name) => l.name # o.name
    <3> SUFFICES ASSUME NEW l \in ToSet(out), NEW o \in ToSet(left), IsOut(l.name), l.name = o.name PROVE FALSE
      OBVIOUS
    <3>1. PICK j \in 1..n : ls[j].name = l.name
      BY <1>11
    <3>2. l.name \in NamesOf(ls) /\ l.name # ExtraPaths
      BY <1>6, <3>1 DEF NamesOf, ToSet, IsOut, ExtraPaths
    <3>3. QED
      BY <1>7, <1>11, <3>2
  <2>2. ASSUME NEW x \in DOMAIN r
        PROVE  \/ x \in DOMAIN out /\ r[x] = out[x] /\ r[x] \in ToSet(out)
               \/ x - Len(out) \in DOMAIN left /\ r[x] = left[x - Len(out)] /\ r[x] \in ToSet(left)
    <3>1. CASE x \in 1..Len(out)
      BY <1>10, <3>1 DEF ToSet
    <3>2. CASE x \notin 1..Len(out)
      <4>1. x - Len(out) \in 1..Len(left) /\ Len(out) + (x - Len(out)) = x
        BY <1>10, <2>2, <3>2
      <4>2. r[x] = left[x - Len(out)]
        BY <1>10, <4>1
      <4>3. QED
        BY <1>10, <4>1, <4>2, Zenon DEF ToSet
    <3>3. QED
      BY <3>1, <3>2
  <2>3. ASSUME NEW x \in DOMAIN r, NEW y \in DOMAIN r, IsOut(r[x].name), r[x].name = r[y].name PROVE x = y
    <3>1. CASE x \in DOMAIN out /\ r[x] = out[x] /\ r[x] \in ToSet(out)
      <4>1. r[y] \notin ToSet(left)
        BY <2>1, <2>3, <3>1
      <4>2. y \in DOMAIN out /\ r[y] = out[y]
        BY <2>2, <4>1
      <4>3. QED
        BY <1>9, <2>3, <3>1, <4>2 DEF OutOnce
    <3>2. CASE x - Len(out) \in DOMAIN left /\ r[x] = left[x - Len(out)] /\ r[x] \in ToSet(left)
      <4>1. r[y] \notin ToSet(out)
        BY <2>1, <2>3, <3>2
      <4>2. y - Len(out) \in DOMAIN left /\ r[y] = left[y - Len(out)]
        BY <2>2, <4>1
      <4>3. x - Len(out) = y - Len(out)
        BY <1>9, <2>3, <3>2, <4>2 DEF NamesOnce
      <4>4. QED
        BY <1>10, <2>3, <4>3
    <3>3. QED
      BY <2>2, <3>1, <3>2
  <2>4. QED
    BY <2>3 DEF OutOnce
<1>17. \A l \in ToSet(r) : \E o \in ToSet(ls) \cup ToSet(p.lines) : o.name = l.name /\ o.op = l.op
  <2>1. \A j \in 1..n : ls[j] \in ToSet(ls)
    BY <1>6 DEF ToSet
  <2>2. QED
    BY <1>10, <1>11, <2>1
<1>18. TurnWords(done, ls, p, c, n)
  BY <1>4
<1>19. /\ \A m, w : m[1] = "SRC_URI" /\ m # OutName(c) /\ Has(ls, m, w) /\ Stays(p, c, m, w) => Has(out, m, w)
       /\ \A w : Seen(ls, n, AddName(c)) /\ Has(p.lines, AddName(c), w) /\ w \notin p.remove
                 => Has(out, AddName(c), w)
       /\ \A m, w : m[1] = "SRC_URI" /\ Has(out, m, w) => Has(ls, m, w) \/ Has(p.lines, m, w)
       /\ OutName(c) \in NamesOf(p.lines) => \A w : Has(out, OutName(c), w) => Has(p.lines, OutName(c), w)
  BY <1>7, <1>18 DEF TurnWords, out
<1>20. /\ \A m, w : m[1] = "SRC_URI" /\ m # OutName(c) /\ Has(ls, m, w) /\ Stays(p, c, m, w) => Has(r, m, w)
       /\ \A w : Has(p.lines, AddName(c), w) /\ w \notin p.remove => Has(r, AddName(c), w)
       /\ \A m, w : m[1] = "SRC_URI" /\ Has(r, m, w) => Has(ls, m, w) \/ Has(p.lines, m, w)
       /\ OutName(c) \in NamesOf(p.lines) => \A w : Has(r, OutName(c), w) => Has(p.lines, OutName(c), w)
  BY <1>12, <1>15, <1>19
<1>21. QED
  BY <1>5, <1>13, <1>14, <1>16, <1>17, <1>20 DEF EditIs, ls, n, p

-----------------------------------------------------------------------------
(* What BitBake reads.                                                      *)

\* The word w is in a line with this keyword that holds for m.
Says(ls, kw, m, w) == Has(ls, SrcUri(kw, Unsaid), w) \/ Has(ls, SrcUri(kw, m), w)

\* The recipe's own SRC_URI is replaced for m.
Replaced(ls, m) == \E l \in ToSet(ls) : l.name \in {SrcUri("", Unsaid), SrcUri("", m)} /\ l.op = "="

\* The word w is in SRC_URI for m, if no line removes it.
Written(b, ls, m, w) ==
  (w \in ToSet(b) /\ ~Replaced(ls, m)) \/ Says(ls, "", m, w) \/ Says(ls, ":append", m, w)

LEMMA SaidHolds ==
  ASSUME NEW ls, AllLines(ls), NEW kw, NEW m
  PROVE  /\ IsSeq(WordsSaid(ls, kw, m))
         /\ \A w : w \in ToSet(WordsSaid(ls, kw, m)) <=> Says(ls, kw, m, w)
<1> DEFINE N == {SrcUri(kw, Unsaid), SrcUri(kw, m)}
           F == [i \in DOMAIN ls |-> IF ls[i].name \in N THEN ls[i].val ELSE <<>>]
<1>1. WordsSaid(ls, kw, m) = FlattenSeq(F)
  BY DEF WordsSaid
<1>2. IsSeq(ls) /\ F = [i \in DOMAIN ls |-> F[i]]
  BY DEF AllLines
<1>3. IsSeq(F) /\ DOMAIN F = DOMAIN ls
  BY <1>2, MappedHolds
<1>4. ASSUME NEW i \in DOMAIN ls
      PROVE  IsSeq(F[i]) /\ \A w : w \in ToSet(F[i]) <=> ls[i].name \in N /\ w \in ToSet(ls[i].val)
  <2>1. IsSeq(ls[i].val)
    BY LineHolds DEF AllLines, ToSet
  <2>2. CASE ls[i].name \in N
    BY <2>1, <2>2
  <2>3. CASE ls[i].name \notin N
    BY <2>3, NoElements
  <2>4. QED
    BY <2>2, <2>3
<1> HIDE DEF F, N
<1>5. IsSeq(FlattenSeq(F)) /\ ToSet(FlattenSeq(F)) = UNION {ToSet(F[k]) : k \in DOMAIN F}
  BY <1>3, <1>4, FlattenHolds
<1>6. \A w : w \in ToSet(FlattenSeq(F)) <=> \E i \in DOMAIN ls : ls[i].name \in N /\ w \in ToSet(ls[i].val)
  BY <1>3, <1>4, <1>5
<1>7. \A w : (\E i \in DOMAIN ls : ls[i].name \in N /\ w \in ToSet(ls[i].val)) <=> Says(ls, kw, m, w)
  BY DEF Says, Has, ToSet, N
<1>8. QED
  BY <1>1, <1>5, <1>6, <1>7

LEMMA UriHolds ==
  ASSUME NEW b, IsSeq(b), NEW ls, AllLines(ls), NEW m
  PROVE  /\ IsSeq(UriWords(b, ls, m))
         /\ \A w : w \in ToSet(UriWords(b, ls, m)) <=> Written(b, ls, m, w) /\ ~Says(ls, ":remove", m, w)
         /\ \E s, r : /\ UriWords(b, ls, m) = s \o r /\ IsSeq(s) /\ IsSeq(r)
                      /\ \A w : w \in ToSet(r) <=> Says(ls, ":append", m, w) /\ ~Says(ls, ":remove", m, w)
<1> DEFINE sets == {i \in LinesNamed(ls, SrcUri("", Unsaid)) \cup LinesNamed(ls, SrcUri("", m)) : ls[i].op = "="}
           out == ToSet(WordsSaid(ls, ":remove", m))
           a == IF sets = {} THEN b ELSE <<>>
           d == WordsSaid(ls, "", m)
           f == a \o d
           g == WordsSaid(ls, ":append", m)
           s == Without(f, out)
           r == Without(g, out)
<1>1. UriWords(b, ls, m) = s \o r
  BY DEF UriWords
<1>2. (sets # {}) <=> Replaced(ls, m)
  BY DEF LinesNamed, Replaced, ToSet
<1>3. IsSeq(a) /\ \A w : w \in ToSet(a) <=> w \in ToSet(b) /\ ~Replaced(ls, m)
  BY <1>2, NoElements
<1>4. /\ IsSeq(d) /\ IsSeq(g)
      /\ \A w : /\ w \in ToSet(d) <=> Says(ls, "", m, w)
                /\ w \in ToSet(g) <=> Says(ls, ":append", m, w)
                /\ w \in out <=> Says(ls, ":remove", m, w)
  BY SaidHolds
<1> HIDE DEF a, d, g, out
<1>5. IsSeq(f) /\ ToSet(f) = ToSet(a) \cup ToSet(d)
  BY <1>3, <1>4, JoinHolds
<1> HIDE DEF f
<1>6. /\ IsSeq(s) /\ ToSet(s) = ToSet(f) \ out
      /\ IsSeq(r) /\ ToSet(r) = ToSet(g) \ out
  BY <1>4, <1>5, WithoutHolds
<1> HIDE DEF s, r
<1>7. IsSeq(s \o r) /\ ToSet(s \o r) = ToSet(s) \cup ToSet(r)
  BY <1>6, JoinHolds
<1>8. \A w : w \in ToSet(s \o r) <=> Written(b, ls, m, w) /\ ~Says(ls, ":remove", m, w)
  BY <1>3, <1>4, <1>5, <1>6, <1>7 DEF Written
<1>9. \A w : w \in ToSet(r) <=> Says(ls, ":append", m, w) /\ ~Says(ls, ":remove", m, w)
  BY <1>4, <1>6
<1>10. QED
  BY <1>1, <1>6, <1>7, <1>8, <1>9

\* The last word of r for the file.
LastOf(r, f) ==
  r[CHOOSE i \in {k \in DOMAIN r : r[k].file = f} : \A j \in {k \in DOMAIN r : r[k].file = f} : j <= i]

LEMMA LastHolds ==
  ASSUME NEW r, IsSeq(r), NEW w \in ToSet(r)
  PROVE  \E i \in DOMAIN r : /\ LastOf(r, w.file) = r[i] /\ r[i].file = w.file
                             /\ \A j \in DOMAIN r : r[j].file = w.file => j <= i
<1> DEFINE n == Len(r)
           K == {k \in DOMAIN r : r[k].file = w.file}
           T == {n - i : i \in K}
<1>1. n \in Nat /\ DOMAIN r = 1..n
  BY SeqHolds DEF IsSeq
<1> HIDE DEF n
<1>2. T \subseteq Nat /\ T # {}
  BY <1>1 DEF ToSet
<1>3. PICK t \in T : \A v \in T : t <= v
  <2> HIDE DEF T
  <2>1. QED
    BY <1>2, LeastNumber
<1>4. PICK i \in K : t = n - i
  BY <1>3
<1>5. \A j \in K : j <= i
  <2> SUFFICES ASSUME NEW j \in K PROVE j <= i
    OBVIOUS
  <2>1. n - j \in T
    OBVIOUS
  <2>2. t <= n - j
    BY <1>3, <2>1
  <2>3. QED
    BY <1>1, <1>4, <2>2
<1> DEFINE k == CHOOSE x \in K : \A j \in K : j <= x
<1>6. k \in K /\ \A j \in K : j <= k
  BY <1>4, <1>5
<1>7. LastOf(r, w.file) = r[k]
  BY DEF LastOf
<1> HIDE DEF k
<1>8. QED
  BY <1>6, <1>7

\* The words of :append lines come last.
LEMMA UriOrder ==
  ASSUME NEW b, IsSeq(b), NEW ls, AllLines(ls), NEW m, NEW u, u = UriWords(b, ls, m),
         NEW w \in ToSet(u), Says(ls, ":append", m, w)
  PROVE  Says(ls, ":append", m, LastOf(u, w.file))
<1>1. /\ IsSeq(u)
      /\ \A v : v \in ToSet(u) <=> Written(b, ls, m, v) /\ ~Says(ls, ":remove", m, v)
      /\ \E s, r : /\ u = s \o r /\ IsSeq(s) /\ IsSeq(r)
                   /\ \A v : v \in ToSet(r) <=> Says(ls, ":append", m, v) /\ ~Says(ls, ":remove", m, v)
  BY UriHolds
<1>2. PICK s, r : /\ u = s \o r /\ IsSeq(s) /\ IsSeq(r)
                  /\ \A v : v \in ToSet(r) <=> Says(ls, ":append", m, v) /\ ~Says(ls, ":remove", m, v)
  BY <1>1
<1>3. w \in ToSet(r)
  BY <1>1, <1>2
<1> DEFINE k == Len(s)
           n == Len(r)
<1>4. /\ k \in Nat /\ n \in Nat /\ DOMAIN r = 1..n /\ DOMAIN u = 1..(k + n)
      /\ \A i \in 1..n : u[k + i] = r[i]
  BY <1>2, JoinHolds
<1> HIDE DEF k, n
<1>5. PICK x \in 1..n : r[x] = w
  BY <1>3, <1>4, Zenon DEF ToSet
<1>6. PICK i \in DOMAIN u : /\ LastOf(u, w.file) = u[i] /\ u[i].file = w.file
                            /\ \A j \in DOMAIN u : u[j].file = w.file => j <= i
  BY <1>1, LastHolds
<1>7. k + x \in DOMAIN u /\ u[k + x] = w
  BY <1>4, <1>5
<1>8. k + x <= i
  BY <1>6, <1>7
<1>9. i - k \in 1..n /\ k + (i - k) = i
  BY <1>4, <1>5, <1>6, <1>8
<1>10. u[i] = r[i - k]
  BY <1>4, <1>9
<1>11. u[i] \in ToSet(r)
  BY <1>4, <1>9, <1>10 DEF ToSet
<1>12. QED
  BY <1>2, <1>6, <1>11

-----------------------------------------------------------------------------
(* What a call does to the lines, in terms of the call.                     *)

\* The call says that the entry w is to be removed.
Gone(c, w) ==
  \E j \in DOMAIN c.srcs : Fresh(c.srcs[j]) /\ OldOnes(c.srcs[j].file) # {} /\ w = OldEntry(c.srcs[j].file)

Adds(c, w) == \E j \in DOMAIN c.srcs : Fresh(c.srcs[j]) /\ w = EntryOf(c.srcs[j])

\* R is what is taken out of the lines that add to SRC_URI.
CallIs(e, ls, c, R) ==
  /\ AllLines(e.lines) /\ OutOnce(e.lines)
  /\ R = c.remove \/ (Instead(c) /\ \E w : Gone(c, w) /\ R = {w})
  /\ \A n, w : n[1] = "SRC_URI" /\ n[2] # ":remove" /\ Has(ls, n, w)
        => Has(e.lines, n, w) \/ (w \in R /\ n \in {SrcUri("", Unsaid), AddName(c)})
  /\ \A w : Adds(c, w) /\ w \notin R => Has(e.lines, AddName(c), w)
  /\ \A n, w : n[1] = "SRC_URI" /\ n[2] # ":remove" /\ Has(e.lines, n, w)
        => Has(ls, n, w) \/ (n = AddName(c) /\ Adds(c, w))
  /\ \A ov : \/ \A w : Has(e.lines, SrcUri(":remove", ov), w) => Has(ls, SrcUri(":remove", ov), w)
             \/ /\ ov = c.machine /\ ~Instead(c)
                /\ \A w : Has(e.lines, SrcUri(":remove", ov), w) => Gone(c, w)
  /\ SrcUri(":remove", Unsaid) \in NamesOf(e.lines)
        => SrcUri(":remove", Unsaid) \in NamesOf(ls) \/ (c.machine = Unsaid /\ ~Instead(c))
  /\ \A m : Replaced(e.lines, m) => Replaced(ls, m)

DirIs(e, ls, c) ==
  /\ \A x : LastDir(ls, Len(ls), x) => LastDir(e.lines, Len(e.lines), x)
  /\ ~inRecipe /\ c.srcs # <<>> => LastDir(e.lines, Len(e.lines), e.dir)
  /\ inRecipe => e.dir = "PN"

\* Which names the call's lines can have.
LEMMA UriNames ==
  ASSUME NEW c, NEW ov
  PROVE  /\ SrcUri(":remove", ov) \notin {ExtraPaths, PackageArch, AddName(c), DoInstall(c.machine)}
         /\ SrcUri(":remove", ov) = OutName(c) <=> ov = c.machine
         /\ SrcUri("", ov) \notin {ExtraPaths, PackageArch, OutName(c), DoInstall(c.machine)}
         /\ SrcUri("", ov) = AddName(c) => ov = Unsaid
         /\ SrcUri(":append", ov) \notin {SrcUri("", Unsaid), SrcUri(":remove", ov)}
         /\ SrcUri(":append", ov) = AddName(c) <=> ov = c.machine /\ c.machine # Unsaid
BY DEF SrcUri, AddName, OutName, ExtraPaths, PackageArch, DoInstall

LEMMA NameParts ==
  ASSUME NEW c
  PROVE  /\ \A kw, ov : SrcUri(kw, ov)[1] = "SRC_URI" /\ SrcUri(kw, ov)[2] = kw
         /\ AddName(c)[1] = "SRC_URI" /\ AddName(c)[2] # ":remove"
         /\ ExtraPaths[1] # "SRC_URI" /\ PackageArch[1] # "SRC_URI" /\ DoInstall(c.machine)[1] # "SRC_URI"
         /\ OutName(c)[1] = "SRC_URI" /\ OutName(c)[2] = ":remove"
BY DEF SrcUri, AddName, OutName, ExtraPaths, PackageArch, DoInstall

LEMMA CallHolds ==
  ASSUME AllLines(appendFile), OutOnce(appendFile), IsSeq(rd), inRecipe \in BOOLEAN, NEW c \in AppendCalls
  PROVE  CallIs(Edited(c), appendFile, c, Prepared(c).remove) /\ DirIs(Edited(c), appendFile, c)
<1> DEFINE ls == appendFile
           p == Prepared(c)
           e == Edited(c)
<1>1. PreparedIs(p, c) /\ EditIs(e, ls, p, c)
  BY PreparedHolds, EditHolds
<1> HIDE DEF p, e, ls
<1>2. /\ Instead(c) => OutName(c) \notin NamesOf(p.lines)
      /\ \A l \in ToSet(p.lines) : l.name = SrcUri("", Unsaid) => l.op = "+="
      /\ \A w : Has(p.lines, AddName(c), w) <=> Adds(c, w)
      /\ \A w : Has(p.lines, OutName(c), w) => ~Instead(c) /\ Gone(c, w)
      /\ p.remove = c.remove \/ (Instead(c) /\ \E w : Gone(c, w) /\ p.remove = {w})
      /\ NamesOf(p.lines) \subseteq {ExtraPaths, PackageArch, OutName(c), AddName(c), DoInstall(c.machine)}
  <2>1. Tells(p, c, Len(c.srcs)) /\ DOMAIN c.srcs = 1..Len(c.srcs)
    BY <1>1, AppendAssumption, SeqHolds DEF PreparedIs
  <2>2. \A w : (\E j \in Stale(c, Len(c.srcs)) : w = OldEntry(c.srcs[j].file)) <=> Gone(c, w)
    BY <2>1 DEF Stale, Gone
  <2>3. \A w : (\E j \in 1..Len(c.srcs) : Fresh(c.srcs[j]) /\ w = EntryOf(c.srcs[j])) <=> Adds(c, w)
    BY <2>1 DEF Adds
  <2>4. p.remove = c.remove \/ (Instead(c) /\ \E w : Gone(c, w) /\ p.remove = {w})
    BY <2>1, <2>2 DEF Tells
  <2>5. QED
    BY <1>1, <2>1, <2>2, <2>3, <2>4 DEF Tells, PreparedIs
<1>3. \A n, w : Has(p.lines, n, w) => n \in NamesOf(p.lines)
  BY DEF Has, NamesOf
<1>4. ASSUME NEW n, NEW w, n[1] = "SRC_URI", n[2] # ":remove"
      PROVE  /\ Has(ls, n, w) => Has(e.lines, n, w) \/ (w \in p.remove /\ n \in {SrcUri("", Unsaid), AddName(c)})
             /\ Has(e.lines, n, w) => Has(ls, n, w) \/ (n = AddName(c) /\ Adds(c, w))
  <2>1. n \notin {ExtraPaths, PackageArch, OutName(c), DoInstall(c.machine)}
    BY <1>4, NameParts
  <2>2. /\ Has(ls, n, w) /\ Stays(p, c, n, w) => Has(e.lines, n, w)
        /\ Has(e.lines, n, w) => Has(ls, n, w) \/ Has(p.lines, n, w)
    BY <1>1, <1>4, <2>1 DEF EditIs
  <2>3. ASSUME Has(p.lines, n, w) PROVE n = AddName(c) /\ Adds(c, w)
    <3>1. n \in NamesOf(p.lines)
      BY <1>3, <2>3
    <3>2. n = AddName(c)
      BY <1>2, <2>1, <3>1
    <3>3. QED
      BY <1>2, <2>3, <3>2, Zenon
  <2>4. QED
    BY <2>2, <2>3 DEF Stays
<1>5. ASSUME NEW ov
      PROVE  \/ \A w : Has(e.lines, SrcUri(":remove", ov), w) => Has(ls, SrcUri(":remove", ov), w)
             \/ /\ ov = c.machine /\ ~Instead(c)
                /\ \A w : Has(e.lines, SrcUri(":remove", ov), w) => Gone(c, w)
  <2> DEFINE n == SrcUri(":remove", ov)
  <2>1. n[1] = "SRC_URI" /\ n \notin {ExtraPaths, PackageArch, AddName(c), DoInstall(c.machine)}
        /\ (n = OutName(c) <=> ov = c.machine)
    BY UriNames, NameParts
  <2> HIDE DEF n
  <2>2. /\ \A w : Has(e.lines, n, w) => Has(ls, n, w) \/ Has(p.lines, n, w)
        /\ OutName(c) \in NamesOf(p.lines) => \A w : Has(e.lines, OutName(c), w) => Has(p.lines, OutName(c), w)
    BY <1>1, <2>1 DEF EditIs
  <2>3. CASE n \in NamesOf(p.lines)
    BY <1>2, <2>1, <2>2, <2>3 DEF n
  <2>4. CASE n \notin NamesOf(p.lines)
    BY <1>3, <2>2, <2>4 DEF n
  <2>5. QED
    BY <2>3, <2>4
<1>6. \A l \in ToSet(e.lines) : \E o \in ToSet(ls) \cup ToSet(p.lines) : o.name = l.name /\ o.op = l.op
  BY <1>1 DEF EditIs
<1>7. SrcUri(":remove", Unsaid) \in NamesOf(e.lines)
         => SrcUri(":remove", Unsaid) \in NamesOf(ls) \/ (c.machine = Unsaid /\ ~Instead(c))
  <2> DEFINE n == SrcUri(":remove", Unsaid)
  <2>1. n \notin {ExtraPaths, PackageArch, AddName(c), DoInstall(c.machine)} /\ (n = OutName(c) <=> c.machine = Unsaid)
    BY UriNames
  <2> HIDE DEF n
  <2>2. n \in NamesOf(e.lines) => n \in NamesOf(ls) \/ n \in NamesOf(p.lines)
    BY <1>6 DEF NamesOf
  <2>3. QED
    BY <1>2, <2>1, <2>2 DEF n
<1>8. ASSUME NEW m, Replaced(e.lines, m) PROVE Replaced(ls, m)
  <2>1. PICK l \in ToSet(e.lines) : l.name \in {SrcUri("", Unsaid), SrcUri("", m)} /\ l.op = "="
    BY <1>8 DEF Replaced
  <2>2. PICK o \in ToSet(ls) \cup ToSet(p.lines) : o.name = l.name /\ o.op = l.op
    BY <1>6
  <2>3. CASE o \in ToSet(ls)
    BY <2>1, <2>2, <2>3 DEF Replaced
  <2>4. CASE o \in ToSet(p.lines)
    <3>1. o.name \in NamesOf(p.lines)
      BY <2>4 DEF NamesOf
    <3>2. \A ov : /\ SrcUri("", ov) \notin {ExtraPaths, PackageArch, OutName(c), DoInstall(c.machine)}
                  /\ SrcUri("", ov) = AddName(c) => ov = Unsaid
      BY UriNames
    <3>3. o.name = SrcUri("", Unsaid)
      BY <1>2, <2>1, <2>2, <3>1, <3>2
    <3>4. QED
      BY <1>2, <2>1, <2>2, <2>4, <3>3
  <2>5. QED
    BY <2>3, <2>4
<1>9. AllLines(e.lines) /\ OutOnce(e.lines)
      /\ \A w : Adds(c, w) /\ w \notin p.remove => Has(e.lines, AddName(c), w)
  BY <1>1, <1>2 DEF EditIs
<1>10. CallIs(e, ls, c, p.remove)
  BY <1>2, <1>4, <1>5, <1>7, <1>8, <1>9 DEF CallIs
<1>11. DirIs(e, ls, c)
  BY <1>1 DEF EditIs, DirIs
<1>12. QED
  BY <1>10, <1>11 DEF e, ls, p

-----------------------------------------------------------------------------
(* What the recipe data know of the file.                                   *)

\* What all calls are given.
Entries == UNION {{EntryOf(c.srcs[i]) : i \in DOMAIN c.srcs} : c \in AppendCalls}

\* In with the lines ls is a word for the file f that the data r do not have.
NewIn(ls, r, f) ==
  \E w \in Entries : /\ w.file = f /\ w \notin ToSet(r)
                     /\ Written(recipeUris, ls, rdm, w) /\ ~Says(ls, ":remove", rdm, w)

\* What the data have is still written, or there is something newer.
KnownIn(ls, r) == \A w \in Entries : w \in ToSet(r) => Written(recipeUris, ls, rdm, w) \/ NewIn(ls, r, w.file)

\* A recipe that is edited itself removes only what a machine's own line replaces;
\* the data name such a line's word last.
InsteadIn(ls, r) ==
  inRecipe =>
    /\ SrcUri(":remove", Unsaid) \notin NamesOf(ls)
    /\ \A w : Has(ls, SrcUri(":remove", rdm), w) =>
          \E x \in Entries : /\ x.file = w.file /\ Has(ls, SrcUri(":append", rdm), x)
                             /\ ~Has(ls, SrcUri(":remove", rdm), x)
    /\ \A w \in ToSet(r) : Has(ls, SrcUri(":append", rdm), w) /\ LastOf(r, w.file) \in Entries =>
          Says(ls, ":append", rdm, LastOf(r, w.file))

LEMMA EntryHolds ==
  ASSUME NEW c \in AppendCalls
  PROVE  /\ \A i \in DOMAIN c.srcs : EntryOf(c.srcs[i]) \in Entries /\ EntryOf(c.srcs[i]).file = c.srcs[i].file
         /\ \A w \in Entries : w \notin c.remove
<1>1. \A i \in DOMAIN c.srcs : EntryOf(c.srcs[i]) \in Entries /\ EntryOf(c.srcs[i]).file = c.srcs[i].file
  BY DEF Entries, EntryOf
<1>2. ASSUME NEW w \in Entries PROVE w \notin c.remove
  <2>1. PICK d \in AppendCalls : \E i \in DOMAIN d.srcs : w = EntryOf(d.srcs[i])
    BY <1>2 DEF Entries
  <2>2. QED
    BY <2>1, AppendAssumption
<1>3. QED
  BY <1>1, <1>2

LEMMA AddsHolds ==
  ASSUME NEW c \in AppendCalls, NEW w, Adds(c, w)
  PROVE  w \in Entries /\ w \notin ToSet(rd) /\ w \notin c.remove
         /\ \E j \in DOMAIN c.srcs : w = EntryOf(c.srcs[j]) /\ w.file = c.srcs[j].file
BY EntryHolds DEF Adds, Fresh

LEMMA GoneHolds ==
  ASSUME IsSeq(rd), NEW c \in AppendCalls, NEW w, Gone(c, w)
  PROVE  /\ w \in ToSet(rd) /\ w = LastOf(rd, w.file)
         /\ \E v \in Entries : Adds(c, v) /\ v.file = w.file
         /\ \E j \in DOMAIN c.srcs : Fresh(c.srcs[j]) /\ w.file = c.srcs[j].file
<1>1. PICK j \in DOMAIN c.srcs : Fresh(c.srcs[j]) /\ OldOnes(c.srcs[j].file) # {} /\ w = OldEntry(c.srcs[j].file)
  BY DEF Gone
<1>2. w \in ToSet(rd) /\ w.file = c.srcs[j].file
  BY <1>1, OldHolds
<1>3. w = LastOf(rd, w.file)
  BY <1>1, <1>2 DEF OldEntry, OldOnes, LastOf
<1>4. Adds(c, EntryOf(c.srcs[j])) /\ EntryOf(c.srcs[j]) \in Entries /\ EntryOf(c.srcs[j]).file = w.file
  BY <1>1, <1>2, EntryHolds DEF Adds
<1>5. QED
  BY <1>1, <1>2, <1>3, <1>4

\* What becomes of a word that is written.
LEMMA WrittenStays ==
  ASSUME NEW e, NEW ls, NEW c, NEW R, CallIs(e, ls, c, R), NEW b, NEW m, NEW w,
         Written(b, ls, m, w), w \notin R
  PROVE  Written(b, e.lines, m, w)
<1>1. /\ \A n, x : n[1] = "SRC_URI" /\ n[2] # ":remove" /\ Has(ls, n, x)
            => Has(e.lines, n, x) \/ (x \in R /\ n \in {SrcUri("", Unsaid), AddName(c)})
      /\ \A o : Replaced(e.lines, o) => Replaced(ls, o)
  BY DEF CallIs
<1>2. \A kw, ov : SrcUri(kw, ov)[1] = "SRC_URI" /\ SrcUri(kw, ov)[2] = kw
  BY NameParts
<1>3. \A kw, ov : kw # ":remove" /\ Has(ls, SrcUri(kw, ov), w) => Has(e.lines, SrcUri(kw, ov), w)
  BY <1>1, <1>2
<1>4. QED
  BY <1>1, <1>3 DEF Written, Says

\* A removed word was removed before, or the call says so.
LEMMA RemovedBy ==
  ASSUME NEW e, NEW ls, NEW c, NEW R, CallIs(e, ls, c, R), NEW m, NEW w, Says(e.lines, ":remove", m, w)
  PROVE  Says(ls, ":remove", m, w) \/ (~Instead(c) /\ Gone(c, w))
<1>1. \A ov : Has(e.lines, SrcUri(":remove", ov), w) => Has(ls, SrcUri(":remove", ov), w) \/ (~Instead(c) /\ Gone(c, w))
  BY DEF CallIs
<1>2. QED
  BY <1>1 DEF Says

LEMMA KnownCall ==
  ASSUME IsSeq(rd), NEW ls, NEW c \in AppendCalls, NEW e, NEW R, CallIs(e, ls, c, R),
         KnownIn(ls, rd), InsteadIn(ls, rd), c.machine \in Overrides
  PROVE  KnownIn(e.lines, rd)
<1> DEFINE ls2 == e.lines
<1>1. SUFFICES ASSUME NEW w \in Entries, w \in ToSet(rd)
               PROVE  Written(recipeUris, ls2, rdm, w) \/ NewIn(ls2, rd, w.file)
  BY DEF KnownIn
<1>2. R = c.remove \/ (Instead(c) /\ \E v : Gone(c, v) /\ R = {v})
  BY DEF CallIs
<1>3. CASE Written(recipeUris, ls, rdm, w)
  <2>1. CASE w \notin R
    BY <1>3, <2>1, WrittenStays
  <2>2. CASE w \in R
    <3>1. Instead(c) /\ Gone(c, w) /\ R = {w}
      BY <1>2, <2>2, EntryHolds
    <3>2. w = LastOf(rd, w.file) /\ \E v \in Entries : Adds(c, v) /\ v.file = w.file
      BY <3>1, GoneHolds
    <3>3. PICK v \in Entries : Adds(c, v) /\ v.file = w.file
      BY <3>2
    <3>4. v \notin ToSet(rd)
      BY <3>3, AddsHolds
    <3>5. Has(ls2, AddName(c), v) /\ AddName(c) = SrcUri("", Unsaid)
      BY <1>1, <3>1, <3>3, <3>4 DEF CallIs, Instead, AddName
    <3>6. Written(recipeUris, ls2, rdm, v)
      BY <3>5 DEF Written, Says
    <3>7. CASE ~Says(ls2, ":remove", rdm, v)
      BY <3>3, <3>4, <3>6, <3>7 DEF NewIn
    <3>8. CASE Says(ls2, ":remove", rdm, v)
      <4>1. Says(ls, ":remove", rdm, v)
        BY <3>1, <3>8, RemovedBy
      <4>2. inRecipe /\ \A y : ~Has(ls, SrcUri(":remove", Unsaid), y)
        BY <3>1 DEF InsteadIn, Instead, Has, NamesOf
      <4>3. Has(ls, SrcUri(":remove", rdm), v)
        BY <4>1, <4>2 DEF Says
      <4>4. PICK x \in Entries : /\ x.file = w.file /\ Has(ls, SrcUri(":append", rdm), x)
                                 /\ ~Has(ls, SrcUri(":remove", rdm), x)
        BY <3>3, <4>2, <4>3 DEF InsteadIn
      <4>5. ~Says(ls2, ":remove", rdm, x)
        BY <3>1, <4>2, <4>4, RemovedBy DEF Says
      <4>6. \A ov, y : Has(ls, SrcUri(":append", ov), y) => Has(ls2, SrcUri(":append", ov), y)
        <5>1. \A ov : /\ SrcUri(":append", ov)[1] = "SRC_URI" /\ SrcUri(":append", ov)[2] # ":remove"
                      /\ SrcUri(":append", ov) \notin {SrcUri("", Unsaid), AddName(c)}
          <6>1. \A ov : SrcUri(":append", ov)[1] = "SRC_URI" /\ SrcUri(":append", ov)[2] = ":append"
            BY NameParts
          <6>2. \A ov : SrcUri(":append", ov) # SrcUri("", Unsaid)
            BY UriNames
          <6>3. QED
            BY <3>5, <6>1, <6>2
        <5>2. QED
          BY <5>1 DEF CallIs
      <4>7. Written(recipeUris, ls2, rdm, x)
        BY <4>4, <4>6 DEF Written, Says
      <4>8. CASE x \notin ToSet(rd)
        BY <4>4, <4>5, <4>7, <4>8 DEF NewIn
      <4>9. CASE x \in ToSet(rd)
        <5>1. Says(ls, ":append", rdm, w)
          BY <3>2, <4>2, <4>4, <4>9 DEF InsteadIn
        <5>2. Says(ls2, ":append", rdm, w)
          BY <4>6, <5>1 DEF Says
        <5>3. QED
          BY <5>2 DEF Written
      <4>10. QED
        BY <4>8, <4>9
    <3>9. QED
      BY <3>7, <3>8
  <2>3. QED
    BY <2>1, <2>2
<1>4. CASE NewIn(ls, rd, w.file)
  <2>1. PICK v \in Entries : /\ v.file = w.file /\ v \notin ToSet(rd)
                             /\ Written(recipeUris, ls, rdm, v) /\ ~Says(ls, ":remove", rdm, v)
    BY <1>4 DEF NewIn
  <2>2. ~Gone(c, v) /\ v \notin c.remove
    BY <2>1, GoneHolds, EntryHolds
  <2>3. v \notin R
    BY <1>2, <2>2
  <2>4. Written(recipeUris, ls2, rdm, v) /\ ~Says(ls2, ":remove", rdm, v)
    BY <2>1, <2>2, <2>3, WrittenStays, RemovedBy
  <2>5. QED
    BY <2>1, <2>4 DEF NewIn
<1>5. QED
  BY <1>1, <1>3, <1>4 DEF KnownIn

LEMMA InsteadCall ==
  ASSUME IsSeq(rd), NEW ls, NEW c \in AppendCalls, NEW e, NEW R, CallIs(e, ls, c, R), InsteadIn(ls, rd)
  PROVE  InsteadIn(e.lines, rd)
<1> DEFINE ls2 == e.lines
<1>1. SUFFICES ASSUME inRecipe
               PROVE  /\ SrcUri(":remove", Unsaid) \notin NamesOf(ls2)
                      /\ \A w : Has(ls2, SrcUri(":remove", rdm), w) =>
                            \E x \in Entries : /\ x.file = w.file /\ Has(ls2, SrcUri(":append", rdm), x)
                                               /\ ~Has(ls2, SrcUri(":remove", rdm), x)
                      /\ \A w \in ToSet(rd) : Has(ls2, SrcUri(":append", rdm), w) /\ LastOf(rd, w.file) \in Entries =>
                            Says(ls2, ":append", rdm, LastOf(rd, w.file))
  BY DEF InsteadIn
<1>2. Instead(c) <=> c.machine = Unsaid
  BY <1>1 DEF Instead
<1>3. /\ SrcUri(":remove", Unsaid) \notin NamesOf(ls)
      /\ \A w : Has(ls, SrcUri(":remove", rdm), w) =>
            \E x \in Entries : /\ x.file = w.file /\ Has(ls, SrcUri(":append", rdm), x)
                               /\ ~Has(ls, SrcUri(":remove", rdm), x)
      /\ \A w \in ToSet(rd) : Has(ls, SrcUri(":append", rdm), w) /\ LastOf(rd, w.file) \in Entries =>
            Says(ls, ":append", rdm, LastOf(rd, w.file))
  BY <1>1 DEF InsteadIn
<1>4. \A ov : /\ SrcUri(":append", ov)[1] = "SRC_URI" /\ SrcUri(":append", ov)[2] = ":append"
              /\ SrcUri(":append", ov) # SrcUri("", Unsaid)
              /\ SrcUri(":append", ov) = AddName(c) <=> ov = c.machine /\ c.machine # Unsaid
  <2>1. \A ov : SrcUri(":append", ov)[1] = "SRC_URI" /\ SrcUri(":append", ov)[2] = ":append"
    BY NameParts
  <2>2. \A ov : /\ SrcUri(":append", ov) # SrcUri("", Unsaid)
                /\ SrcUri(":append", ov) = AddName(c) <=> ov = c.machine /\ c.machine # Unsaid
    BY UriNames
  <2>3. QED
    BY <2>1, <2>2
<1>5. R = c.remove \/ (Instead(c) /\ \E v : Gone(c, v) /\ R = {v})
  BY DEF CallIs
<1>6. ASSUME NEW x \in Entries, NEW ov, Has(ls, SrcUri(":append", ov), x) PROVE Has(ls2, SrcUri(":append", ov), x)
  <2>1. Has(ls2, SrcUri(":append", ov), x) \/ (x \in R /\ SrcUri(":append", ov) \in {SrcUri("", Unsaid), AddName(c)})
    BY <1>4, <1>6 DEF CallIs
  <2>2. SrcUri(":append", ov) = AddName(c) => R = c.remove
    BY <1>2, <1>4, <1>5
  <2>3. x \notin c.remove
    BY EntryHolds
  <2>4. QED
    BY <1>4, <2>1, <2>2, <2>3
<1>7. SrcUri(":remove", Unsaid) \notin NamesOf(ls2)
  BY <1>2, <1>3 DEF CallIs
<1>8. ASSUME NEW w, Has(ls2, SrcUri(":remove", rdm), w)
      PROVE  \E x \in Entries : /\ x.file = w.file /\ Has(ls2, SrcUri(":append", rdm), x)
                                /\ ~Has(ls2, SrcUri(":remove", rdm), x)
  <2>1. CASE \A v : Has(ls2, SrcUri(":remove", rdm), v) => Has(ls, SrcUri(":remove", rdm), v)
    BY <1>3, <1>6, <1>8, <2>1
  <2>2. CASE /\ rdm = c.machine /\ ~Instead(c)
             /\ \A v : Has(ls2, SrcUri(":remove", rdm), v) => Gone(c, v)
    <3>1. Gone(c, w)
      BY <1>8, <2>2
    <3>2. PICK x \in Entries : Adds(c, x) /\ x.file = w.file
      BY <3>1, GoneHolds
    <3>3. x \notin ToSet(rd) /\ x \notin R
      BY <1>5, <2>2, <3>2, AddsHolds
    <3>4. Has(ls2, SrcUri(":append", rdm), x)
      <4>1. Has(ls2, AddName(c), x)
        BY <3>2, <3>3 DEF CallIs
      <4>2. SrcUri(":append", rdm) = AddName(c)
        BY <1>2, <1>4, <2>2
      <4>3. QED
        BY <4>1, <4>2
    <3>5. ~Gone(c, x)
      BY <3>3, GoneHolds
    <3>6. QED
      BY <2>2, <3>2, <3>4, <3>5
  <2>3. QED
    BY <2>1, <2>2 DEF CallIs
<1>9. ASSUME NEW w \in ToSet(rd), Has(ls2, SrcUri(":append", rdm), w), LastOf(rd, w.file) \in Entries
      PROVE  Says(ls2, ":append", rdm, LastOf(rd, w.file))
  <2>1. ~Adds(c, w)
    BY <1>9, AddsHolds
  <2>2. Has(ls, SrcUri(":append", rdm), w)
    BY <1>4, <1>9, <2>1 DEF CallIs
  <2>3. Says(ls, ":append", rdm, LastOf(rd, w.file))
    BY <1>3, <1>9, <2>2
  <2>4. QED
    BY <1>6, <1>9, <2>3 DEF Says
<1>10. QED
  BY <1>7, <1>8, <1>9

\* Data that have just been parsed.
LEMMA ParsedKnown ==
  ASSUME IsSeq(recipeUris), NEW ls, AllLines(ls), NEW r, r = Parsed(ls, rdm)
  PROVE  /\ IsSeq(r) /\ KnownIn(ls, r)
         /\ \A s : InsteadIn(ls, s) => InsteadIn(ls, r)
<1>1. IsSeq(r) /\ \A w : w \in ToSet(r) <=> Written(recipeUris, ls, rdm, w) /\ ~Says(ls, ":remove", rdm, w)
  BY UriHolds DEF Parsed
<1>2. KnownIn(ls, r)
  BY <1>1 DEF KnownIn
<1>3. \A w \in ToSet(r) : Has(ls, SrcUri(":append", rdm), w) => Says(ls, ":append", rdm, LastOf(r, w.file))
  BY UriOrder DEF Parsed, Says
<1>4. \A s : InsteadIn(ls, s) => InsteadIn(ls, r)
  BY <1>3 DEF InsteadIn
<1>5. QED
  BY <1>1, <1>2, <1>4

-----------------------------------------------------------------------------
(* Where a build finds the files.                                           *)

\* What was copied is in the directory that the lines name last.
CopiesLie(ls, copies) ==
  \A d \in DOMAIN copies : /\ d = <<d[1], d[2], d[3]>>
                           /\ IF inRecipe THEN d[1] = "PN" ELSE LastDir(ls, Len(ls), d[1])

DirsOf(here, ls) ==
  (IF here THEN {"PN"} ELSE {}) \cup ({ls[i].val[1] : i \in LinesNamed(ls, ExtraPaths)} \ {"elsewhere"})

FoundIn(here, ls, copies, m, f) ==
  LET At(x) == {d \in DOMAIN copies : d[1] \in DirsOf(here, ls) /\ d[2] = x /\ d[3] = f}
  IN  {copies[d] : d \in IF At(m) # {} THEN At(m) ELSE At(Unsaid)}

LEMMA OneLast ==
  ASSUME NEW ls, IsSeq(ls), NEW x, LastDir(ls, Len(ls), x)
  PROVE  /\ \A y : LastDir(ls, Len(ls), y) => y = x
         /\ x \in {ls[i].val[1] : i \in LinesNamed(ls, ExtraPaths)} \ {"elsewhere"}
<1>1. Len(ls) \in Nat /\ DOMAIN ls = 1..Len(ls)
  BY SeqHolds DEF IsSeq
<1>2. ASSUME NEW y, LastDir(ls, Len(ls), y) PROVE y = x
  <2>1. PICK i \in 1..Len(ls) : Leads(ls[i]) /\ ls[i].val[1] = x /\ \A k \in (i + 1)..Len(ls) : ~Leads(ls[k])
    BY DEF LastDir
  <2>2. PICK j \in 1..Len(ls) : Leads(ls[j]) /\ ls[j].val[1] = y /\ \A k \in (j + 1)..Len(ls) : ~Leads(ls[k])
    BY <1>2 DEF LastDir
  <2>3. ~(i < j) /\ ~(j < i)
    BY <1>1, <2>1, <2>2
  <2>4. QED
    BY <1>1, <2>1, <2>2, <2>3
<1>3. QED
  BY <1>1, <1>2 DEF LastDir, Leads, LinesNamed

\* The copies after the call: its own, and those there were.
LaidBy(copies, c, dir) ==
  LET Dest(s) == <<dir, c.machine, s.file>>
  IN  [d \in DOMAIN copies \cup {Dest(c.srcs[i]) : i \in DOMAIN c.srcs} |->
         IF \E i \in DOMAIN c.srcs : Dest(c.srcs[i]) = d
         THEN c.srcs[CHOOSE i \in DOMAIN c.srcs :
                         /\ Dest(c.srcs[i]) = d
                         /\ \A j \in DOMAIN c.srcs : Dest(c.srcs[j]) = d => j <= i].content
         ELSE copies[d]]

LEMMA LaidHolds ==
  ASSUME NEW c \in AppendCalls, NEW copies, NEW dir
  PROVE  /\ DOMAIN LaidBy(copies, c, dir) =
                DOMAIN copies \cup {<<dir, c.machine, c.srcs[i].file>> : i \in DOMAIN c.srcs}
         /\ \A i \in DOMAIN c.srcs :
               LaidBy(copies, c, dir)[<<dir, c.machine, c.srcs[i].file>>] = c.srcs[i].content
<1> DEFINE Dest(s) == <<dir, c.machine, s.file>>
           srcs == c.srcs
           cp == LaidBy(copies, c, dir)
           D == DOMAIN copies \cup {Dest(srcs[i]) : i \in DOMAIN srcs}
           K(d) == {i \in DOMAIN srcs : Dest(srcs[i]) = d /\ \A j \in DOMAIN srcs : Dest(srcs[j]) = d => j <= i}
<1>1. cp = [d \in D |-> IF \E i \in DOMAIN srcs : Dest(srcs[i]) = d
                        THEN srcs[CHOOSE i \in DOMAIN srcs :
                                /\ Dest(srcs[i]) = d
                                /\ \A j \in DOMAIN srcs : Dest(srcs[j]) = d => j <= i].content
                        ELSE copies[d]]
  BY DEF LaidBy
<1>2. DOMAIN srcs = 1..Len(srcs) /\ \A i, j \in DOMAIN srcs : srcs[i].file = srcs[j].file => i = j
  BY AppendAssumption, SeqHolds
<1>3. ASSUME NEW i \in DOMAIN srcs PROVE cp[Dest(srcs[i])] = srcs[i].content
  <2> DEFINE d == Dest(srcs[i])
             k == CHOOSE h \in DOMAIN srcs : Dest(srcs[h]) = d /\ \A j \in DOMAIN srcs : Dest(srcs[j]) = d => j <= h
  <2>1. \A j \in DOMAIN srcs : Dest(srcs[j]) = d => j = i
    BY <1>2
  <2>2. i <= i
    BY <1>2, <1>3
  <2>3. cp[d] = srcs[k].content
    BY <1>1, <1>3
  <2> HIDE DEF d, Dest
  <2>4. k \in DOMAIN srcs /\ Dest(srcs[k]) = d
    <3>1. Dest(srcs[i]) = d /\ \A j \in DOMAIN srcs : Dest(srcs[j]) = d => j <= i
      BY <2>1, <2>2 DEF d
    <3>2. QED
      BY <1>3, <3>1
  <2> HIDE DEF k
  <2>5. k = i
    BY <2>1, <2>4
  <2>6. QED
    BY <2>3, <2>5 DEF d
<1>4. QED
  BY <1>1, <1>3

LEMMA LaidCopies ==
  ASSUME NEW c \in AppendCalls, NEW copies, NEW ls, CopiesLie(ls, copies),
         NEW e, DirIs(e, ls, c)
  PROVE  CopiesLie(e.lines, LaidBy(copies, c, e.dir))
<1> DEFINE cp == LaidBy(copies, c, e.dir)
           Dest(s) == <<e.dir, c.machine, s.file>>
<1>1. \A j \in DOMAIN c.srcs : c.srcs # <<>>
  BY NoElements
<1>2. DOMAIN cp = DOMAIN copies \cup {Dest(c.srcs[j]) : j \in DOMAIN c.srcs}
  BY LaidHolds
<1> HIDE DEF cp
<1>3. \A j \in DOMAIN c.srcs : IF inRecipe THEN e.dir = "PN" ELSE LastDir(e.lines, Len(e.lines), e.dir)
  BY <1>1 DEF DirIs
<1>4. \A d \in DOMAIN copies : /\ d = <<d[1], d[2], d[3]>>
                               /\ IF inRecipe THEN d[1] = "PN" ELSE LastDir(e.lines, Len(e.lines), d[1])
  BY DEF CopiesLie, DirIs
<1>5. \A j \in DOMAIN c.srcs : /\ Dest(c.srcs[j])[1] = e.dir
                              /\ Dest(c.srcs[j]) = <<Dest(c.srcs[j])[1], Dest(c.srcs[j])[2], Dest(c.srcs[j])[3]>>
  OBVIOUS
<1> HIDE DEF Dest
<1>6. QED
  BY <1>2, <1>3, <1>4, <1>5 DEF CopiesLie, cp

\* After the call each of its files is the only one of its name in the directory
\* for its machine.
LEMMA LaidFound ==
  ASSUME NEW c \in AppendCalls, NEW copies, NEW ls, CopiesLie(ls, copies),
         NEW e, DirIs(e, ls, c), IsSeq(e.lines), NEW i \in DOMAIN c.srcs
  PROVE  {d \in DOMAIN LaidBy(copies, c, e.dir) :
            d[1] \in DirsOf(inRecipe, e.lines) /\ d[2] = c.machine /\ d[3] = c.srcs[i].file}
         = {<<e.dir, c.machine, c.srcs[i].file>>}
<1> DEFINE cp == LaidBy(copies, c, e.dir)
           Dest(s) == <<e.dir, c.machine, s.file>>
<1>1. c.srcs # <<>>
  BY NoElements
<1>2. Dest(c.srcs[i]) \in DOMAIN cp
  <2>1. DOMAIN cp = DOMAIN copies \cup {Dest(c.srcs[j]) : j \in DOMAIN c.srcs}
    BY LaidHolds
  <2> HIDE DEF cp, Dest
  <2>2. QED
    BY <2>1
<1>3. CopiesLie(e.lines, cp)
  BY LaidCopies
<1> HIDE DEF cp
<1>4. IF inRecipe THEN e.dir = "PN" ELSE LastDir(e.lines, Len(e.lines), e.dir)
  BY <1>1 DEF DirIs
<1>5. \A d \in DOMAIN cp : d = <<d[1], d[2], d[3]>> /\ d[1] = e.dir
  BY <1>3, <1>4, OneLast DEF CopiesLie
<1>6. e.dir \in DirsOf(inRecipe, e.lines)
  BY <1>4, OneLast DEF DirsOf
<1>7. {d \in DOMAIN cp : d[1] \in DirsOf(inRecipe, e.lines) /\ d[2] = c.machine /\ d[3] = c.srcs[i].file}
      = {Dest(c.srcs[i])}
  BY <1>2, <1>5, <1>6
<1>8. QED
  BY <1>7 DEF cp

-----------------------------------------------------------------------------
(* What a call delivers.                                                    *)

\* AskedIsFound of a call of its own.
AskedIn(ls, e, copies, c) ==
  c.machine \in {Unsaid, rdm} =>
    \A i \in DOMAIN c.srcs :
        LET s == c.srcs[i]
        IN  /\ ~s.listed /\ EntryOf(s) \notin c.remove \cup ToSet(WordsSaid(ls, ":remove", rdm))
               => \E w \in ToSet(Parsed(e, rdm)) : w.file = s.file
            /\ \/ c.machine = Unsaid /\ \E d \in DOMAIN copies : d[2] = rdm /\ d[3] = s.file
               \/ FoundIn(inRecipe, e, copies, rdm, s.file) = {s.content}

OthersIn(ls, e, c) ==
  \A m \in Machines : \A w \in ToSet(Parsed(ls, m)) :
        \/ w \in ToSet(Parsed(e, m))
        \/ w \in c.remove
        \/ \E i \in DOMAIN c.srcs : c.srcs[i].file = w.file

LEMMA FoundHolds ==
  ASSUME NEW c \in AppendCalls, NEW copies, NEW ls, CopiesLie(ls, copies),
         NEW e, DirIs(e, ls, c), IsSeq(e.lines), NEW i \in DOMAIN c.srcs, c.machine \in {Unsaid, rdm},
         NEW cp, cp = LaidBy(copies, c, e.dir)
  PROVE  \/ c.machine = Unsaid /\ \E d \in DOMAIN cp : d[2] = rdm /\ d[3] = c.srcs[i].file
         \/ FoundIn(inRecipe, e.lines, cp, rdm, c.srcs[i].file) = {c.srcs[i].content}
<1> DEFINE f == c.srcs[i].file
           At(x) == {d \in DOMAIN cp : d[1] \in DirsOf(inRecipe, e.lines) /\ d[2] = x /\ d[3] = f}
           a == <<e.dir, c.machine, f>>
<1>1. At(c.machine) = {a}
  BY LaidFound
<1>2. cp[a] = c.srcs[i].content
  <2> DEFINE dir == e.dir
             lb == LaidBy(copies, c, dir)
  <2>1. cp = lb
    OBVIOUS
  <2> HIDE DEF dir
  <2>2. \A j \in DOMAIN c.srcs : lb[<<dir, c.machine, c.srcs[j].file>>] = c.srcs[j].content
    BY LaidHolds
  <2> HIDE DEF lb
  <2>3. cp[<<dir, c.machine, f>>] = c.srcs[i].content
    BY <2>1, <2>2
  <2>4. QED
    BY <2>3 DEF dir
<1>3. FoundIn(inRecipe, e.lines, cp, rdm, f) = {cp[d] : d \in IF At(rdm) # {} THEN At(rdm) ELSE At(Unsaid)}
  BY DEF FoundIn
<1>4. CASE At(rdm) # {}
  <2>1. CASE c.machine = rdm
    <3> HIDE DEF At, a
    <3>1. QED
      BY <1>1, <1>2, <1>3, <1>4, <2>1
  <2>2. CASE c.machine # rdm
    BY <1>4, <2>2
  <2>3. QED
    BY <2>1, <2>2
<1>5. CASE At(rdm) = {}
  <2> HIDE DEF At, a
  <2>1. c.machine = Unsaid
    BY <1>1, <1>5
  <2>2. QED
    BY <1>1, <1>2, <1>3, <1>5, <2>1
<1>6. QED
  BY <1>4, <1>5

LEMMA AskedCall ==
  ASSUME IsSeq(rd), IsSeq(recipeUris), NEW ls, AllLines(ls), NEW c \in AppendCalls,
         NEW e, NEW R, CallIs(e, ls, c, R), DirIs(e, ls, c),
         KnownIn(e.lines, rd), NEW copies, CopiesLie(ls, copies)
  PROVE  AskedIn(ls, e.lines, LaidBy(copies, c, e.dir), c)
<1> DEFINE ls2 == e.lines
<1>1. SUFFICES ASSUME c.machine \in {Unsaid, rdm}, NEW i \in DOMAIN c.srcs,
                      ~c.srcs[i].listed, EntryOf(c.srcs[i]) \notin ToSet(WordsSaid(ls, ":remove", rdm))
               PROVE  \E w \in ToSet(Parsed(ls2, rdm)) : w.file = c.srcs[i].file
  <2>1. IsSeq(e.lines)
    BY DEF CallIs, AllLines
  <2>2. QED
    BY <2>1, FoundHolds DEF AskedIn
<1> DEFINE x == EntryOf(c.srcs[i])
<1>2. AllLines(ls2)
  BY DEF CallIs
<1>3. \A w : w \in ToSet(Parsed(ls2, rdm)) <=> Written(recipeUris, ls2, rdm, w) /\ ~Says(ls2, ":remove", rdm, w)
  BY <1>2, UriHolds DEF Parsed
<1>4. x \in Entries /\ x.file = c.srcs[i].file /\ x \notin c.remove
  BY EntryHolds
<1>5. ~Says(ls, ":remove", rdm, x)
  BY <1>1, SaidHolds
<1>6. CASE x \notin ToSet(rd)
  <2>1. Adds(c, x) /\ ~Gone(c, x)
    BY <1>1, <1>6, GoneHolds DEF Adds, Fresh
  <2>2. x \notin R
    BY <1>4, <1>6, GoneHolds DEF CallIs
  <2>3. Has(ls2, AddName(c), x)
    BY <2>1, <2>2 DEF CallIs
  <2>4. Says(ls2, "", rdm, x) \/ Says(ls2, ":append", rdm, x)
    BY <1>1, <2>3 DEF AddName, Says
  <2>5. Written(recipeUris, ls2, rdm, x) /\ ~Says(ls2, ":remove", rdm, x)
    BY <1>5, <2>1, <2>4, RemovedBy DEF Written
  <2>6. QED
    BY <1>3, <1>4, <2>5
<1>7. CASE x \in ToSet(rd)
  <2>1. ~Gone(c, x)
    <3>1. SUFFICES ASSUME Gone(c, x) PROVE FALSE
      OBVIOUS
    <3>2. PICK j \in DOMAIN c.srcs : Fresh(c.srcs[j]) /\ x.file = c.srcs[j].file
      BY <3>1, GoneHolds
    <3>3. j = i
      BY <1>4, <3>2, AppendAssumption
    <3>4. QED
      BY <1>7, <3>2, <3>3 DEF Fresh
  <2>2. ~Says(ls2, ":remove", rdm, x)
    BY <1>5, <2>1, RemovedBy
  <2>3. Written(recipeUris, ls2, rdm, x) \/ NewIn(ls2, rd, x.file)
    BY <1>4, <1>7 DEF KnownIn
  <2>4. CASE Written(recipeUris, ls2, rdm, x)
    BY <1>3, <1>4, <2>2, <2>4
  <2>5. CASE NewIn(ls2, rd, x.file)
    BY <1>3, <1>4, <2>5 DEF NewIn
  <2>6. QED
    BY <2>3, <2>4, <2>5
<1>8. QED
  BY <1>6, <1>7

LEMMA OthersCall ==
  ASSUME IsSeq(rd), IsSeq(recipeUris), NEW ls, AllLines(ls), NEW c \in AppendCalls,
         NEW e, NEW R, CallIs(e, ls, c, R)
  PROVE  OthersIn(ls, e.lines, c)
<1>1. SUFFICES ASSUME NEW m \in Machines, NEW w \in ToSet(Parsed(ls, m)), w \notin c.remove,
                      \A i \in DOMAIN c.srcs : c.srcs[i].file # w.file
               PROVE  w \in ToSet(Parsed(e.lines, m))
  BY DEF OthersIn
<1>2. AllLines(e.lines)
  BY DEF CallIs
<1>3. Written(recipeUris, ls, m, w) /\ ~Says(ls, ":remove", m, w)
  BY UriHolds DEF Parsed
<1>4. ~Gone(c, w)
  BY <1>1, GoneHolds
<1>5. w \notin R
  BY <1>1, <1>4 DEF CallIs
<1>6. Written(recipeUris, e.lines, m, w) /\ ~Says(e.lines, ":remove", m, w)
  BY <1>3, <1>4, <1>5, WrittenStays, RemovedBy
<1>7. QED
  BY <1>2, <1>6, UriHolds DEF Parsed

-----------------------------------------------------------------------------
(* The invariant.                                                           *)

AppendInv ==
  /\ inRecipe \in BOOLEAN /\ rdm \in Machines /\ IsSeq(recipeUris) /\ IsSeq(rd)
  /\ AllLines(appendFile) /\ OutOnce(appendFile)
  /\ lastCall \in AppendCalls \cup {Unsaid}
  /\ KnownIn(appendFile, rd) /\ InsteadIn(appendFile, rd)
  /\ CopiesLie(appendFile, laidOut)
  /\ lastCall # Unsaid =>
        AskedIn(priorLines, appendFile, laidOut, lastCall) /\ OthersIn(priorLines, appendFile, lastCall)

LEMMA AppendStart == AppendInit => AppendInv
<1> SUFFICES ASSUME AppendInit PROVE AppendInv
  OBVIOUS
<1>1. PICK s \in AppendStarts : inRecipe = s.update /\ recipeUris = s.base /\ appendFile = s.lines
  BY DEF AppendInit
<1>2. /\ laidOut = <<>> /\ rdm \in Machines /\ rd = Parsed(appendFile, rdm) /\ lastCall = Unsaid
  BY DEF AppendInit
<1>3. /\ inRecipe \in BOOLEAN /\ IsSeq(recipeUris) /\ IsSeq(appendFile)
      /\ \A i \in DOMAIN appendFile : IsLine(appendFile[i])
      /\ \A i, j \in DOMAIN appendFile :
            IsOut(appendFile[i].name) => ~inRecipe /\ (appendFile[i].name = appendFile[j].name => i = j)
  BY <1>1, AppendAssumption DEF IsSeq
<1>4. AllLines(appendFile) /\ OutOnce(appendFile)
  BY <1>3 DEF AllLines, OutOnce, ToSet
<1>5. IsSeq(rd) /\ KnownIn(appendFile, rd) /\ (InsteadIn(appendFile, <<>>) => InsteadIn(appendFile, rd))
  BY <1>2, <1>3, <1>4, ParsedKnown
<1>6. inRecipe => \A n : IsOut(n) => n \notin NamesOf(appendFile) /\ \A w : ~Has(appendFile, n, w)
  BY <1>3 DEF NamesOf, Has, ToSet
<1>7. \A ov : IsOut(SrcUri(":remove", ov))
  BY DEF IsOut, SrcUri
<1>8. InsteadIn(appendFile, <<>>)
  <2> DEFINE e == <<>>
  <2>1. ToSet(e) = {}
    BY NoElements
  <2> HIDE DEF e
  <2>2. InsteadIn(appendFile, e)
    BY <1>6, <1>7, <2>1 DEF InsteadIn
  <2>3. QED
    BY <2>2 DEF e
<1>9. CopiesLie(appendFile, laidOut)
  BY <1>2, NoElements DEF CopiesLie
<1>10. QED
  BY <1>2, <1>3, <1>4, <1>5, <1>8, <1>9 DEF AppendInv

LEMMA AppendCallKeeps ==
  ASSUME AppendInv, NEW c \in AppendCalls, BbappendRecipe(c)
  PROVE  AppendInv'
<1> DEFINE ls == appendFile
           e == Edited(c)
           R == Prepared(c).remove
<1>1. /\ inRecipe' = inRecipe /\ recipeUris' = recipeUris /\ rd' = rd /\ rdm' = rdm
      /\ appendFile' = e.lines /\ laidOut' = LaidBy(laidOut, c, e.dir)
      /\ priorLines' = ls /\ lastCall' = c
  BY DEF BbappendRecipe, LaidBy
<1>2. /\ inRecipe \in BOOLEAN /\ rdm \in Machines /\ IsSeq(recipeUris) /\ IsSeq(rd)
      /\ AllLines(ls) /\ OutOnce(ls)
      /\ KnownIn(ls, rd) /\ InsteadIn(ls, rd) /\ CopiesLie(ls, laidOut)
  BY DEF AppendInv
<1>3. CallIs(e, ls, c, R) /\ DirIs(e, ls, c) /\ c.machine \in Overrides
  BY <1>2, CallHolds, AppendAssumption
<1> HIDE DEF e, ls, R
<1>4. KnownIn(e.lines, rd) /\ InsteadIn(e.lines, rd)
  BY <1>2, <1>3, KnownCall, InsteadCall
<1>5. CopiesLie(e.lines, LaidBy(laidOut, c, e.dir))
  BY <1>2, <1>3, LaidCopies
<1>6. AskedIn(ls, e.lines, LaidBy(laidOut, c, e.dir), c) /\ OthersIn(ls, e.lines, c)
  BY <1>2, <1>3, <1>4, AskedCall, OthersCall
<1>7. AllLines(e.lines) /\ OutOnce(e.lines)
  BY <1>3 DEF CallIs
<1>8. KnownIn(appendFile, rd)' /\ InsteadIn(appendFile, rd)'
  BY <1>1, <1>4 DEF KnownIn, InsteadIn, NewIn
<1>9. CopiesLie(appendFile, laidOut)'
  BY <1>1, <1>5 DEF CopiesLie
<1>10. AskedIn(priorLines, appendFile, laidOut, lastCall)' /\ OthersIn(priorLines, appendFile, lastCall)'
  BY <1>1, <1>6 DEF AskedIn, OthersIn, Parsed
<1>11. QED
  BY <1>1, <1>2, <1>7, <1>8, <1>9, <1>10 DEF AppendInv

LEMMA ParseKeeps ==
  ASSUME AppendInv, Parse
  PROVE  AppendInv'
<1> DEFINE ls == appendFile
           r == Parsed(ls, rdm)
<1>1. /\ inRecipe' = inRecipe /\ recipeUris' = recipeUris /\ rd' = r /\ rdm' = rdm
      /\ appendFile' = appendFile /\ laidOut' = laidOut /\ priorLines' = priorLines /\ lastCall' = lastCall
  BY DEF Parse
<1>2. /\ inRecipe \in BOOLEAN /\ rdm \in Machines /\ IsSeq(recipeUris)
      /\ AllLines(ls) /\ OutOnce(ls) /\ lastCall \in AppendCalls \cup {Unsaid}
      /\ InsteadIn(ls, rd) /\ CopiesLie(ls, laidOut)
      /\ lastCall # Unsaid => AskedIn(priorLines, ls, laidOut, lastCall) /\ OthersIn(priorLines, ls, lastCall)
  BY DEF AppendInv
<1>3. IsSeq(r) /\ KnownIn(ls, r) /\ InsteadIn(ls, r)
  BY <1>2, ParsedKnown
<1> HIDE DEF r
<1>4. KnownIn(appendFile, rd)' /\ InsteadIn(appendFile, rd)'
  BY <1>1, <1>3 DEF KnownIn, InsteadIn, NewIn
<1>5. CopiesLie(appendFile, laidOut)'
  BY <1>1, <1>2 DEF CopiesLie
<1>6. (lastCall # Unsaid =>
         AskedIn(priorLines, appendFile, laidOut, lastCall) /\ OthersIn(priorLines, appendFile, lastCall))'
  BY <1>1, <1>2 DEF AskedIn, OthersIn, Parsed
<1>7. QED
  BY <1>1, <1>2, <1>3, <1>4, <1>5, <1>6 DEF AppendInv

\* A recipe's or a layer's lines stay such as bbappend_recipe can edit, the recipe
\* data's words are written or have a newer word for the same file, and the copies
\* are where the lines point.
THEOREM AppendInvariant == AppendSpec => []AppendInv
<1>1. AppendInit => AppendInv
  BY AppendStart
<1>2. AppendInv /\ [AppendNext]_appendVars => AppendInv'
  <2> SUFFICES ASSUME AppendInv, [AppendNext]_appendVars PROVE AppendInv'
    OBVIOUS
  <2>1. CASE \E c \in AppendCalls : BbappendRecipe(c)
    BY <2>1, AppendCallKeeps
  <2>2. CASE Parse
    BY <2>2, ParseKeeps
  <2>3. CASE UNCHANGED appendVars
    BY <2>3 DEF appendVars, AppendInv, KnownIn, InsteadIn, NewIn, CopiesLie, AskedIn, OthersIn, Parsed
  <2>4. QED
    BY <2>1, <2>2, <2>3 DEF AppendNext
<1>3. QED
  BY <1>1, <1>2, PTL DEF AppendSpec

\* bbappend_recipe delivers what recipetool and devtool rely on.
THEOREM AppendIsDelivered == AppendSpec => []AppendDelivers
<1>1. AppendInv => AppendDelivers
  <2> SUFFICES ASSUME AppendInv PROVE AppendDelivers
    OBVIOUS
  <2>1. AskedIsFound
    BY DEF AppendInv, AskedIsFound, AskedIn, ForUs, OwnCopy, Found, FoundIn, SearchDirs, DirsOf
  <2>2. OthersKept
    BY DEF AppendInv, OthersKept, OthersIn
  <2>3. InstalledOnce
    BY LineHolds DEF AppendInv, InstalledOnce, AllLines, IsLine, ToSet
  <2>4. QED
    BY <2>1, <2>2, <2>3 DEF AppendDelivers
<1>2. QED
  BY <1>1, AppendInvariant, PTL
=============================================================================
