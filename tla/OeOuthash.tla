------------------------------ MODULE OeOuthash -----------------------------
(***************************************************************************)
(* The output hash of a task (lib/oe/sstatesig.py, OEOuthashBasic): two    *)
(* builds walk the trees they made, each in its own directory and on its   *)
(* own host, and the hash server takes equal hashes for equal output.      *)
(*                                                                         *)
(* A tree maps paths, sequences of names, to [type, perm, owner, mtime,    *)
(* data, link, host].  data is a sequence of pieces, BuildPath among them  *)
(* the build directory, or a device's number; host says that a link leads  *)
(* to a directory here.                                                    *)
(* A hash is the sequence of what was fed to it.                           *)
(***************************************************************************)
EXTENDS Naturals, Sequences, FiniteSets, FiniteSetsExt, SequencesExt

CONSTANTS
    TreePairs,    \* pairs of trees
    HashOptions,  \* [task, owners, stamps, root, filter: names]
    NameOrder,    \* all names in sorting order
    Epoch,        \* SOURCE_DATE_EPOCH
    BuildPath,    \* the build directory
    NoColumn      \* what is fed for a column that is left out

\* A path is made of names, and what it leads through are directories.
ASSUME NameOrderAssumption == NameOrder \in Seq(Range(NameOrder))
ASSUME TreesAssumption ==
    \A pair \in TreePairs : \A b \in {1, 2} : \A p \in DOMAIN pair[b] :
        /\ p \in Seq(Range(NameOrder))
        /\ \A n \in 0..(Len(p) - 1) : /\ SubSeq(p, 1, n) \in DOMAIN pair[b]
                                      /\ pair[b][SubSeq(p, 1, n)].type = "dir"
ASSUME RootAssumption ==
    \A pair \in TreePairs : \A b \in {1, 2} : <<>> \in DOMAIN pair[b] /\ pair[b][<<>>].type = "dir"

VARIABLES
    trees,
    option,
    listing,   \* build -> the order its file system lists names in
    todo,      \* build -> directories to walk
    hashed        \* build -> lines fed to the hash

hashVars == <<trees, option, listing, todo, hashed>>

Builds == {1, 2}
Root == <<>>
Children(t, dir) == {p \in DOMAIN t : p # Root /\ Front(p) = dir}

\* Mutant: the entries are taken as the file system lists them.
InOrder_Listed(names, order) == SelectSeq(order, LAMBDA n : n \in names)

\* What of the first names in sorting order is among these, sorted.
Sorted(names) ==
    LET sorted[n \in 0..Len(NameOrder)] ==
            IF n = 0 THEN <<>>
            ELSE IF NameOrder[n] \in names THEN Append(sorted[n - 1], NameOrder[n])
            ELSE sorted[n - 1]
    IN  sorted

\* dirs.sort(), files.sort()
InOrder(names, order) == Sorted(names)[Len(NameOrder)]

Filtered(p) == p # Root /\ Last(p) \in option.filter

WithoutPath(data) == SelectSeq(data, LAMBDA x : x # BuildPath)

\* process: who may read it only where owners mean something (the sticky bit's "t"
\* hides whether others may execute), times no later than the source's own, the
\* number of a device, and no size or build path of a filtered file.
Line(p, e) ==
    [path  |-> p, type |-> e.type,
     perm  |-> IF ~option.owners THEN e.perm \cap {"ur", "uw", "ux", "us"}
               ELSE IF "ot" \in e.perm THEN e.perm \ {"ox"} ELSE e.perm,
     owner |-> IF option.owners THEN e.owner ELSE NoColumn,
     mtime |-> IF option.stamps THEN Min({e.mtime, Epoch}) ELSE NoColumn,
     rdev  |-> IF e.type \in {"char", "block"} THEN e.data ELSE NoColumn,
     size  |-> IF e.type = "file" /\ ~Filtered(p) THEN Len(e.data) ELSE NoColumn,
     data  |-> IF e.type # "file" THEN NoColumn
               ELSE IF Filtered(p) THEN WithoutPath(e.data) ELSE e.data,
     link  |-> IF e.type = "link" THEN e.link ELSE NoColumn]

\* What has these names in the directory, sorted.
Named(dir, names, order) ==
    LET sorted == InOrder(names, order) IN [i \in DOMAIN sorted |-> Append(dir, sorted[i])]

Names(ps) == {Last(p) : p \in ps}

\* One directory of os.walk: itself, its files, and last those links that lead to
\* directories, which os.walk lists among the directories.
LinksToDirs(t, dir) == {p \in Children(t, dir) : t[p].type = "link" /\ t[p].host}

PlainFiles(t, dir) ==
    {p \in Children(t, dir) \ LinksToDirs(t, dir) : t[p].type # "dir" /\ Last(p) # "fixmepath"}

Entries(t, dir, order) ==
    (IF option.root \/ dir # Root THEN <<dir>> ELSE <<>>)
        \o Named(dir, Names(PlainFiles(t, dir)), order) \o Named(dir, Names(LinksToDirs(t, dir)), order)

Lines(t, dir, order) ==
    LET these == Entries(t, dir, order) IN [i \in DOMAIN these |-> Line(these[i], t[these[i]])]

Subdirs(t, dir, order) == Named(dir, Names({p \in Children(t, dir) : t[p].type = "dir"}), order)

HashInit ==
    /\ trees \in TreePairs /\ option \in HashOptions
    /\ listing \in [Builds -> {NameOrder, Reverse(NameOrder)}]
    /\ todo = [b \in Builds |-> <<Root>>]
    /\ hashed = [b \in Builds |-> <<[task |-> option.task]>>]

Walk(b) ==
    /\ todo[b] # <<>>
    /\ LET dir == Head(todo[b])
       IN  /\ hashed' = [hashed EXCEPT ![b] = @ \o Lines(trees[b], dir, listing[b])]
           /\ todo' = [todo EXCEPT ![b] = Subdirs(trees[b], dir, listing[b]) \o Tail(@)]
    /\ UNCHANGED <<trees, option, listing>>

HashNext == \E b \in Builds : Walk(b)

HashSpec == HashInit /\ [][HashNext]_hashVars

-----------------------------------------------------------------------------
\* The paths that show: not the root where it is left out, nor a fixmepath file.
Shown(t) == {p \in DOMAIN t : /\ p = Root => option.root
                              /\ p # Root /\ Last(p) = "fixmepath" =>
                                    t[p].type = "dir" \/ (t[p].type = "link" /\ t[p].host)}

\* What one build's output has that another's must have too.
Matter(t) == [p \in Shown(t) |-> Line(p, t[p])]

\* The same links lead to directories on both hosts.
SameHost == \A p \in DOMAIN trees[1] \cap DOMAIN trees[2] : trees[1][p].host = trees[2][p].host

\* Two outputs have one hash exactly if they agree in everything that matters: the
\* order in which a file system lists names, the build directory, who built it and
\* when do not show, and no difference is lost.  (A link that leads to a directory
\* on one host only is hashed at another place.)
HashTellsOutput ==
    todo = [b \in Builds |-> <<>>] =>
        /\ hashed[1] = hashed[2] => Matter(trees[1]) = Matter(trees[2])
        /\ SameHost /\ Matter(trees[1]) = Matter(trees[2]) => hashed[1] = hashed[2]
=============================================================================
