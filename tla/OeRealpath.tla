----------------------------- MODULE OeRealpath -----------------------------
(***************************************************************************)
(* Links resolved below a root directory that is not the host's, as        *)
(* packaging does for every link it meets: realpath of lib/oe/path.py, and *)
(* its copy in lib/oe/cachedpath.py, which answers from a cache of lstat   *)
(* results while packaging goes on changing the tree.                      *)
(*                                                                         *)
(* A path is the sequence of its names below the root.  The tree maps the  *)
(* paths that exist to [kind: file, dir or link, abs, target].             *)
(***************************************************************************)
EXTENDS Naturals, Sequences, FiniteSets, SequencesExt

CONSTANTS
    Trees,
    Files,      \* the paths asked for, as they are written
    Updates,    \* path -> what packaging may put there, None to remove it
    LoopCount,  \* loop_cnt: 100 in the code
    MaxSteps,   \* bounds the behaviour
    None

VARIABLES
    tree,
    cache,   \* path -> its kind when it was looked up, None if nothing was there
    asked,   \* the call answered last
    answer,
    steps

vars == <<tree, cache, asked, answer, steps>>

Root == <<>>
Up == ".."
Here == "."

Lstat(p) == IF p = Root THEN "dir" ELSE IF p \in DOMAIN tree THEN tree[p].kind ELSE None

\* os.path.normpath of the part below the root, or of a link's text.
Normpath(names, abs) ==
    LET Add(done, n) ==
            CASE n = Here -> done
              [] n # Here /\ n # Up -> Append(done, n)
              [] n = Up /\ done # <<>> /\ Last(done) # Up -> Front(done)
              [] n = Up /\ (done = <<>> \/ Last(done) = Up) -> IF abs THEN done ELSE Append(done, Up)
    IN  FoldLeft(Add, <<>>, names)

Text(p) == IF Normpath(tree[p].target, tree[p].abs) = <<>> /\ ~tree[p].abs
           THEN <<Here>> ELSE Normpath(tree[p].target, tree[p].abs)

\* lstat takes a path with "." in it for the one without.
Clean(p) == SelectSeq(p, LAMBDA n : n # Here)

\* calllstat: what was seen once is not looked at again.
Kind(p) == IF Clean(p) \in DOMAIN cache THEN cache[Clean(p)] ELSE Lstat(Clean(p))

Failed(err, seen) == [err |-> err, path |-> None, dir |-> FALSE, seen |-> seen]
Found(p, dir, seen) == [err |-> None, path |-> p, dir |-> dir, seen |-> seen]
Also(r, seen) == [r EXCEPT !.seen = @ \cup seen]

Parent(p) == IF p = Root THEN Root ELSE Front(p)

\* __realpath_rel: the names one by one, from a directory without links; and
\* __realpath of each, a link's text resolved in turn.
RealpathRel(assume_dir) ==
    LET R[n \in 0..LoopCount, start \in Seq(STRING), names \in Seq(STRING), have_dir \in BOOLEAN] ==
            IF names = <<>> THEN Found(start, have_dir, {})
            ELSE IF ~have_dir /\ ~assume_dir THEN Failed("ENOENT", {})
            ELSE IF Head(names) = Up THEN R[n, Parent(start), Tail(names), have_dir]
            ELSE LET file == Append(start, Head(names))
                     this == {Clean(file)}
                     real == IF Kind(file) # "link" THEN Found(file, Kind(file) = "dir", this)
                             ELSE IF n = 0 THEN Failed("ELOOP", this)
                             ELSE IF Lstat(Clean(file)) # "link" THEN Failed("EINVAL", this)
                             ELSE Also(R[n - 1, IF tree[Clean(file)].abs THEN Root ELSE start,
                                         Text(Clean(file)), TRUE], this)
                 IN  IF real.err # None THEN real
                     ELSE Also(R[n, real.path, Tail(names), real.dir], real.seen)
    IN  R

\* realpath: without use_physdir only the file itself is looked at.
Realpath(call) ==
    LET file == Normpath(call.file, FALSE)
        rel  == RealpathRel(call.assume_dir)
    IN  CASE file # Root /\ Head(file) = Up -> Failed("EINVAL", {})
          [] file = Root -> Found(Root, TRUE, {})
          [] file # Root /\ Head(file) # Up ->
                IF call.use_physdir THEN rel[LoopCount, Root, file, TRUE]
                ELSE rel[LoopCount, Front(file), <<Last(file)>>, TRUE]

Remember(seen) == [p \in DOMAIN cache \cup seen |-> Kind(p)]

\* Mutant: a path that was not there is forgotten, one that was is kept.
UpdateCache_Missing(x) == [p \in DOMAIN cache \ {y \in {x} \cap DOMAIN cache : cache[y] = None} |-> cache[p]]

UpdateCache(x) == [p \in DOMAIN cache \ {x} |-> cache[p]]

Init ==
    /\ tree \in Trees
    /\ cache = [p \in {} |-> None]
    /\ asked = None /\ answer = None /\ steps = 0

\* As packaging calls it: a file met in a walk, its directory being without links;
\* a link's text, which may lead to what another package brings; or with defaults.
Calls == {c \in [file : Files, use_physdir : BOOLEAN, assume_dir : BOOLEAN] :
             c.use_physdir \/ ~c.assume_dir}

Step == steps < MaxSteps /\ steps' = steps + 1

Ask ==
    /\ Step
    /\ \E call \in Calls :
          LET r == Realpath(call)
          IN  /\ asked' = call
              /\ answer' = [err |-> r.err, path |-> r.path]
              /\ cache' = Remember(r.seen)
    /\ UNCHANGED tree

\* cpath.walk over the whole tree looks at everything in it.
Walk ==
    /\ Step
    /\ cache' = Remember(DOMAIN tree)
    /\ asked' = None /\ answer' = None
    /\ UNCHANGED tree

\* Packaging makes, replaces or removes one entry, and says so to the cache.
Change ==
    /\ Step
    /\ \E p \in DOMAIN Updates : \E e \in Updates[p] :
          /\ Lstat(Front(p)) = "dir" /\ \A q \in DOMAIN tree : Len(q) > Len(p) => ~IsPrefix(p, q)
          /\ tree' = [q \in (DOMAIN tree \ {p}) \cup (IF e = None THEN {} ELSE {p}) |->
                         IF q = p THEN e ELSE tree[q]]
          /\ cache' = UpdateCache(p)
    /\ asked' = None /\ answer' = None

Next == Ask \/ Walk \/ Change

Spec == Init /\ [][Next]_vars

-----------------------------------------------------------------------------
\* The reference: how a kernel would walk the path in a root of its own, link by
\* link, on the tree as it is.
Hops == 12
Kernel(assume_dir) ==
    LET K[n \in 0..Hops, dir \in Seq(STRING), names \in Seq(STRING)] ==
            IF names = <<>> THEN [err |-> None, path |-> dir]
            ELSE IF Head(names) = Here THEN K[n, dir, Tail(names)]
            ELSE IF Head(names) = Up THEN K[n, Parent(dir), Tail(names)]
            ELSE LET p == Append(dir, Head(names))
                 IN  IF Lstat(p) = "link"
                     THEN IF n = 0 THEN [err |-> "ELOOP", path |-> None]
                          ELSE K[n - 1, IF tree[p].abs THEN Root ELSE dir, tree[p].target \o Tail(names)]
                     ELSE IF Lstat(p) = "dir" \/ assume_dir \/ Len(names) = 1
                          THEN K[n, p, Tail(names)]
                          ELSE [err |-> "ENOENT", path |-> None]
    IN  K

\* normpath reads "x/.." as nothing, whatever x is, and "." is kept as a name.
GoesUp(names) == \E i, j \in DOMAIN names : i < j /\ names[i] # Up /\ names[j] = Up
Plain == \A p \in DOMAIN tree : tree[p].kind = "link" =>
            ~GoesUp(tree[p].target) /\ Text(p) # <<Here>>

\* use_physdir is left out only for a path without links before its last name.
Proper(call) ==
    /\ ~GoesUp(call.file)
    /\ call.use_physdir \/ \A i \in 1..Len(call.file) - 1 : Lstat(SubSeq(call.file, 1, i)) = "dir"

\* "Returns the canonical path of 'file' with assuming a toplevel 'root' directory"
\* (path.py:239): from the cache, after changes it was told of, the answer is what a
\* fresh walk in that root finds; a loop ends in ELOOP and nothing else does, what
\* is missing on the way in ENOENT unless it is assumed to be a directory.  A path
\* that leaves the root is refused.
RealpathTrue ==
    asked # None /\ Plain /\ Proper(asked) =>
        answer = IF Head(asked.file) = Up THEN [err |-> "EINVAL", path |-> None]
                 ELSE Kernel(asked.assume_dir)[Hops, Root, asked.file]
=============================================================================
