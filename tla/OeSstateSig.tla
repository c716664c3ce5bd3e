----------------------------- MODULE OeSstateSig ----------------------------
(***************************************************************************)
(* Task signatures that are locked to earlier ones (lib/oe/sstatesig.py).  *)
(* A build hashes its tasks after their dependencies and hands out the     *)
(* locked hash instead, but not for a recipe the user is working on        *)
(* (SIGGEN_UNLOCKED_RECIPES), nor for what depends on one.  The hashes in  *)
(* use can be dumped as the locked ones of the next build.                 *)
(*                                                                         *)
(* A hash is the set of what went into it: the task's own metadata and the *)
(* hashes of the dependencies the filter keeps.                            *)
(***************************************************************************)
EXTENDS Naturals, FiniteSets

CONSTANT
    Graphs  \* [recipes: name -> properties, tasks: set of [mc, pn, task], deps: set of pairs,
            \*  safe, abisafe, unlocked: SIGGEN_* of the second build, edited: recipes]

VARIABLES
    graph,
    build,     \* 1, or 2 for the build with locked signatures
    hash,      \* task -> hash get_taskhash returned; those it was asked for
    unihash,   \* task -> hash the equivalence server gave in its place
    locks,     \* lockedsigs: <<pn, task>> -> hash
    locked,    \* lockedhashes: task -> hash, for those that have one
    unlocked,  \* unlockedrecipes
    mismatches,
    first      \* what build 1 dumped: task -> hash

sigVars == <<graph, build, hash, unihash, locks, locked, unlocked, mismatches, first>>

Tasks == graph.tasks
Is(t, what) == what \in graph.recipes[t.pn]

-----------------------------------------------------------------------------
\* sstate_rundepfilter: does d count for t's signature?  The rules apply in this
\* order, the first that fits decides.
Kept(t, d) ==
    LET own     == t.pn = d.pn /\ t.mc = d.mc
        safe    == <<t.pn, d.pn>> \in graph.safe \/ (<<"*", d.pn>> \in graph.safe /\ t.pn # d.pn)
        fixed   == Is(t, "native") \/ Is(t, "cross") \/ Is(t, "nativesdk")
        group   == Is(t, "packagegroup") /\ Is(t, "allarch") /\ ~Is(d, "native")
        abi     == d.pn \in graph.abisafe /\ ~Is(t, "image")
        modules == Is(d, "kernel") /\ ~Is(t, "kernel") /\ Is(t, "recommends-kernel-module")
    IN  /\ t.task # "do_rm_work"
        /\ IF own THEN ~(t.task = "do_kernel_configme" /\ d.task = "do_unpack_and_patch")
           ELSE /\ ~safe
                /\ fixed \/ (~group /\ ~abi /\ ~modules)

\* What get_taskhash is handed, and what of it counts for the signature.
DirectDeps(t) == {d \in Tasks : <<t, d>> \in graph.deps}
Deps(t) == {d \in DirectDeps(t) : Kept(t, d)}

Unihash(t) == IF t \in DOMAIN locked THEN locked[t]
              ELSE IF t \in DOMAIN unihash THEN unihash[t] ELSE hash[t]

\* The base class's hash.
Computed(t) ==
    [own  |-> <<t.mc, t.pn, t.task, IF build = 2 /\ t.pn \in graph.edited THEN "edited" ELSE "as it was">>,
     deps |-> {Unihash(d) : d \in Deps(t)}]

Older(t) == [own |-> <<t.mc, t.pn, t.task, "older">>, deps |-> {}]
FromServer(t, h) == IF t \in graph.equivalent THEN Older(t) ELSE h

-----------------------------------------------------------------------------
SigInit ==
    /\ graph \in Graphs
    /\ build = 1 /\ hash = <<>> /\ unihash = <<>> /\ locks = <<>> /\ locked = <<>>
    /\ unlocked = {} /\ mismatches = {} /\ first = <<>>

Noted(f, t, h) == [x \in DOMAIN f \cup {t} |-> IF x = t THEN h ELSE f[x]]

\* t is of an unlocked recipe, or depends on one in its own multiconfig, whether
\* the dependency counts for the signature or not.
DependsUnlocked(t) ==
    t.pn \in unlocked \/ \E d \in DirectDeps(t) : d.mc = t.mc /\ d.pn \in unlocked

\* Mutant: a recipe that depends on an unlocked one is not remembered as unlocked.
NowUnlocked_Forgets(t) == unlocked

NowUnlocked(t) == IF DependsUnlocked(t) THEN unlocked \cup {t.pn} ELSE unlocked

\* get_taskhash, the first time for t.
GetTaskhash(t) ==
    /\ t \notin DOMAIN hash /\ DirectDeps(t) \subseteq DOMAIN hash
    /\ unlocked' = NowUnlocked(t)
    /\ LET h    == Computed(t)
           lock == locks[<<t.pn, t.task>>]
       IN  IF ~DependsUnlocked(t) /\ <<t.pn, t.task>> \in DOMAIN locks
           THEN /\ locked' = Noted(locked, t, lock)
                /\ hash' = Noted(hash, t, lock)
                /\ mismatches' = IF lock \in {h, FromServer(t, h)} THEN mismatches
                                 ELSE mismatches \cup {t}
           ELSE hash' = Noted(hash, t, h) /\ UNCHANGED <<locked, mismatches>>
    /\ UNCHANGED <<graph, build, unihash, locks, first>>

\* get_taskhash again: BitBake asks once more when a dependency's unihash has
\* changed; a locked task keeps its hash.
Rehash(t) ==
    /\ t \in DOMAIN hash
    /\ LET h == IF t \in DOMAIN locked THEN locked[t] ELSE Computed(t)
       IN  /\ h # hash[t]
           /\ hash' = [hash EXCEPT ![t] = h]
    /\ UNCHANGED <<graph, build, unihash, locks, locked, unlocked, mismatches, first>>

\* The hash equivalence server knows an older task with the same output.
Equivalent(t) ==
    /\ t \in DOMAIN hash \ DOMAIN unihash /\ t \in graph.equivalent
    /\ unihash' = Noted(unihash, t, FromServer(t, hash[t]))
    /\ UNCHANGED <<graph, build, hash, locks, locked, unlocked, mismatches, first>>

Settled == DOMAIN hash = Tasks /\ \A t \in Tasks : t \in DOMAIN locked \/ hash[t] = Computed(t)

\* dump_lockedsigs writes pn:task:hash, and sstate_lockedsigs reads it for the next
\* build; of two tasks of one name the later line wins.
DumpLockedsigs ==
    /\ build = 1 /\ Settled
    /\ first' = [t \in Tasks |-> Unihash(t)]
    /\ \E last \in SUBSET Tasks :
          /\ \A t \in Tasks : Cardinality({x \in last : x.pn = t.pn /\ x.task = t.task}) = 1
          /\ locks' = [k \in {<<t.pn, t.task>> : t \in Tasks} |->
                          Unihash(CHOOSE x \in last : k = <<x.pn, x.task>>)]
    /\ build' = 2 /\ hash' = <<>> /\ unihash' = <<>> /\ locked' = <<>>
    /\ unlocked' = graph.unlocked /\ mismatches' = {}
    /\ UNCHANGED graph

SigNext ==
    \/ \E t \in Tasks : GetTaskhash(t) \/ Rehash(t) \/ Equivalent(t)
    \/ DumpLockedsigs

SigSpec == SigInit /\ [][SigNext]_sigVars

-----------------------------------------------------------------------------
\* However the tasks are ordered, a task that gets its locked hash is of no
\* unlocked recipe, and what it is built from has its locked hash as well: the
\* build never takes an object from sstate that was made without the user's
\* changes, directly or through others.
NoStaleLock ==
    build = 2 => \A t \in DOMAIN locked :
        /\ t.pn \notin graph.unlocked
        /\ \A d \in DirectDeps(t) : d.mc = t.mc => d \in DOMAIN locked

OneOfItsName(t) == \A x \in Tasks : x.pn = t.pn /\ x.task = t.task => x = t

\* Recipes of which none is unlocked, and none has a task that depends on one
\* outside.
SetApart(pns) ==
    /\ pns \cap graph.unlocked = {}
    /\ \A t \in Tasks : t.pn \in pns =>
          \A d \in DirectDeps(t) : d.mc = t.mc => d.pn \in pns

\* A recipe that has nothing to do with the unlocked ones.
FullyLocked(pn) == \E pns \in SUBSET {t.pn : t \in Tasks} : pn \in pns /\ SetApart(pns)

\* With the dumped file, a recipe that has nothing to do with the unlocked ones gets
\* the hashes of the first build back whatever was edited since, and the tasks that
\* were edited are reported, but for those the server takes for equal.
LocksReproduce ==
    build = 2 => \A t \in DOMAIN hash : FullyLocked(t.pn) /\ OneOfItsName(t) =>
        /\ hash[t] = first[t]
        /\ t.pn \in graph.edited => t \in mismatches \/ first[t] = Older(t)

\* Locked signatures reproduce the hashes of the build they were dumped from and
\* hide no change the user makes.
LocksSound == NoStaleLock /\ LocksReproduce
=============================================================================
