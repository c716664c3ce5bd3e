-------------------------- MODULE OeSstateSigCases --------------------------
(***************************************************************************)
(* Five recipes in a chain and a fork, with rules that cut some of the     *)
(* edges, one or two multiconfigs, and tasks of a recipe of which only     *)
(* some depend on an unlocked one.                                         *)
(***************************************************************************)
EXTENDS Naturals

T(mc, pn, task) == [mc |-> mc, pn |-> pn, task |-> task]
C == "do_compile"
F == "do_fetch"
Base == {T("", "lib", F), T("", "lib", C), T("", "app", F), T("", "app", C), T("", "img", C), T("", "tool", C)}
Edges == {<<T("", "lib", C), T("", "lib", F)>>, <<T("", "app", C), T("", "app", F)>>,
          <<T("", "app", C), T("", "lib", C)>>, <<T("", "img", C), T("", "app", C)>>,
          <<T("", "lib", C), T("", "tool", C)>>, <<T("", "img", C), T("", "app", F)>>}
Kinds == [lib |-> {"kernel"}, app |-> {}, img |-> {"image"}, tool |-> {"native"}]

G(kinds, safe, abi, un, ed, eq) ==
    [recipes |-> kinds, tasks |-> Base, deps |-> Edges, safe |-> safe, abisafe |-> abi,
     unlocked |-> un, edited |-> ed, equivalent |-> eq]
Second == {T("x", "lib", C)}

\* A task of app that does not depend on lib, as app's others do, and a recipe
\* that depends on this one only.
Aside == {T("", "app", "do_shared"), T("", "doc", C)}
AsideEdges == {<<T("", "doc", C), T("", "app", "do_shared")>>}

AllGraphs ==
    {G(k, s, {}, u, e, q) :
        k \in {Kinds, [Kinds EXCEPT !.app = {"recommends-kernel-module"}],
               [Kinds EXCEPT !.img = {"packagegroup", "allarch"}]},
        s \in {{}, {<<"*", "lib">>}}, u \in {{}, {"lib"}, {"app"}, {"tool"}},
        e \in {{"lib"}}, q \in {{}, {T("", "lib", C)}}}
    \cup {G(Kinds, {}, {"app"}, {"app"}, {"app"}, {})}
    \cup {[G(Kinds, {}, {}, u, {"lib"}, {}) EXCEPT
              !.tasks = @ \cup Second, !.deps = @ \cup {<<T("", "app", C), T("x", "lib", C)>>}] :
              u \in {{}, {"lib"}}}
    \cup {[G([n \in DOMAIN Kinds \cup {"doc"} |-> IF n = "doc" THEN {} ELSE Kinds[n]],
             s, {}, u, {"app"}, {}) EXCEPT !.tasks = @ \cup Aside, !.deps = @ \cup AsideEdges] :
              s \in {{}, {<<"app", "lib">>}}, u \in {{"lib"}, {"tool"}, {"doc"}}}
=============================================================================
