--------------------------- MODULE OePackageCases ---------------------------
(***************************************************************************)
(* A recipe with two binaries that are hard links of each other in two     *)
(* directories, a shared library, its development link, static library in  *)
(* two places and pkg-config file, and translations; packaged as foo-src,  *)
(* foo-dbg, foo-dev, foo-lib and foo with every combination of the options *)
(* that steer the steps.                                                   *)
(***************************************************************************)
EXTENDS Sequences, FiniteSets, TLC

CONSTANT NoName

P(d, n) == [dir |-> d, area |-> "", name |-> n]
Tool == P("bin", "tool")
Alias == P("sbin", "alias")
Lib == P("lib", "libx.so.1")
LibLink == P("lib", "libx.so")
Arch == P("lib", "libx.a")
ArchTwo == P("arch", "liby.a")
Pc == P("lib", "x.pc")
AppPc == P("bin", "app.pc")
French == P("fr", "tool.mo")
Serb == P("sr@latin", "tool.mo")
Order == <<ArchTwo, Tool, AppPc, French, Lib, LibLink, Arch, Pc, Alias, Serb>>

File(first, what) == [ino |-> <<first, "orig">>, what |-> what, link |-> NoName]
Plain0 == [kind |-> "text", soname |-> NoName, needs |-> {}, pc |-> NoName, requires |-> {}]
Contents ==
    [tool   |-> [Plain0 EXCEPT !.kind = "elf", !.needs = {"libx"}],
     libx   |-> [Plain0 EXCEPT !.kind = "elf", !.soname = "libx"],
     signed |-> [Plain0 EXCEPT !.kind = "signed"],
     archx  |-> [Plain0 EXCEPT !.kind = "static"],
     xpc    |-> [Plain0 EXCEPT !.pc = "x"],
     apppc  |-> [Plain0 EXCEPT !.pc = "app", !.requires = {"x"}],
     mo     |-> Plain0]

Installed ==
    [p \in {Order[i] : i \in DOMAIN Order} |->
        CASE p \in {Tool, Alias} -> File(Tool, "tool")
          [] p = Lib -> File(Lib, "libx")
          [] p = LibLink -> [ino |-> <<LibLink, "orig">>, what |-> "mo", link |-> Lib]
          [] p \in {Arch, ArchTwo} -> File(Arch, "archx")
          [] p = Pc -> File(Pc, "xpc")
          [] p = AppPc -> File(AppPc, "apppc")
          [] p \in {French, Serb} -> File(p, "mo")]

Claim(d, n) == [dir |-> d, name |-> n]
Foo == <<"foo">>
FooLib == <<"foo", "lib">>
FooDev == <<"foo", "dev">>
FooDbg == <<"foo", "dbg">>
FooSrc == <<"foo", "src">>
Claimed ==
    (Foo :> {Claim("bin", "*"), Claim("sbin", "*")}) @@
    (FooLib :> {Claim("lib", "libx.so.1")}) @@
    (FooDev :> {Claim("lib", "*"), Claim("arch", "*")}) @@
    (FooDbg :> {}) @@ (FooSrc :> {}) @@ (<<"foo", "locale">> :> {})

Base ==
    [pn |-> "foo", install |-> Installed, order |-> Order, data |-> Contents,
     skip |-> {}, outside |-> {}, strip |-> TRUE, stripstatic |-> FALSE,
     debugsplit |-> TRUE, staticsplit |-> FALSE, autodebug |-> TRUE,
     dirlinks |-> {}, locales |-> <<>>, packages |-> <<FooLib, FooDbg, FooDev, Foo, FooSrc>>,
     claims |-> Claimed, excluded |-> {}, privatelibs |-> {}, known |-> {}, knownpc |-> {},
     depends |-> {<<"bar">>, <<"baz", "dbg">>}, rdepends |-> (Foo :> {<<"bar">>}), dbgdefault |-> FALSE]

Locales(names) == [i \in DOMAIN names |-> [dir |-> names[i][1], pkg |-> <<"foo", "locale", names[i][2]>>]]

\* How the tree is stripped and split.
Strippings ==
    {[Base EXCEPT !.skip = s, !.outside = o, !.strip = t, !.stripstatic = a, !.debugsplit = b,
                  !.staticsplit = c, !.install[Lib].what = w] :
        s \in SUBSET {Alias, Arch}, o \in SUBSET {<<Tool, "orig">>, <<Lib, "orig">>},
        t \in BOOLEAN, a \in BOOLEAN, b \in BOOLEAN, c \in BOOLEAN, w \in {"libx", "signed"}}

\* How the files are handed out, and what the packages then depend on.
Handouts ==
    {[Base EXCEPT !.dirlinks = m, !.locales = l, !.packages = p, !.excluded = e[1], !.privatelibs = e[2],
                  !.known = k[1], !.knownpc = k[2], !.dbgdefault = g[1], !.autodebug = g[2]] :
        m \in {{}, {<<"lib", "usrlib">>}, {<<"lib", "sbin">>, <<"arch", "usrarch">>}},
        l \in {<<>>, Locales(<<<<"fr", "fr">>, <<"sr@latin", "sr+latin">>>>),
               Locales(<<<<"fr", "fr">>, <<"sr@latin", "fr">>>>)},
        p \in {<<FooLib, FooDbg, FooDev, Foo, FooSrc>>, <<FooDev, <<"foo", "locale">>, Foo, FooDbg>>},
        e \in {<<{}, {}>>, <<{FooLib}, {}>>, <<{}, {"libx"}>>},
        k \in {<<{}, {}>>, <<{<<"libx", "lib", <<"old">>>>}, {<<"x", <<"xdev">>>>}>>,
               <<{<<"libx", "opt", <<"other">>>>}, {}>>},
        g \in {<<FALSE, TRUE>>, <<TRUE, TRUE>>, <<FALSE, FALSE>>}}

\* A symbolic link beside a hard link of the binary that has its name.
SameName ==
    {[Base EXCEPT !.install = (P("sbin", "tool") :> [ino |-> <<P("sbin", "tool"), "orig">>, what |-> "mo", link |-> Alias]) @@ @,
                  !.order = Append(@, P("sbin", "tool"))]}

AllRecipes == Strippings \cup Handouts \cup SameName
=============================================================================
