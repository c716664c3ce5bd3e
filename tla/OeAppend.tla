------------------------------ MODULE OeAppend ------------------------------
(***************************************************************************)
(* Adding source files to a recipe from another layer: bbappend_recipe     *)
(* (lib/oe/recipeutils.py) writes or edits a .bbappend (or the recipe      *)
(* itself), call after call, with recipe data that may have been parsed    *)
(* before the last call.                                                   *)
(*                                                                         *)
(* A line is [name, op, val, lead]: the name <<variable, keyword,          *)
(* override>>, the value a sequence of words, lead that it was written as  *)
(* one string with a leading space.  A word of SRC_URI is [file, par].     *)
(***************************************************************************)
EXTENDS Naturals, Sequences, FiniteSets, SequencesExt

CONSTANTS
    AppendStarts,  \* [update, lines, base]: update_original_recipe; the lines of the
                   \* file to edit, none if there is no file; what the recipe puts
                   \* into SRC_URI
    AppendCalls,   \* [srcs, machine, remove], srcs of [file, content, par, listed, install]
    Machines,
    MaxAppends,    \* bound: calls of bbappend_recipe
    Unsaid         \* no machine, no parameters, nothing installed, no call yet

VARIABLES
    inRecipe,    \* update_original_recipe
    recipeUris,  \* what the recipe puts into SRC_URI
    appendFile,  \* the lines of the file that is edited
    laidOut,     \* what was copied next to it: <<dir, machine, file>> -> content
    rd,          \* SRC_URI in the recipe data
    rdm,         \* the machine they were parsed for
    priorLines,  \* appendFile before the last call
    lastCall,
    callsMade

appendVars == <<inRecipe, recipeUris, appendFile, laidOut, rd, rdm, priorLines, lastCall,
                callsMade>>

Overrides == Machines \cup {Unsaid}

SrcUri(kw, ov) == <<"SRC_URI", kw, ov>>
IsOut(name) == name[1] = "SRC_URI" /\ name[2] = ":remove"
ExtraPaths == <<"FILESEXTRAPATHS", ":prepend", Unsaid>>
PackageArch == <<"PACKAGE_ARCH", "", Unsaid>>
DoInstall(ov) == <<"do_install()", ":append", ov>>

EntryOf(s) == [file |-> s.file, par |-> s.par]

NewLine(name, op, val, lead) == [name |-> name, op |-> op, val |-> val, lead |-> lead]

\* What a line of the file is.
IsLine(l) ==
    /\ l = NewLine(l.name, l.op, l.val, l.lead)
    /\ l.val \in Seq(ToSet(l.val))
    /\ l.name[1] = "do_install()" =>
          \A x, y \in DOMAIN l.val : l.val[x] = l.val[y] => x = y

\* A recipe that is edited itself removes nothing from SRC_URI, the file of a layer
\* with one line for each machine; a call is given each file once, and what one
\* call is to remove no call is given.
ASSUME AppendAssumption ==
    /\ Unsaid \notin Machines /\ Unsaid \notin AppendCalls
    /\ \A s \in AppendStarts :
          /\ s.update \in BOOLEAN
          /\ s.base \in Seq(ToSet(s.base)) /\ s.lines \in Seq(ToSet(s.lines))
          /\ \A i \in DOMAIN s.lines : IsLine(s.lines[i])
          /\ \A i, j \in DOMAIN s.lines :
                IsOut(s.lines[i].name) => ~s.update /\ (s.lines[i].name = s.lines[j].name => i = j)
    /\ \A c \in AppendCalls :
          /\ c.srcs \in Seq(ToSet(c.srcs)) /\ c.machine \in Overrides
          /\ \A i, j \in DOMAIN c.srcs : c.srcs[i].file = c.srcs[j].file => i = j
          /\ \A d \in AppendCalls : \A i \in DOMAIN d.srcs : EntryOf(d.srcs[i]) \notin c.remove

LinesNamed(ls, name) == {i \in DOMAIN ls : ls[i].name = name}
First(S) == CHOOSE i \in S : \A j \in S : i <= j

\* The elements of s at the places K, and those that are not in S.
Picked(s, K) == FlattenSeq([i \in DOMAIN s |-> IF i \in K THEN <<s[i]>> ELSE <<>>])
Without(s, S) == Picked(s, {i \in DOMAIN s : s[i] \notin S})

\* list.remove takes out the first place of each word.
FirstsOut(s, S) == Picked(s, {i \in DOMAIN s : s[i] \in S => \E j \in 1..(i - 1) : s[j] = s[i]})

\* popline takes the first line of that name out of bbappendlines.
Popped(ls, name) == IF LinesNamed(ls, name) = {} THEN ls ELSE RemoveAt(ls, First(LinesNamed(ls, name)))

\* appendline joins the value to such a line.
AppendLine(ls, new) ==
    IF LinesNamed(ls, new.name) = {} THEN Append(ls, new)
    ELSE [ls EXCEPT ![First(LinesNamed(ls, new.name))].val = @ \o new.val]

-----------------------------------------------------------------------------
(* What SRC_URI holds when BitBake reads the recipe with these lines.      *)

\* The words of the lines with this keyword that hold for m.
WordsSaid(ls, kw, m) ==
    FlattenSeq([i \in DOMAIN ls |->
                  IF ls[i].name \in {SrcUri(kw, Unsaid), SrcUri(kw, m)} THEN ls[i].val ELSE <<>>])

UriWords(b, ls, m) ==
    LET sets == {i \in LinesNamed(ls, SrcUri("", Unsaid)) \cup LinesNamed(ls, SrcUri("", m)) : ls[i].op = "="}
        out  == ToSet(WordsSaid(ls, ":remove", m))
    IN  Without((IF sets = {} THEN b ELSE <<>>) \o WordsSaid(ls, "", m), out)
        \o Without(WordsSaid(ls, ":append", m), out)

Parsed(ls, m) == UriWords(recipeUris, ls, m)

-----------------------------------------------------------------------------
(* bbappendlines, before the file is read.                                 *)

\* The entry for the file that the recipe data have, the last of them (the code's
\* test is for a substring; the file names here are such that none begins another).
OldOnes(f) == {i \in DOMAIN rd : rd[i].file = f}
OldEntry(f) == rd[CHOOSE i \in OldOnes(f) : \A j \in OldOnes(f) : j <= i]

\* The lines for one source file.  acc is [lines, remove].
WithSource(acc, c, s) ==
    LET entry == EntryOf(s)
        old   == OldEntry(s.file)
        ov    == c.machine
        instead == inRecipe /\ ov = Unsaid
        out   == IF OldOnes(s.file) = {} \/ instead THEN acc.lines
                 ELSE AppendLine(acc.lines, NewLine(SrcUri(":remove", ov), "=", <<old>>, ov # Unsaid))
        add   == IF ov = Unsaid THEN NewLine(SrcUri("", Unsaid), "+=", <<entry>>, FALSE)
                 ELSE NewLine(SrcUri(":append", ov), "=", <<entry>>, TRUE)
    IN  IF s.listed \/ entry \in ToSet(rd) THEN acc
        ELSE [lines  |-> AppendLine(out, add),
              remove |-> IF OldOnes(s.file) # {} /\ instead THEN {old} ELSE acc.remove]

InstallLines(c) ==
    LET each  == FlattenSeq([i \in DOMAIN c.srcs |->
                    IF c.srcs[i].install = Unsaid THEN <<>>
                    ELSE <<<<"-d", c.srcs[i].install>>, <<"-m", c.srcs[i].file>>>>])
    IN  Picked(each, {i \in DOMAIN each : each[i][1] = "-m" \/ \A j \in 1..(i - 1) : each[j] # each[i]})

Prepared(c) ==
    LET paths == IF ~inRecipe /\ c.srcs # <<>>
                 THEN <<NewLine(ExtraPaths, ":=", <<"PN">>, FALSE)>> ELSE <<>>
        arch  == IF c.machine # Unsaid
                 THEN <<NewLine(PackageArch, "=", <<"MACHINE_ARCH">>, FALSE)>> ELSE <<>>
        acc[i \in 0..Len(c.srcs)] ==
            IF i = 0 THEN [lines |-> paths \o arch, remove |-> c.remove]
            ELSE WithSource(acc[i - 1], c, c.srcs[i])
        done  == acc[Len(c.srcs)]
        inst  == InstallLines(c)
    IN  [done EXCEPT !.lines =
            IF inst = <<>> THEN @ ELSE Append(@, NewLine(DoInstall(c.machine), "", inst, FALSE))]

-----------------------------------------------------------------------------
(* appendfile_varfunc.  st is [out, left, dir, changed].                   *)

Keep(st, l) == [st EXCEPT !.out = Append(@, l)]
Rewrite(st, l, val) == [Keep(st, [l EXCEPT !.val = val, !.lead = FALSE]) EXCEPT !.changed = TRUE]

MergedInstall(old, new) == old \o Without(new, ToSet(old))

\* Mutant: the new words replace those that are there.
WithWords_Only(val, l) == l.val

\* The line's value is looked up as one string: several words, or one with a
\* leading space, are never found and always added.
WithWords(val, l) ==
    IF Len(l.val) = 1 /\ ~l.lead /\ l.val[1] \in ToSet(val) THEN val ELSE val \o l.val

OnUris(st, l, c, remove) ==
    LET mine  == LinesNamed(st.left, l.name)
        adds  == l.name \in {SrcUri("", Unsaid), SrcUri(":append", c.machine)}
        given == IF mine = {} THEN l.val
                 ELSE IF adds THEN WithWords(l.val, st.left[First(mine)])
                 ELSE st.left[First(mine)].val
        val   == IF adds THEN FirstsOut(given, remove) ELSE given
        next  == [st EXCEPT !.left = Popped(@, l.name)]
    IN  IF val = l.val THEN Keep(next, l)
        ELSE IF val = <<>> /\ (l.op = "+=" \/ l.name[2] = ":append")
             THEN [next EXCEPT !.changed = TRUE]
             ELSE Rewrite(next, l, val)

\* edit_metadata hands over the lines of the variables that are to be set or that
\* words are to be removed from.
EditLine(st, l, c, p) ==
    LET mine == LinesNamed(st.left, l.name)
    IN  IF LinesNamed(p.lines, l.name) = {} /\ ~(p.remove # {} /\ l.name = SrcUri("", Unsaid)) THEN Keep(st, l)
        ELSE IF l.name = ExtraPaths
             THEN IF l.val[1] = "elsewhere" THEN Keep(st, l)
                  ELSE [Keep(st, l) EXCEPT !.left = Popped(@, ExtraPaths), !.dir = l.val[1]]
        ELSE IF l.name = PackageArch
             THEN Rewrite([st EXCEPT !.left = Popped(@, PackageArch)], l, <<c.machine>>)
        ELSE IF l.name[1] = "do_install()"
             THEN IF mine = {} THEN Keep(st, l)
                  ELSE Rewrite([st EXCEPT !.left = Popped(@, l.name)], l,
                               MergedInstall(l.val, st.left[First(mine)].val))
        ELSE OnUris(st, l, c, p.remove)

\* The loop of edit_metadata over the lines of the file.
EditAll(ls, p, c) ==
    LET st[i \in 0..Len(ls)] ==
            IF i = 0 THEN [out |-> <<>>, left |-> p.lines, dir |-> "PN", changed |-> FALSE]
            ELSE EditLine(st[i - 1], ls[i], c, p)
    IN  st[Len(ls)]

Edited(c) ==
    LET done == EditAll(appendFile, Prepared(c), c)
    IN  [dir   |-> done.dir,
         lines |-> IF done.changed \/ done.left # <<>> THEN done.out \o done.left ELSE appendFile]

-----------------------------------------------------------------------------
AppendInit ==
    /\ \E s \in AppendStarts : inRecipe = s.update /\ recipeUris = s.base /\ appendFile = s.lines
    /\ laidOut = <<>>
    /\ rdm \in Machines /\ rd = Parsed(appendFile, rdm)
    /\ priorLines = appendFile /\ lastCall = Unsaid /\ callsMade = 0

\* bbappend_recipe: the lines, then the files; a machine's files go to a
\* directory of its own.
BbappendRecipe(c) ==
    /\ callsMade < MaxAppends
    /\ LET e == Edited(c)
           Dest(s) == <<e.dir, c.machine, s.file>>
       IN  /\ appendFile' = e.lines
           /\ laidOut' = [d \in DOMAIN laidOut \cup {Dest(c.srcs[i]) : i \in DOMAIN c.srcs} |->
                            IF \E i \in DOMAIN c.srcs : Dest(c.srcs[i]) = d
                            THEN c.srcs[CHOOSE i \in DOMAIN c.srcs :
                                            /\ Dest(c.srcs[i]) = d
                                            /\ \A j \in DOMAIN c.srcs : Dest(c.srcs[j]) = d => j <= i].content
                            ELSE laidOut[d]]
    /\ priorLines' = appendFile /\ lastCall' = c /\ callsMade' = callsMade + 1
    /\ UNCHANGED <<inRecipe, recipeUris, rd, rdm>>

\* The caller parses the recipe again.
Parse ==
    /\ rd # Parsed(appendFile, rdm)
    /\ rd' = Parsed(appendFile, rdm)
    /\ UNCHANGED <<inRecipe, recipeUris, appendFile, laidOut, rdm, priorLines, lastCall, callsMade>>

AppendNext == (\E c \in AppendCalls : BbappendRecipe(c)) \/ Parse

AppendSpec == AppendInit /\ [][AppendNext]_appendVars

-----------------------------------------------------------------------------
\* Where a build for m finds a file: a machine's own directory first, among the
\* directories FILESEXTRAPATHS names (the recipe's own file needs none).
SearchDirs ==
    (IF inRecipe THEN {"PN"} ELSE {}) \cup
    ({appendFile[i].val[1] : i \in LinesNamed(appendFile, ExtraPaths)} \ {"elsewhere"})

Found(m, f) ==
    LET At(x) == {d \in DOMAIN laidOut : d[1] \in SearchDirs /\ d[2] = x /\ d[3] = f}
    IN  {laidOut[d] : d \in IF At(m) # {} THEN At(m) ELSE At(Unsaid)}

OwnCopy(m, f) == \E d \in DOMAIN laidOut : d[2] = m /\ d[3] = f

ForUs == lastCall # Unsaid /\ lastCall.machine \in {Unsaid, rdm}

\* After a call every file that was handed in is in SRC_URI and is found with its
\* own content by a build for the machine the data were parsed for, however old
\* the data were and whatever the .bbappend held, unless that very entry was
\* replaced by another before (its :remove line stays); only a machine's own
\* copy, made by an earlier call, hides the common one.
AskedIsFound ==
    ForUs => \A i \in DOMAIN lastCall.srcs :
        LET s == lastCall.srcs[i]
        IN  /\ ~s.listed /\ EntryOf(s) \notin lastCall.remove \cup ToSet(WordsSaid(priorLines, ":remove", rdm))
               => \E w \in ToSet(Parsed(appendFile, rdm)) : w.file = s.file
            /\ (lastCall.machine = Unsaid /\ OwnCopy(rdm, s.file)) \/ Found(rdm, s.file) = {s.content}

\* No call takes a file out of SRC_URI that it was not given.
OthersKept ==
    lastCall # Unsaid => \A m \in Machines : \A w \in ToSet(Parsed(priorLines, m)) :
        \/ w \in ToSet(Parsed(appendFile, m))
        \/ w \in lastCall.remove
        \/ \E i \in DOMAIN lastCall.srcs : lastCall.srcs[i].file = w.file

\* A file is installed by one line of do_install, however often it was handed in.
InstalledOnce ==
    \A i \in DOMAIN appendFile :
        appendFile[i].name[1] = "do_install()" =>
            \A x, y \in DOMAIN appendFile[i].val : appendFile[i].val[x] = appendFile[i].val[y] => x = y

\* What recipetool appendfile and devtool update-recipe rely on.
AppendDelivers == AskedIsFound /\ OthersKept /\ InstalledOnce
=============================================================================
