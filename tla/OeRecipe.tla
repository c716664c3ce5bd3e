------------------------------ MODULE OeRecipe ------------------------------
(***************************************************************************)
(* Changing values in a recipe's files (lib/oe/recipeutils.py): for each   *)
(* variable the file to change is chosen from BitBake's history of it, and *)
(* the lines of that file are replaced, dropped or inserted.               *)
(*                                                                         *)
(* A recipe is a class, an include file and the recipe file itself, parsed *)
(* in that order; each is a sequence of lines [name, op, val].  A name is  *)
(* <<variable, keyword, override>>, as in SRC_URI:append:m; a value is a   *)
(* sequence of words.                                                      *)
(***************************************************************************)
EXTENDS Naturals, Sequences, FiniteSets, SequencesExt

CONSTANTS
    Recipes,      \* the files to start from: [class, inc, bb], sequences of lines
    Requests,     \* functions from variables to values
    Progression,  \* the usual order of variables in a recipe
    Variables,    \* all variables, those that are not in Progression first
    ListVars,     \* list_vars
    MetaVars,     \* meta_vars
    Overrides,    \* OVERRIDES
    MaxCalls,
    None

VARIABLES
    files,   \* the recipe as it is
    before,  \* as it was before the last call
    asked,   \* the last request, or None
    again,   \* a request that could be met was made twice in a row
    calls

vars == <<files, before, asked, again, calls>>

Comment == <<"#", "", None>>
Plain(v) == <<v, "", None>>
FileOrder == <<"class", "inc", "bb">>

-----------------------------------------------------------------------------
(* patch_recipe_lines.  A new value is [op, val], op None drops the name.  *)

\* get_recipe_pos; 0 for a name that has no place.
Pos(n) == IF \E i \in DOMAIN Progression : Plain(Progression[i]) = n
          THEN CHOOSE i \in DOMAIN Progression : Plain(Progression[i]) = n ELSE 0

\* remainingnames at the start: names without a place first, then by place.
InOrder(names) ==
    SetToSeq({n \in names : n[2] # ""}) \o
    SelectSeq([i \in DOMAIN Variables |-> Plain(Variables[i])], LAMBDA n : n \in names)

\* outputvalue
Written(n, new) ==
    IF new.op = None \/ (new.op = "+=" /\ new.val = <<>>) THEN <<>>
    ELSE <<[name |-> n, op |-> new.op, val |-> new.val]>>

WrittenAll(ns, news) == FlattenSeq([i \in DOMAIN ns |-> Written(ns[i], news[ns[i]])])

\* rewindcomments: ahead of the comments that lead the next line.
Ahead(out, add) ==
    LET code == {i \in DOMAIN out : out[i].name # Comment}
        last == CHOOSE i \in code : \A j \in code : j <= i
    IN  IF code = {} THEN out \o add
        ELSE SubSeq(out, 1, last) \o add \o SubSeq(out, last + 1, Len(out))

Without(ns, gone) == SelectSeq(ns, LAMBDA n : n \notin gone)

\* Mutant: +=, which only adds to a value, is not replaced.
Replaced_Set == {"=", "=+"}

Replaced == {"+=", "=", "=+"}

\* The second run of edit_metadata; the first found the existing names.
PatchLines(from, news) ==
    LET existing == {from[i].name : i \in DOMAIN from} \cap DOMAIN news
        walk[i \in 0..Len(from)] ==
            IF i = 0 THEN [out |-> <<>>, left |-> InOrder(DOMAIN news)]
            ELSE LET was  == walk[i - 1]
                     l    == from[i]
                     due  == SelectSeq(was.left, LAMBDA n : /\ Pos(n) > 0 /\ Pos(l.name) >= Pos(n)
                                                            /\ n \notin existing)
                     out  == IF due = <<>> THEN was.out ELSE Ahead(was.out, WrittenAll(due, news))
                     left == Without(was.left, ToSet(due))
                 IN  IF l.name \in existing /\ l.op \in Replaced
                     THEN [out  |-> IF l.name \in ToSet(left) THEN out \o Written(l.name, news[l.name])
                                    ELSE out,
                           left |-> Without(left, {l.name})]
                     ELSE [out |-> Append(out, l), left |-> left]
        done == walk[Len(from)]
    IN  done.out \o WrittenAll(done.left, news)

-----------------------------------------------------------------------------
(* BitBake's history of a variable, and what patch_recipe makes of it.     *)

History(fs, v) ==
    FlattenSeq([k \in DOMAIN FileOrder |->
        LET f    == FileOrder[k]
            mine == SelectSeq(fs[f], LAMBDA l : l.name[1] = v)
        IN  [i \in DOMAIN mine |-> [file |-> f, line |-> mine[i]]]])

IsSet(e) == e.line.name[2] = "" /\ e.line.op = "="
IsImmediate(e) == e.line.name[2] = "" /\ e.line.op \in {"+=", "=+"}

\* simplify_history: of the assignments only the last, and nothing it overwrites.
Simplified(h) ==
    LET sets == {i \in DOMAIN h : IsSet(h[i])}
        kept == {i \in DOMAIN h : (IsSet(h[i]) \/ IsImmediate(h[i])) => \A j \in sets : j <= i}
    IN  FlattenSeq([i \in DOMAIN h |-> IF i \in kept THEN <<h[i]>> ELSE <<>>])

\* get_var_files
VarFile(fs, v) == LET h == History(fs, v) IN IF h = <<>> THEN None ELSE Last(h).file

\* first_meta_file: of the variables asked for, among the files in the recipe's
\* own directory.
MetaFile(fs, req) ==
    LET own == SelectSeq([i \in DOMAIN MetaVars |-> IF MetaVars[i] \in DOMAIN req
                                                    THEN VarFile(fs, MetaVars[i]) ELSE None],
                         LAMBDA f : f \in {"inc", "bb"})
    IN  IF own = <<>> THEN None ELSE Head(own)

\* localise_file_vars: where the variable is set, but never outside the directory.
FileFor(fs, req, v) ==
    LET f == VarFile(fs, v)
        g == IF f # None THEN f ELSE IF MetaFile(fs, req) # None THEN MetaFile(fs, req) ELSE "bb"
    IN  IF g = "class" THEN "bb" ELSE g

Applicable(e) == e.line.name[3] = None \/ e.line.name[3] \in Overrides

\* str.replace(detail, ''), for a detail of one word or several.
Cut(val, part) ==
    IF part # <<>> /\ \E i \in DOMAIN val : i + Len(part) - 1 <= Len(val)
                                             /\ SubSeq(val, i, i + Len(part) - 1) = part
    THEN LET i == CHOOSE j \in DOMAIN val : j + Len(part) - 1 <= Len(val)
                                            /\ SubSeq(val, j, j + Len(part) - 1) = part
         IN  SubSeq(val, 1, i - 1) \o SubSeq(val, i + Len(part), Len(val))
    ELSE val

\* A list variable the recipe file does not assign: what the other lines give it
\* is taken off the value, the rest is added with +=, and a keyword line of the
\* recipe file whose words are no longer wanted is dropped.
Adding(h, val) ==
    LET step[i \in 0..Len(h)] ==
            IF i = 0 THEN [val |-> val, new |-> [op |-> "=", val |-> val], drop |-> {}]
            ELSE LET was == step[i - 1]
                     e   == h[i]
                     cut == Cut(was.val, e.line.val)
                 IN  IF e.line.name[2] = ":remove" \/ ~Applicable(e) THEN was
                     ELSE [val  |-> cut, new |-> [op |-> "+=", val |-> cut],
                           drop |-> IF cut = was.val /\ e.file = "bb" /\ e.line.name[2] # ""
                                    THEN was.drop \cup {e.line.name} ELSE was.drop]
    IN  step[Len(h)]

RecipeSets(h) == \E i \in DOMAIN h : h[i].file = "bb" /\ IsSet(h[i])

\* The values patch_recipe hands to patch_recipe_file for file f.
NewsFor(fs, f, req) ==
    LET mine   == {v \in DOMAIN req : FileFor(fs, req, v) = f}
        Hist(v) == Simplified(History(fs, v))
        adds   == {v \in mine : f = "bb" /\ v \in ListVars /\ ~RecipeSets(Hist(v))}
        drops  == UNION {Adding(Hist(v), req[v]).drop : v \in adds}
    IN  [n \in {Plain(v) : v \in mine} \cup drops |->
            IF n \in drops THEN [op |-> None, val |-> <<>>]
            ELSE IF n[1] \in adds THEN Adding(Hist(n[1]), req[n[1]]).new
            ELSE [op |-> "=", val |-> req[n[1]]]]

\* The files set the variable in a way the last call is made for: keyword lines
\* are taken into account only for a list variable the recipe file does not
\* assign, :remove and =. never; a += in the recipe file that adds to a value
\* from elsewhere is lost (IncHandled); what a class gives cannot be taken away.
Handled(fs, req, v) ==
    LET h  == History(fs, v)
        kw == {i \in DOMAIN h : h[i].line.name[2] # "" /\ Applicable(h[i])}
        setters == {i \in DOMAIN h : h[i].line.name[2] = ""}
    IN  /\ \A i \in kw : h[i].line.name[2] = ":append" /\ h[i].file = "bb"
        /\ kw # {} => v \in ListVars
        /\ FileFor(fs, req, v) = "bb" /\ v \in ListVars /\ ~RecipeSets(h) =>
               /\ \A i \in setters : h[i].file # "bb"
               /\ \A i \in DOMAIN h : h[i].line.name[2] # ":append" =>
                      ToSet(h[i].line.val) \subseteq ToSet(req[v])
        /\ RecipeSets(h) => kw = {}

-----------------------------------------------------------------------------
Init == /\ files \in Recipes /\ before = files
        /\ asked = None /\ again = FALSE /\ calls = 0

PatchRecipe(req) ==
    /\ calls < MaxCalls
    /\ calls' = calls + 1
    /\ before' = files
    /\ files' = [f \in DOMAIN files |->
                    IF NewsFor(files, f, req) = <<>> THEN files[f]
                    ELSE PatchLines(files[f], NewsFor(files, f, req))]
    /\ asked' = req
    /\ again' = (asked # None /\ asked = req /\ \A v \in DOMAIN req : Handled(before, req, v))

Next == \E req \in Requests : PatchRecipe(req)

Spec == Init /\ [][Next]_vars

-----------------------------------------------------------------------------
(* What BitBake makes of the files.                                        *)

Value(fs, v) ==
    LET h == SelectSeq(History(fs, v), Applicable)
        val[i \in 0..Len(h)] ==
            IF i = 0 THEN None
            ELSE LET l    == h[i].line
                     was  == val[i - 1]
                     have == IF was = None THEN <<>> ELSE was
                 IN  CASE l.name[2] # ""                  -> was
                       [] l.name[2] = "" /\ l.op = "="    -> l.val
                       [] l.name[2] = "" /\ l.op = "?="   -> IF was = None THEN l.val ELSE was
                       [] l.name[2] = "" /\ l.op = "+="   -> have \o l.val
                       [] l.name[2] = "" /\ l.op = "=+"   -> l.val \o have
        Words(kw) == FlattenSeq([i \in DOMAIN h |-> IF h[i].line.name[2] = kw THEN h[i].line.val ELSE <<>>])
        all == (IF val[Len(h)] = None THEN <<>> ELSE val[Len(h)]) \o Words(":append")
    IN  SelectSeq(all, LAMBDA w : w \notin ToSet(Words(":remove")))

Same(a, b) == Len(a) = Len(b) /\ ToSet(a) = ToSet(b)

\* patch_recipe gives every variable the value that was asked for, whichever of
\* its lines set it and in whichever file: no line is left that adds to the new
\* value or overrides it.
PatchTakes ==
    asked # None => \A v \in DOMAIN asked : Handled(before, asked, v) =>
        Same(Value(files, v), asked[v])

\* A comment that leads a line still leads it after the edit, or leads nothing:
\* no new variable comes between them, except right after a file's own header.
CommentsLead ==
    \A f \in {"inc", "bb"} : \A i \in 2..(Len(files[f]) - 1) :
        LET c == files[f][i]
            l == files[f][i + 1]
        IN  /\ c.name = Comment /\ l.name # Comment
            /\ \E j \in 1..(i - 1) : files[f][j].name # Comment
            => \E j \in 1..(Len(before[f])) :
                   /\ before[f][j] = c
                   /\ j < Len(before[f]) => before[f][j + 1].name = l.name
                                             \/ before[f][j + 1].name \in {Plain(v) : v \in DOMAIN asked}
                                             \/ before[f][j + 1].name[2] # ""

\* The same request made a second time changes nothing.
PatchSettles ==
    again /\ (\A v \in DOMAIN asked : Handled(before, asked, v)) => files = before

\* What a caller relies on when it edits a recipe.
RecipeEdited == PatchTakes /\ CommentsLead /\ PatchSettles

\* patch_recipe's docstring: it "handles inc files if used by the recipe".
IncHandled ==
    asked # None => \A v \in DOMAIN asked : Same(Value(files, v), asked[v])
=============================================================================
