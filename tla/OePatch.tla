------------------------------ MODULE OePatch -------------------------------
(***************************************************************************)
(* do_patch: the patches of a recipe are chosen, and applied one by one    *)
(* with patch, git or quilt, by a task that may be interrupted at any step *)
(* and is then run again over the tree it left (lib/oe/patch.py; the loop  *)
(* over the patches is patch.bbclass's patch_do_patch).                    *)
(*                                                                         *)
(* The source tree is the sequence of patches that are applied to it: a    *)
(* patch applies when it is not in yet, and comes off from the top.  git   *)
(* am takes a "clean" patch; "plain" is one without a mail's header, which *)
(* git apply and patch take; "fuzzy" fits only with patch's fuzz, "broken" *)
(* not at all.                                                             *)
(***************************************************************************)
EXTENDS Naturals, Sequences, FiniteSets, FiniteSetsExt, SequencesExt

CONSTANTS
    Urls,        \* sequences of SRC_URI entries to choose from
    Facts,       \* what should_apply compares with: [date, rev, within, ver] of the
                 \* recipe; within are the texts that occur in the revision
    PatchTools,  \* subset of {"patch", "git", "quilt"}
    Resolvers,   \* subset of {"noop", "user"}
    MaxStarts,   \* bound: how often the task is started
    Nil

Kinds == {"clean", "plain", "fuzzy", "broken"}

\* A patch is known by the name its file, its line of the series and its note go
\* by: no two entries of SRC_URI have the same.
ASSUME UrlsAssumption ==
    \A us \in Urls : /\ us \in Seq({us[i] : i \in DOMAIN us})
                     /\ \A i, j \in DOMAIN us : us[i].name = us[j].name => i = j
                     /\ \A i \in DOMAIN us : us[i].kind \in Kinds /\ us[i].name # Nil
ASSUME PatchToolsAssumption == PatchTools \subseteq {"patch", "git", "quilt"}
ASSUME NilAssumption == Nil \notin Nat

VARIABLES
    urls,      \* SRC_URI
    method,    \* PATCHTOOL
    resolver,  \* PATCHRESOLVE
    applied,   \* the source tree; what a patch left of itself where it did not fit
               \* counts as "rejects"
    series,    \* patches/series
    copies,    \* patches/<name> files
    stack,     \* quilt's own list of applied patches
    commits,   \* git: [patch, notes], notes a sequence of patch names
    head,      \* git: what is applied in HEAD's tree
    amdir,     \* git: an am is in progress
    left,      \* what Clean has still to take off
    patches,   \* self.patches
    current,   \* self._current, counted from 0, or Nil
    turn,      \* number of the patch the loop is at
    phase,     \* the step within it
    starts,    \* times the task was started
    torn,      \* the task died between two writes that belong together
    verdict    \* "running", "done", "failed" or "dead"

treeVars == <<applied, series, copies, stack, commits, head, amdir>>
memVars == <<left, patches, current, turn, phase>>
patchVars == <<urls, method, resolver, treeVars, memVars, starts, torn, verdict>>

-----------------------------------------------------------------------------
(* Which patches apply.                                                    *)

\* should_apply: every limit the URL states must hold; Nil is no limit, and a
\* recipe without a revision meets those on revisions.  rev and notrev are
\* looked for in the text of the revision, minrev and maxrev compared with it.
ShouldApply(u) ==
    /\ u.maxdate # Nil => u.maxdate >= Facts.date
    /\ u.mindate # Nil => u.mindate <= Facts.date
    /\ Facts.rev # Nil => /\ u.minrev # Nil => Facts.rev >= u.minrev
                          /\ u.maxrev # Nil => Facts.rev <= u.maxrev
                          /\ u.rev # Nil => u.rev \in Facts.within
                          /\ u.notrev # Nil => u.notrev \notin Facts.within
    /\ u.maxver # Nil => Facts.ver <= u.maxver
    /\ u.minver # Nil => Facts.ver >= u.minver

\* patch_path: a directory is no patch; apply=yes or no decides, else the
\* extension.
IsPatch(u) == ~u.dir /\ IF u.apply # Nil THEN u.apply = "yes" ELSE u.ext

\* src_patches: the loop over SRC_URI, after each of its entries.
Chosen(us) ==
    LET chosen[n \in 0..Len(us)] ==
            IF n = 0 THEN <<>>
            ELSE IF IsPatch(us[n]) /\ ShouldApply(us[n]) THEN Append(chosen[n - 1], us[n])
            ELSE chosen[n - 1]
    IN  chosen

SrcPatches(us) == Chosen(us)[Len(us)]

ToApply == LET ps == SrcPatches(urls) IN [i \in DOMAIN ps |-> ps[i].name]
Kind(p) == (CHOOSE u \in {urls[i] : i \in DOMAIN urls} : u.name = p).kind
In(p, s) == \E i \in DOMAIN s : s[i] = p
InTree(p) == In(p, applied)
TopIs(p) == applied # <<>> /\ Last(applied) = p

\* _need_dirty_check: a git entry of which only a subdirectory is unpacked.  Its
\* HEAD has the whole repository, in which the patches have no place.
NeedDirtyCheck == \E i \in DOMAIN urls : urls[i].subpath
Whole == <<Nil>>

-----------------------------------------------------------------------------
PatchInit ==
    /\ urls \in Urls /\ method \in PatchTools /\ resolver \in Resolvers
    /\ applied = <<>> /\ series = <<>> /\ copies = {} /\ stack = <<>>
    /\ commits = <<>> /\ amdir = FALSE
    /\ head \in {<<>>} \cup (IF method = "git" /\ NeedDirtyCheck THEN {Whole} ELSE {})
    /\ left = <<>> /\ patches = <<>> /\ current = Nil /\ turn = 0 /\ phase = "off"
    /\ starts = 0 /\ torn = FALSE /\ verdict = "dead"

\* quilt: lines of the series, but no patch that quilt knows to be applied.
StaleSeries == stack = <<>> /\ series # <<>>

\* The task starts: a new patch set, then Clean().
Begin ==
    /\ verdict \in {"dead", "failed"} /\ starts < MaxStarts
    /\ starts' = starts + 1 /\ verdict' = "running"
    /\ left' = series /\ patches' = <<>> /\ current' = Nil /\ turn' = 1
    /\ phase' = IF SrcPatches(urls) = <<>> THEN "end" ELSE "clean"
    /\ torn' = IF method = "quilt" THEN StaleSeries ELSE torn
    /\ UNCHANGED <<urls, method, resolver, treeVars>>

\* PatchTree.Clean -> Pop(all) -> _removePatchFile(True) -> patch -R, the last
\* of the series first; the series is rewritten when all are off.  A name
\* without a file feeds patch nothing, and that succeeds.
CleanStep ==
    /\ verdict = "running" /\ phase = "clean" /\ method = "patch" /\ left # <<>>
    /\ LET p == Last(left)
       IN  IF p \notin copies \/ TopIs(p)
           THEN /\ applied' = IF p \notin copies THEN applied ELSE Front(applied)
                /\ left' = Front(left) /\ UNCHANGED <<phase, verdict>>
           ELSE /\ verdict' = "failed" /\ phase' = "off" /\ UNCHANGED <<applied, left>>
    /\ UNCHANGED <<urls, method, resolver, series, copies, stack, commits, head, amdir,
                   patches, current, turn, starts, torn>>

CleanEnd ==
    /\ verdict = "running" /\ phase = "clean" /\ method # "quilt" /\ left = <<>>
    /\ series' = <<>> /\ phase' = "import"
    /\ UNCHANGED <<urls, method, resolver, applied, copies, stack, commits, head, amdir,
                   left, patches, current, turn, starts, torn, verdict>>

\* QuiltTree.Clean: quilt pop -a -f, and the series is removed; with nothing to
\* pop quilt fails, the error is dropped, and the series stays.
CleanQuilt ==
    /\ verdict = "running" /\ phase = "clean" /\ method = "quilt"
    /\ IF stack = <<>> THEN UNCHANGED <<applied, stack, series>>
       ELSE applied' = <<>> /\ stack' = <<>> /\ series' = <<>>
    /\ phase' = "import"
    /\ UNCHANGED <<urls, method, resolver, copies, commits, head, amdir, left, patches, current, turn, starts, torn, verdict>>

\* Where Import puts the patch (counted from 0): QuiltTree's place is right for
\* the first patch only, its list is not what quilt goes by.
ImportPlace(cur) ==
    IF method = "quilt" THEN (IF cur = Nil THEN 0 ELSE cur)
    ELSE IF cur = Nil THEN 0 ELSE cur + 1

Import ==
    /\ verdict = "running" /\ phase = "import"
    /\ IF turn > Len(ToApply)
       THEN phase' = "end" /\ UNCHANGED <<patches, series, copies>>
       ELSE /\ patches' = InsertAt(patches, Min({ImportPlace(current), Len(patches)}) + 1, ToApply[turn])
            /\ phase' = "push"
            /\ IF method = "quilt"
               THEN series' = Append(series, ToApply[turn]) /\ copies' = copies \cup {ToApply[turn]}
               ELSE UNCHANGED <<series, copies>>
    /\ UNCHANGED <<urls, method, resolver, applied, stack, commits, head, amdir, left, current, turn, starts, torn, verdict>>

Pushed == patches[(IF current = Nil THEN 0 ELSE current + 1) + 1]
Advance == current' = (IF current = Nil THEN 0 ELSE current + 1) /\ turn' = turn + 1 /\ phase' = "import"

\* PatchTree._applypatch: the dry run, and the patch itself.
DryRunOk(p) == ~InTree(p) /\ Kind(p) # "broken" /\ applied # Whole
ApplyPatch ==
    /\ verdict = "running" /\ phase = (IF method = "patch" THEN "push" ELSE "fallback") /\ method # "quilt"
    /\ IF DryRunOk(Pushed)
       THEN applied' = Append(applied, Pushed) /\ phase' = "record" /\ verdict' = verdict
       ELSE applied' = applied /\ phase' = "off" /\ verdict' = "failed"
    /\ UNCHANGED <<urls, method, resolver, series, copies, stack, commits, head, amdir, left, patches, current, turn, starts, torn>>

\* _appendPatchFile: the series first, then the copy of the patch.
RecordSeries ==
    /\ verdict = "running" /\ phase = "record"
    /\ series' = Append(series, Pushed) /\ phase' = "copy"
    /\ UNCHANGED <<urls, method, resolver, applied, copies, stack, commits, head, amdir, left, patches, current, turn, starts, torn, verdict>>

RecordCopy ==
    /\ verdict = "running" /\ phase = "copy"
    /\ copies' = copies \cup {Pushed}
    /\ IF method = "git" THEN phase' = "commit" /\ UNCHANGED <<current, turn>> ELSE Advance
    /\ UNCHANGED <<urls, method, resolver, applied, series, stack, commits, head, amdir, left, patches, starts, torn, verdict>>

-----------------------------------------------------------------------------
(* GitApplyTree._applypatch                                                *)

\* The tree is looked at first where a git entry has a subpath: what differs from
\* HEAD, or the files under patches unless they are ignored, sends the patch
\* straight to patch.
GitDirty ==
    /\ verdict = "running" /\ phase = "push" /\ method = "git"
    /\ NeedDirtyCheck /\ (applied # head \/ copies # {} \/ series # <<>>)
    /\ phase' = "fallback"
    /\ UNCHANGED <<urls, method, resolver, treeVars, left, patches, current, turn, starts, torn, verdict>>

\* git am -3: a patch that HEAD has already is skipped with success, if git can
\* tell.  An am in progress, files of the patch that differ from HEAD, or a patch
\* that is no mail or does not fit make it fail; a mail that does not fit leaves
\* the am in progress and conflicts in the tree.
AmFits(p) == ~amdir /\ Kind(p) = "clean" /\ (InTree(p) => In(p, head))

GitAm ==
    /\ verdict = "running" /\ phase = "push" /\ method = "git"
    /\ ~(NeedDirtyCheck /\ applied # head)
    /\ \/ /\ AmFits(Pushed) /\ phase' = "note" /\ UNCHANGED amdir
          /\ IF InTree(Pushed) THEN UNCHANGED <<applied, commits, head>>
             ELSE /\ applied' = Append(applied, Pushed) /\ head' = Append(head, Pushed)
                  /\ commits' = Append(commits, [patch |-> Pushed, notes |-> <<>>])
       \/ /\ ~AmFits(Pushed) \/ InTree(Pushed)
          /\ phase' = "abort" /\ UNCHANGED <<commits, head>>
          /\ \/ UNCHANGED <<applied, amdir>>
             \/ /\ Kind(Pushed) # "plain" /\ amdir' = TRUE
                /\ applied' \in {applied, Append(applied, "rejects")}
    /\ UNCHANGED <<urls, method, resolver, series, copies, stack, left, patches, current, turn, starts, torn, verdict>>

\* Mutant: the failed am is not aborted.
AfterAbort_Kept(am) == am

\* am --abort, reset --hard, clean -f.
AfterAbort(am) == FALSE

GitAbort ==
    /\ verdict = "running" /\ phase = "abort"
    /\ amdir' = AfterAbort(amdir) /\ applied' = head /\ phase' = "apply"
    /\ UNCHANGED <<urls, method, resolver, series, copies, stack, commits, head, left, patches, current, turn, starts, torn, verdict>>

\* git apply, which takes the tree as it is: its --git-dir is no repository.  It
\* makes no entry in the series.  Else patch is tried.
GitApplyFits(p) == Kind(p) \in {"clean", "plain"}

GitApply ==
    /\ verdict = "running" /\ phase = "apply"
    /\ IF GitApplyFits(Pushed) /\ DryRunOk(Pushed)
       THEN applied' = Append(applied, Pushed) /\ phase' = "commit"
       ELSE phase' = "fallback" /\ UNCHANGED applied
    /\ UNCHANGED <<urls, method, resolver, series, copies, stack, commits, head, amdir, left, patches, current, turn, starts, torn, verdict>>

\* _commitpatch: everything but the patches directory is committed; git commits
\* nothing when nothing differs from HEAD.
GitCommit ==
    /\ verdict = "running" /\ phase = "commit"
    /\ IF applied = head
       THEN verdict' = "failed" /\ phase' = "off" /\ UNCHANGED <<commits, head>>
       ELSE /\ commits' = Append(commits, [patch |-> Pushed, notes |-> <<>>])
            /\ head' = applied /\ phase' = "note" /\ UNCHANGED verdict
    /\ UNCHANGED <<urls, method, resolver, applied, series, copies, stack, amdir, left, patches, current, turn, starts, torn>>

\* addNote(HEAD, original_patch) in the finally clause.
GitNote ==
    /\ verdict = "running" /\ phase = "note"
    /\ commits' = IF commits = <<>> THEN commits
                  ELSE [commits EXCEPT ![Len(commits)].notes = Append(@, Pushed)]
    /\ Advance
    /\ UNCHANGED <<urls, method, resolver, applied, series, copies, stack, head, amdir, left, patches, starts, torn, verdict>>

\* The same for a patch that Clean takes off.  am has no -R: what it left is
\* aborted, the tree reset, and git apply -R and patch -R are tried.  (With a
\* subpath the tree is looked at here as well, by a git status that runs in
\* another directory and may say anything.)
GitRevert ==
    /\ verdict = "running" /\ phase = "clean" /\ method = "git" /\ left # <<>>
    /\ \/ NeedDirtyCheck /\ phase' = "unpatch" /\ UNCHANGED <<applied, amdir>>
       \/ phase' = "unapply" /\ amdir' = AfterAbort(amdir) /\ applied' = head
    /\ UNCHANGED <<urls, method, resolver, series, copies, stack, commits, head, left, patches, current, turn, starts, torn, verdict>>

GitUnapply ==
    /\ verdict = "running" /\ phase = "unapply"
    /\ LET p == Last(left)
       IN  IF p \in copies /\ TopIs(p) /\ GitApplyFits(p)
           THEN applied' = Front(applied) /\ phase' = "uncommit"
           ELSE phase' = "unpatch" /\ UNCHANGED applied
    /\ UNCHANGED <<urls, method, resolver, series, copies, stack, commits, head, amdir, left, patches, current, turn, starts, torn, verdict>>

GitUnpatch ==
    /\ verdict = "running" /\ phase = "unpatch"
    /\ LET p == Last(left)
       IN  IF p \notin copies \/ TopIs(p)
           THEN /\ applied' = IF p \notin copies THEN applied ELSE Front(applied)
                /\ phase' = "uncommit" /\ UNCHANGED verdict
           ELSE verdict' = "failed" /\ phase' = "off" /\ UNCHANGED applied
    /\ UNCHANGED <<urls, method, resolver, series, copies, stack, commits, head, amdir, left, patches, current, turn, starts, torn>>

\* The commit needs the patch's file for its message.
GitUncommit ==
    /\ verdict = "running" /\ phase = "uncommit"
    /\ IF applied = head \/ Last(left) \notin copies
       THEN verdict' = "failed" /\ phase' = "off" /\ UNCHANGED <<commits, head>>
       ELSE /\ commits' = Append(commits, [patch |-> Nil, notes |-> <<>>])
            /\ head' = applied /\ phase' = "unnote" /\ UNCHANGED verdict
    /\ UNCHANGED <<urls, method, resolver, applied, series, copies, stack, amdir, left, patches, current, turn, starts, torn>>

GitUnnote ==
    /\ verdict = "running" /\ phase = "unnote"
    /\ commits' = [commits EXCEPT ![Len(commits)].notes = Append(@, Last(left))]
    /\ left' = Front(left) /\ phase' = "clean"
    /\ UNCHANGED <<urls, method, resolver, applied, series, copies, stack, head, amdir, patches, current, turn, starts, torn, verdict>>

\* extractPatches: a commit is written to the file its last note names.
Extracted(name) == {i \in DOMAIN commits : commits[i].notes # <<>> /\ Last(commits[i].notes) = name}

-----------------------------------------------------------------------------
(* QuiltTree.Push and the resolvers                                        *)

\* quilt push takes the patch after the top one of the series.
QuiltNext == series[Len(stack) + 1]

\* A name that the series has twice is refused, or pushed once more.
Repeats == \E i, j \in DOMAIN series : i # j /\ series[i] = series[j]

\* NOOPResolver, and UserResolver's first try.
QuiltPush ==
    /\ verdict = "running" /\ phase = "push" /\ method = "quilt"
    /\ \/ /\ Kind(QuiltNext) # "broken" /\ ~InTree(QuiltNext)
          /\ applied' = Append(applied, QuiltNext) /\ stack' = Append(stack, QuiltNext)
          /\ Advance /\ verdict' = verdict
       \/ /\ Kind(QuiltNext) = "broken" \/ InTree(QuiltNext) \/ Repeats
          /\ UNCHANGED <<applied, stack, current, turn>>
          /\ IF resolver = "noop" THEN verdict' = "failed" /\ phase' = "off"
             ELSE verdict' = verdict /\ phase' = "shell"
    /\ UNCHANGED <<urls, method, resolver, series, copies, commits, head, amdir, left, patches, starts, torn>>

\* UserResolver: a shell in which quilt push -f is run (in vain if quilt refuses
\* the series), and the user refreshes the patch or just leaves.  The patch set
\* made afterwards to compare with has no patches before its first Import, so
\* that nothing is compared; the loop goes on with the old one.
UserShell ==
    /\ verdict = "running" /\ phase = "shell"
    /\ \/ /\ \E fixed \in BOOLEAN :
                applied' = Append(applied, IF fixed THEN QuiltNext ELSE "rejects")
          /\ stack' = Append(stack, QuiltNext)
       \/ Repeats /\ UNCHANGED <<applied, stack>>
    /\ turn' = turn + 1 /\ phase' = "import"
    /\ UNCHANGED <<urls, method, resolver, series, copies, commits, head, amdir, left, patches, current, starts, torn, verdict>>

End ==
    /\ verdict = "running" /\ phase = "end"
    /\ verdict' = "done" /\ phase' = "off"
    /\ UNCHANGED <<urls, method, resolver, treeVars, left, patches, current, turn, starts, torn>>

\* bitbake is interrupted: what is on disk stays.
Torn ==
    \/ phase \in {"record", "copy", "abort", "commit", "note", "unapply", "unpatch", "uncommit", "unnote"}
    \/ phase = "clean" /\ left # series
Interrupt ==
    /\ verdict = "running" /\ starts < MaxStarts
    /\ verdict' = "dead" /\ torn' = (torn \/ Torn)
    /\ UNCHANGED <<urls, method, resolver, treeVars, memVars, starts>>

PatchNext ==
    \/ Begin \/ CleanStep \/ CleanEnd \/ CleanQuilt \/ Import
    \/ ApplyPatch \/ RecordSeries \/ RecordCopy
    \/ GitDirty \/ GitAm \/ GitAbort \/ GitApply \/ GitCommit \/ GitNote
    \/ GitRevert \/ GitUnapply \/ GitUnpatch \/ GitUncommit \/ GitUnnote
    \/ QuiltPush \/ UserShell \/ End \/ Interrupt

PatchSpec == PatchInit /\ [][PatchNext]_patchVars
-----------------------------------------------------------------------------
(* What patching promises.                                                 *)

\* With a subpath, patch goes on in a tree that an interrupted am left.
Sound == method = "git" /\ NeedDirtyCheck => ~torn

\* A task that ends well leaves exactly the wanted patches in the tree, in
\* SRC_URI's order, each once, however often it was interrupted or failed
\* before; with git, a tree patched in one go has one commit for each patch,
\* from which devtool gets it back under its own name, and no am is under way.
\* (With git and a subpath, unless it died between two writes.)
DoneMeansPatched ==
    verdict = "done" /\ resolver = "noop" /\ Sound =>
        /\ applied = ToApply
        /\ ~amdir
        /\ method = "git" /\ starts = 1 =>
              /\ [i \in DOMAIN commits |-> commits[i].patch] = ToApply
              /\ \A i \in DOMAIN commits : Extracted(ToApply[i]) = {i}

\* Starting again always helps unless a patch cannot be applied or the task
\* died between two writes that belong together: patch and its line of the
\* series, or quilt's line of the series and its patch.  Clean then takes the
\* tree back to where Import can begin.  (Not with git: Clean knows only the
\* patches the fallback recorded, and finds those that am and git apply put on
\* top of them.)
FailsForCause ==
    verdict = "failed" /\ (method = "git" => starts = 1) =>
        torn \/ \E i \in DOMAIN ToApply : Kind(ToApply[i]) = "broken"

\* The verdict of the task, in both directions: "done" and "failed" are earned.
VerdictEarned == DoneMeansPatched /\ FailsForCause
=============================================================================
