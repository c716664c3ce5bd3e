---------------------------- MODULE OePermsCases ----------------------------
(***************************************************************************)
(* Packages with files in /var/run and /var/lock, some with /run or with   *)
(* links of their own, and tables of up to two or three lines.             *)
(***************************************************************************)
EXTENDS Naturals, Sequences, TLC, SequencesExt

CONSTANT None

Folder == [kind |-> "dir", mode |-> "0700", owner |-> "me", abs |-> FALSE, target |-> <<>>]
File == [Folder EXCEPT !.kind = "file", !.mode = "0600"]
To(isAbs, names) == [Folder EXCEPT !.kind = "link", !.abs = isAbs, !.target = names]

Var == <<"var">>
VarRun == <<"var", "run">>
VarLock == <<"var", "lock">>
Run == <<"run">>

Base == Var :> Folder @@ VarLock :> Folder @@ <<"var", "lock", "l">> :> File

\* /var/run as a directory or a link, /run there or not.
AtRun == {VarRun :> Folder @@ <<"var", "run", "f">> :> File,
          VarRun :> Folder @@ <<"var", "run", "d">> :> Folder @@ <<"var", "run", "d", "f">> :> File,
          VarRun :> Folder @@ <<"var", "run", "s">> :> To(FALSE, <<"..", "lock">>),
          VarRun :> To(TRUE, Run),
          VarRun :> To(FALSE, <<"..", "run">>) @@ Run :> Folder @@ <<"run", "f">> :> File,
          Run :> Folder @@ <<"run", "f">> :> File @@ VarRun :> Folder,
          Run :> To(TRUE, <<"srv">>) @@ VarRun :> Folder,
          Run :> File @@ VarRun :> Folder}

AllPackages == {Base @@ x : x \in AtRun}

LineOf(dir, m, w, fm) == [kind |-> "dir", path |-> dir, mode |-> m, owner |-> "root", walk |-> w,
                          fmode |-> fm, fowner |-> None]
LinkOf(from, isAbs, names) == [kind |-> "link", path |-> from, abs |-> isAbs, target |-> names]

AllLines == {LineOf(Var, "0755", TRUE, "0644"), LineOf(VarRun, "0711", TRUE, None),
             LineOf(<<"var", "run", "d">>, "0750", FALSE, None), LineOf(Run, None, TRUE, "0640"),
             LinkOf(VarRun, TRUE, Run), LinkOf(VarRun, FALSE, <<"..", "run">>),
             LinkOf(VarLock, TRUE, <<"run", "lock">>), LinkOf(VarLock, FALSE, <<"lock", "sub">>),
             LinkOf(VarLock, FALSE, <<"run">>),
             LinkOf(Var, TRUE, <<"x", "var">>), [kind |-> "bad"]}

\* Two lines of any kind, or three that are a walk, a link and a mode in any order.
Few == {LineOf(Var, "0755", TRUE, "0644"), LineOf(<<"var", "run", "d">>, "0750", FALSE, None),
        LinkOf(VarRun, TRUE, Run), LinkOf(VarLock, TRUE, <<"run", "lock">>)}
AllTables == BoundedSeq(AllLines, 2) \cup [1..3 -> Few]
AllDefaults == <<Var, Run>>

\* Sorted as Python sorts the texts: "." before "/" before letters.
Order == <<[abs |-> FALSE, target |-> <<"..", "run">>], [abs |-> TRUE, target |-> Run],
           [abs |-> TRUE, target |-> <<"run", "lock">>], [abs |-> TRUE, target |-> <<"x", "var">>],
           [abs |-> FALSE, target |-> <<"lock", "sub">>], [abs |-> FALSE, target |-> <<"run">>]>>

Host == {Run, <<"srv">>}
=============================================================================
