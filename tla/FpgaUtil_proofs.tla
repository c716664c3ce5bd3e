--------------------------- MODULE FpgaUtil_proofs ---------------------------
(***************************************************************************)
(* Proofs about FpgaUtil, for any number of invocations, any command       *)
(* lines, files and directories: what each leaves in shared places, that   *)
(* an overlay stays until it is removed, and that the messages are true.   *)
(***************************************************************************)
EXTENDS FpgaUtil, WellFoundedInduction, TLAPS

------------------------------------------------------------------------------
(* The options.  The getopt loop is a recursive function; that it is one,   *)
(* and what holds after every option, follows from the least number         *)
(* principle.                                                               *)

\* A set of naturals has a least member.
LEMMA Least ==
  ASSUME NEW T, T \subseteq Nat, T # {}
  PROVE  \E n \in T : \A m \in T : n <= m
<1> DEFINE R == {ss \in Nat \X Nat : ss[1] < ss[2]}
<1>1. IsWellFoundedOn(R, Nat)
  BY NatLessThanWellFounded DEF OpToRel
<1>2. PICK x \in T : \A y \in T : <<y, x>> \notin R
  <2> HIDE DEF R
  <2> QED
    BY <1>1, WFMin
<1>3. \A y \in T : ~(y < x)
  BY <1>2
<1>4. QED
  BY <1>3

\* l holds main's locals after each of the first n options of c.
Loop(c, l, n) ==
  l = [i \in 0..n |-> IF i = 0 THEN NoArgs ELSE Option(c, l[i - 1], c[i])]

LEMMA LoopRuns ==
  ASSUME NEW c, NEW n \in Nat
  PROVE  \E l : Loop(c, l, n)
<1> DEFINE T == {m \in Nat : ~ \E l : Loop(c, l, m)}
<1>1. SUFFICES ASSUME T # {} PROVE FALSE
  OBVIOUS
<1>2. PICK m \in T : \A k \in T : m <= k
  <2> HIDE DEF T
  <2>1. T \subseteq Nat
    BY DEF T
  <2> QED
    BY <1>1, <2>1, Least
<1>3. m # 0
  <2> DEFINE l == [i \in 0..0 |-> NoArgs]
  <2>1. Loop(c, l, 0)
    BY DEF Loop
  <2>2. QED
    BY <2>1
<1>4. PICK l : Loop(c, l, m - 1)
  BY <1>2, <1>3
<1> DEFINE k == [i \in 0..m |-> IF i = m THEN Option(c, l[m - 1], c[m]) ELSE l[i]]
<1>5. Loop(c, k, m)
  <2>1. k = [i \in 0..m |-> IF i = 0 THEN NoArgs ELSE Option(c, k[i - 1], c[i])]
    <3>1. ASSUME NEW i \in 0..m
          PROVE  k[i] = IF i = 0 THEN NoArgs ELSE Option(c, k[i - 1], c[i])
      BY <1>2, <1>3, <1>4 DEF Loop
    <3>2. QED
      BY <3>1
  <2>2. QED
    BY <2>1 DEF Loop
<1>6. QED
  BY <1>5

LEMMA ParsedLoops ==
  ASSUME NEW c, Len(c) \in Nat
  PROVE  Loop(c, Parsed(c), Len(c))
<1>1. Parsed(c) = CHOOSE l : Loop(c, l, Len(c))
  BY DEF Parsed, Loop
<1>2. QED
  BY <1>1, LoopRuns

\* a has the fields of main's locals.
Locals(a) ==
  a = [flow |-> a.flow, bin |-> a.bin, overlay |-> a.overlay,
       region |-> a.region, key |-> a.key, name |-> a.name, flags |-> a.flags,
       sflags |-> a.sflags, rm |-> a.rm, bad |-> a.bad]

\* What the first n options of c leave in the locals, unless one is refused:
\* the files of the flow exist, and the region is one that was named.
ReadOptions(c, n, a) ==
  /\ Locals(a)
  /\ ~a.bad =>
       /\ a.bin \in Files \cup {""}
       /\ a.overlay \in Files \cup {""}
       /\ a.flow = "OVERLAY" => a.overlay \in Files
       /\ a.flow = "FPGA_SYSFS" => a.bin \in Files
       /\ \/ a.region = "" /\ \A k \in 1..n : c[k].o # "-n"
          \/ \E k \in 1..n : c[k].o = "-n" /\ a.region = c[k].arg

LEMMA NoneRead == ASSUME NEW c PROVE ReadOptions(c, 0, NoArgs)
BY DEF ReadOptions, Locals, NoArgs

LEMMA OneRead ==
  ASSUME NEW c, NEW n \in Nat, NEW a, ReadOptions(c, n, a)
  PROVE  ReadOptions(c, n + 1, Option(c, a, c[n + 1]))
<1> DEFINE o == c[n + 1]
           b == Option(c, a, o)
<1>1. Locals(a)
  BY DEF ReadOptions
<1>2. 1..(n + 1) = 1..n \cup {n + 1}
  OBVIOUS
<1>3. CASE a.bad
  <2>1. b = a
    BY <1>3 DEF Option
  <2>2. QED
    BY <1>1, <1>3, <2>1 DEF ReadOptions
<1>4. CASE ~a.bad /\ o.o = "-o"
  <2>1. b = [a EXCEPT !.overlay = o.arg, !.bad = o.arg \notin Files,
                      !.flow = "OVERLAY"]
    BY <1>4 DEF Option
  <2>2. /\ Locals(b)
        /\ b.overlay = o.arg /\ b.bad = (o.arg \notin Files) /\ b.flow = "OVERLAY"
        /\ b.bin = a.bin /\ b.region = a.region
    BY <1>1, <2>1 DEF Locals
  <2>3. ReadOptions(c, n + 1, b)
    <3> HIDE DEF b
    <3>1. ~b.bad => b.overlay \in Files /\ b.bin \in Files \cup {""}
      BY <1>4, <2>2 DEF ReadOptions
    <3>2. \/ b.region = "" /\ \A k \in 1..(n + 1) : c[k].o # "-n"
          \/ \E k \in 1..(n + 1) : c[k].o = "-n" /\ b.region = c[k].arg
      BY <1>2, <1>4, <2>2 DEF ReadOptions
    <3>3. QED
      BY <2>2, <3>1, <3>2 DEF ReadOptions
  <2>4. QED
    BY <2>3
<1>5. CASE ~a.bad /\ o.o = "-b"
  <2>1. b = [a EXCEPT !.bin = o.arg, !.bad = o.arg \notin Files,
                      !.flow = IF @ = "OVERLAY" THEN @ ELSE "FPGA_SYSFS"]
    BY <1>5 DEF Option
  <2>2. /\ Locals(b)
        /\ b.bin = o.arg /\ b.bad = (o.arg \notin Files)
        /\ b.overlay = a.overlay /\ b.region = a.region
        /\ b.flow = "OVERLAY" => a.flow = "OVERLAY"
    BY <1>1, <2>1 DEF Locals
  <2>3. ReadOptions(c, n + 1, b)
    <3> HIDE DEF b
    <3>1. /\ ~b.bad => /\ b.bin \in Files /\ b.overlay \in Files \cup {""}
                       /\ b.flow = "OVERLAY" => b.overlay \in Files
      BY <1>5, <2>2 DEF ReadOptions
    <3>2. \/ b.region = "" /\ \A k \in 1..(n + 1) : c[k].o # "-n"
          \/ \E k \in 1..(n + 1) : c[k].o = "-n" /\ b.region = c[k].arg
      BY <1>2, <1>5, <2>2 DEF ReadOptions
    <3>3. QED
      BY <2>2, <3>1, <3>2 DEF ReadOptions
  <2>4. QED
    BY <2>3
<1>6. CASE ~a.bad /\ o.o = "-n"
  <2>1. b = [a EXCEPT !.region = o.arg]
    BY <1>6 DEF Option
  <2>2. QED
    BY <1>1, <1>2, <1>6, <2>1 DEF ReadOptions, Locals
<1>7. CASE ~a.bad /\ o.o \notin {"-o", "-b", "-n"}
  <2>1. /\ Locals(b)
        /\ ~b.bad => /\ b.flow \in {a.flow, "READBACK"}
                     /\ b.bin = a.bin /\ b.overlay = a.overlay
                     /\ b.region = a.region
    <3>1. CASE o.o = "-k" \/ o.o = "-R"
      BY <1>1, <1>7, <3>1 DEF Option, Locals
    <3>2. CASE o.o = "-r"
      BY <1>1, <1>7, <3>2 DEF Option, Locals
    <3>3. CASE o.o = "-f"
      BY <1>1, <1>7, <3>3 DEF Option, Locals
    <3>4. CASE o.o = "-s"
      BY <1>1, <1>7, <3>4 DEF Option, Locals
    <3>5. CASE o.o \in {"-p", "-t"}
      BY <1>1, <1>7, <3>5 DEF Option, Locals
    <3>6. CASE o.o \notin {"-k", "-R", "-r", "-f", "-s", "-p", "-t"}
      BY <1>1, <1>7, <3>6 DEF Option, Locals
    <3>7. QED
      BY <3>1, <3>2, <3>3, <3>4, <3>5, <3>6
  <2>2. QED
    BY <1>2, <1>7, <2>1 DEF ReadOptions
<1>8. QED
  BY <1>3, <1>4, <1>5, <1>6, <1>7

LEMMA AllRead ==
  ASSUME NEW c \in Commands, c # <<>>
  PROVE  ReadOptions(c, Len(c), Parse(c))
<1>1. Len(c) \in Nat
  <2>1. c \in Seq([o : STRING, arg : STRING])
    BY CommandsAssumption
  <2>2. QED
    BY <2>1
<1> DEFINE l == Parsed(c)
           T == {n \in 0..Len(c) : ~ReadOptions(c, n, l[n])}
<1>2. SUFFICES ASSUME T # {} PROVE FALSE
  BY <1>1 DEF Parse
<1>3. Loop(c, l, Len(c))
  BY <1>1, ParsedLoops
<1>4. PICK n \in T : \A m \in T : n <= m
  <2>1. T \subseteq Nat
    BY <1>1
  <2> HIDE DEF T
  <2> QED
    BY <1>2, <2>1, Least
<1>5. n # 0
  BY <1>1, <1>3, <1>4, NoneRead DEF Loop
<1>6. n - 1 \in 0..Len(c) /\ ReadOptions(c, n - 1, l[n - 1])
  BY <1>1, <1>4, <1>5
<1>7. l[n] = Option(c, l[n - 1], c[n])
  BY <1>1, <1>3, <1>4, <1>5 DEF Loop
<1>8. ReadOptions(c, n, l[n])
  <2>1. n = (n - 1) + 1 /\ n - 1 \in Nat
    BY <1>1, <1>4, <1>5
  <2>2. QED
    BY <1>6, <1>7, <2>1, OneRead
<1>9. QED
  BY <1>4, <1>8

------------------------------------------------------------------------------
(* The inductive invariants.                                                *)

Labels == {"start", "folder", "cp bin", "cp overlay", "flags", "key", "mkdir",
           "path", "firmware", "cat path", "check path", "rm path", "rm overlay",
           "rm bin", "cat state", "check state", "rm state", "exited", "killed"}

Messages == {"none", "usage", "done", "exists", "failed", "no overlay", "success"}

Types ==
  /\ cmd \in [Jobs -> Commands] /\ cwd \in [Jobs -> Cwds]
  /\ pc \in [Jobs -> Labels] /\ main = [j \in Jobs |-> main[j]]
  /\ ret \in [Jobs -> {0, 1}] /\ state \in [Jobs -> {0, 1}]
  /\ report \in [Jobs -> Messages]
  /\ firmware \in [Names -> Files \cup {"none", "cut"}]
  /\ sysfs = [flags |-> sysfs.flags, key |-> sysfs.key]
  /\ manager \in {"unknown", "operating", "error"}
  /\ overlays \in [Regions -> Dtbos \cup {"absent", "empty"}]
  /\ stateTxt = [d \in Cwds |-> stateTxt[d]]
  /\ got = [j \in Jobs |-> got[j]]
  /\ rivals \in [Jobs -> SUBSET Jobs] /\ stale \in [Jobs -> BOOLEAN]
  /\ slips \in [Jobs -> SUBSET Labels]

OverlayLabels == {"cp overlay", "mkdir", "path", "cat path", "check path",
                  "rm path", "rm overlay"}

BinLabels == {"cp bin", "flags", "key", "firmware", "rm bin", "cat state",
              "check state", "rm state"}

PastRmPath == {"rm overlay", "rm bin", "cat state", "check state", "rm state",
               "exited", "killed"}

\* Where the locals and the place in main fit together.
Control ==
  \A j \in Jobs :
    /\ pc[j] # "start" => main[j] = Parse(cmd[j])
    /\ pc[j] # "exited" => report[j] = "none"
    /\ Running(j) => /\ cmd[j] # <<>> /\ ~main[j].bad
                     /\ Folder(main[j]) = "" => main[j].overlay = ""
    /\ Running(j) /\ pc[j] # "folder" =>
         ~main[j].rm /\ main[j].flow \in {"OVERLAY", "FPGA_SYSFS"}
    /\ pc[j] \in OverlayLabels => main[j].flow = "OVERLAY"
    /\ pc[j] = "firmware" => main[j].flow = "FPGA_SYSFS"
    /\ pc[j] \in BinLabels => main[j].bin # ""
    /\ pc[j] = "start" => slips[j] = {}
    /\ "rm path" \in slips[j] => pc[j] \in PastRmPath /\ main[j].flow = "OVERLAY"

\* Invocations that run together know of each other.
Met == \A i, j \in Jobs : i # j /\ Running(i) /\ Running(j) => i \in rivals[j]

BinOut == {"cp overlay", "flags", "key", "mkdir", "path", "firmware", "cat path",
           "check path", "rm path", "rm overlay", "rm bin", "killed"}

OverlayOut == BinOut \ {"cp overlay", "firmware", "rm bin"}

\* j is going to delete n, or was killed before, or its rm failed.
Owes(j, n) ==
  \/ /\ main[j].bin # "" /\ n = Basename[main[j].bin]
     /\ pc[j] \in BinOut \/ "rm bin" \in slips[j]
  \/ /\ main[j].flow = "OVERLAY" /\ n = Basename[main[j].overlay]
     /\ pc[j] \in OverlayOut \/ "rm overlay" \in slips[j]

CopiesOwned == \A n \in Names : firmware[n] # "none" => \E j \in Jobs : Owes(j, n)

SharedInv == Types /\ Control /\ Met /\ CopiesOwned /\ StateFileOwned

Place(j) == overlays[Folder(main[j])]

AfterVerdict == {"rm path", "rm overlay", "rm bin", "cat state", "check state", "rm state"}

\* What an invocation whose rivals are elsewhere finds in its directory and in
\* its region is what it left there, unless the command that was to leave it
\* failed.
Untouched(j) ==
  /\ /\ pc[j] \notin {"check path", "rm path", "check state", "rm state"}
     /\ "rm path" \notin slips[j]
     => stateTxt[cwd[j]] = "none"
  /\ main[j].flow = "OVERLAY" /\ "mkdir" \notin slips[j] =>
       /\ pc[j] \in {"path", "cat path", "check path"} \cup AfterVerdict =>
            Place(j) # "absent"
       /\ pc[j] = "check path" /\ "cat path" \notin slips[j] =>
            stateTxt[cwd[j]] = PathLine(Place(j))
       /\ pc[j] \in AfterVerdict /\ "cat path" \notin slips[j] =>
            (ret[j] = 0 <=> Place(j) \in Dtbos
                              /\ Basename[Place(j)] = Basename[main[j].overlay])

ApartInv == \A j \in Jobs : Running(j) /\ Apart(j) => Untouched(j)

Loaded == {"cat path", "check path"} \cup AfterVerdict

\* What an invocation on its own has asked of the kernel, and got, but for
\* what its failed commands were to do.  A -o that is no overlay may have the
\* image's name in /lib/firmware.
Served(j) ==
  /\ pc[j] \notin Loaded => got[j] = Nothing
  /\ /\ pc[j] \in {"cp overlay", "flags", "key", "mkdir", "path", "firmware"}
     /\ "cp bin" \notin slips[j]
     /\ main[j].flow = "FPGA_SYSFS" \/ main[j].overlay \in Dtbos
     => firmware[Basename[main[j].bin]] = main[j].bin
  /\ /\ pc[j] \in {"flags", "key", "mkdir", "path"}
     /\ main[j].flow = "OVERLAY" /\ "cp overlay" \notin slips[j]
     => firmware[Basename[main[j].overlay]] = main[j].overlay
  /\ pc[j] \in {"key", "mkdir", "path", "firmware"} =>
       sysfs.flags = main[j].flags \/ "flags" \in slips[j]
  /\ pc[j] \in {"mkdir", "path", "firmware"} /\ UserKey(main[j]) =>
       sysfs.key = main[j].key \/ "key" \in slips[j]
  /\ main[j].flow = "OVERLAY" =>
       /\ pc[j] \in {"cp bin", "cp overlay", "flags", "key", "mkdir"} =>
            Place(j) = "absent"
       /\ pc[j] = "path" => Place(j) = "empty" \/ "mkdir" \in slips[j]
       /\ pc[j] \in Loaded /\ "cp overlay" \notin slips[j] /\ "mkdir" \notin slips[j] =>
            /\ Place(j) \in {"empty", main[j].overlay}
            /\ Place(j) = main[j].overlay => Asked(j)
  /\ pc[j] \in Loaded =>
       /\ manager = "error" => got[j] = Nothing
       /\ /\ main[j].flow = "FPGA_SYSFS" /\ "firmware" \notin slips[j]
          /\ manager # "error"
          => Asked(j)
  /\ "rm path" \notin slips[j] /\ "cat state" \notin slips[j] =>
       /\ pc[j] = "check state" => stateTxt[cwd[j]] = manager
       /\ pc[j] = "rm state" => state[j] = StateOf(manager)

AloneInv ==
  \A j \in Jobs :
    /\ pc[j] = "start" => got[j] = Nothing
    /\ Running(j) /\ Alone(j) /\ main[j].bin # "" /\ OwnImage(j) => Served(j)

\* The properties for the invocations that are over.
ReportInv ==
  \A j \in Jobs : report[j] \in {"success", "failed"} =>
    /\ pc[j] = "exited"
    /\ Alone(j) /\ OwnImage(j) =>
         /\ report[j] = "success" /\ ~Failed(j, SuccessRests(main[j])) => Asked(j)
         /\ report[j] = "failed" /\ ~Failed(j, FailureRests) => got[j] = Nothing

------------------------------------------------------------------------------
(* What the option loop means for an invocation that runs.                  *)

LEMMA RunningLocals ==
  ASSUME Types, Control, NEW j \in Jobs, Running(j)
  PROVE  /\ main[j].bin \in Files \cup {""}
         /\ main[j].overlay \in Files \cup {""}
         /\ main[j].flow = "OVERLAY" => main[j].overlay \in Files
         /\ main[j].flow = "FPGA_SYSFS" => main[j].bin \in Files
         /\ Folder(main[j]) # "" => Folder(main[j]) \in Regions
         /\ Folder(main[j]) # "" => Folder(main[j]) \in
              IF RegionArgs(cmd[j]) = {} THEN {"full"} ELSE RegionArgs(cmd[j])
         /\ main[j].flow = "OVERLAY" => Folder(main[j]) # ""
<1> DEFINE a == main[j]
           c == cmd[j]
<1>1. c \in Commands /\ c # <<>> /\ a = Parse(c) /\ ~a.bad
  BY DEF Types, Control, Running
<1>2. ReadOptions(c, Len(c), a)
  BY <1>1, AllRead
<1>3. a.flow = "OVERLAY" => Folder(a) # ""
  BY <1>1, <1>2, NamesAssumption DEF ReadOptions, Control
<1>4. DOMAIN c = 1..Len(c)
  <2>1. c \in Seq([o : STRING, arg : STRING])
    BY <1>1, CommandsAssumption
  <2>2. QED
    BY <2>1
<1>5. CASE a.region = "" /\ \A k \in 1..Len(c) : c[k].o # "-n"
  <2>1. RegionArgs(c) = {} /\ Folder(a) \in {"full", ""}
    BY <1>4, <1>5 DEF RegionArgs, Folder
  <2>2. QED
    BY <1>1, <1>2, <1>3, <2>1 DEF ReadOptions, Regions
<1>6. CASE \E k \in 1..Len(c) : c[k].o = "-n" /\ a.region = c[k].arg
  <2>1. a.region \in RegionArgs(c) /\ a.region # ""
    BY <1>1, <1>4, <1>6, CommandsAssumption DEF RegionArgs
  <2>2. Folder(a) = a.region
    BY <2>1 DEF Folder
  <2>3. Folder(a) \in Regions
    BY <1>1, <2>1, <2>2 DEF Regions
  <2>4. QED
    BY <1>1, <1>2, <1>3, <2>1, <2>2, <2>3 DEF ReadOptions
<1>7. QED
  BY <1>1, <1>2, <1>5, <1>6 DEF ReadOptions

------------------------------------------------------------------------------
(* What a step of one invocation leaves alone.                              *)

\* A command that fails leaves its label in slips.
LEMMA StepSlips ==
  ASSUME Types, NEW j \in Jobs, Step(j) \/ Kill(j)
  PROVE  /\ slips' = slips \/ slips' = [slips EXCEPT ![j] = @ \cup {pc[j]}]
         /\ slips' \in [Jobs -> SUBSET Labels]
         /\ slips[j] \subseteq slips'[j] /\ slips'[j] \subseteq slips[j] \cup {pc[j]}
         /\ \A i \in Jobs \ {j} : slips'[i] = slips[i]
<1>1. slips' = slips \/ Slip(j)
  <2>1. CASE \/ CopyImage(j) \/ CopyOverlay(j) \/ SetFlags(j) \/ SetKey(j) \/ Mkdir(j)
             \/ WriteFirmware(j) \/ CatPath(j) \/ RmPathState(j) \/ RmOverlay(j)
             \/ RmImage(j) \/ CatState(j) \/ RmState(j)
    BY <2>1 DEF CopyImage, CopyOverlay, SetFlags, SetKey, Mkdir, WriteFirmware,
         CatPath, RmPathState, RmOverlay, RmImage, CatState, RmState, PutFile, Cat,
         RmStateTxt, TakeFile
  <2>2. CASE \/ Start(j) \/ RemoveOverlay(j) \/ CheckFolder(j) \/ WritePath(j)
             \/ fpga_overlay_check(j) \/ fpga_state(j) \/ Kill(j)
    BY <2>2 DEF Start, RemoveOverlay, CheckFolder, WritePath, fpga_overlay_check,
         fpga_state, Kill
  <2>3. QED
    BY <2>1, <2>2 DEF Step
<1>2. slips' = slips \/ slips' = [slips EXCEPT ![j] = @ \cup {pc[j]}]
  BY <1>1 DEF Slip
<1>3. QED
  BY <1>2 DEF Types

LEMMA StepFrame ==
  ASSUME Types, NEW j \in Jobs, Step(j) \/ Kill(j)
  PROVE  /\ cmd' = cmd /\ cwd' = cwd
         /\ \A i \in Jobs \ {j} :
              /\ pc'[i] = pc[i] /\ main'[i] = main[i] /\ ret'[i] = ret[i]
              /\ state'[i] = state[i] /\ report'[i] = report[i]
              /\ got'[i] = got[i] /\ stale'[i] = stale[i]
         /\ pc[j] \notin {"exited", "killed"}
         /\ pc[j] # "start" => main' = main /\ rivals' = rivals /\ stale' = stale
         /\ pc[j] = "start" => Start(j)
<1>1. CASE Start(j)
  BY <1>1 DEF Start, Types, Goto, Exit, started, kernelVars, historyVars
<1>2. CASE RemoveOverlay(j)
  BY <1>2 DEF RemoveOverlay, Types, Goto, Exit, started, kernelVars, historyVars
<1>3. CASE CheckFolder(j)
  BY <1>3 DEF CheckFolder, Types, Goto, Exit, started, kernelVars, historyVars
<1>4. CASE CopyImage(j)
  BY <1>4 DEF CopyImage, Types, Goto, Exit, started, kernelVars, historyVars, PutFile
<1>5. CASE CopyOverlay(j)
  BY <1>5 DEF CopyOverlay, Types, Goto, Exit, started, kernelVars, historyVars, PutFile
<1>6. CASE SetFlags(j)
  BY <1>6 DEF SetFlags, Types, Goto, Exit, started, kernelVars, historyVars
<1>7. CASE SetKey(j)
  BY <1>7 DEF SetKey, Types, Goto, Exit, started, kernelVars, historyVars
<1>8. CASE Mkdir(j)
  BY <1>8 DEF Mkdir, Types, Goto, Exit, started, kernelVars, historyVars
<1>9. CASE WritePath(j)
  BY <1>9 DEF WritePath, Types, Goto, Exit, started, kernelVars, historyVars, Load
<1>10. CASE WriteFirmware(j)
  BY <1>10 DEF WriteFirmware, Types, Goto, Exit, started, kernelVars, historyVars, Load
<1>11. CASE CatPath(j)
  BY <1>11 DEF CatPath, Types, Goto, Exit, started, kernelVars, historyVars, Cat
<1>12. CASE fpga_overlay_check(j)
  BY <1>12 DEF fpga_overlay_check, Types, Goto, Exit, started, kernelVars, historyVars
<1>13. CASE RmPathState(j)
  BY <1>13 DEF RmPathState, Types, Goto, Exit, started, kernelVars, historyVars, RmStateTxt
<1>14. CASE RmOverlay(j)
  BY <1>14 DEF RmOverlay, Types, Goto, Exit, started, kernelVars, historyVars, TakeFile
<1>15. CASE RmImage(j)
  BY <1>15 DEF RmImage, Types, Goto, Exit, started, kernelVars, historyVars, TakeFile
<1>16. CASE CatState(j)
  BY <1>16 DEF CatState, Types, Goto, Exit, started, kernelVars, historyVars, Cat
<1>17. CASE fpga_state(j)
  <2>1. /\ UNCHANGED <<cmd, cwd, main, ret, got, rivals, stale>>
        /\ pc[j] = "check state" /\ state' = [state EXCEPT ![j] = state'[j]]
    BY <1>17 DEF fpga_state, Types, started, kernelVars, historyVars
  <2>2. /\ pc' = [pc EXCEPT ![j] = "exited"] \/ pc' = [pc EXCEPT ![j] = "rm state"]
        /\ \/ report' = report
           \/ \E s : report' = [report EXCEPT ![j] = Message(j, s)]
    BY <1>17 DEF fpga_state, Goto, Exit
  <2>3. \A i \in Jobs \ {j} : pc'[i] = pc[i] /\ report'[i] = report[i]
    <3>1. pc \in [Jobs -> Labels] /\ report \in [Jobs -> Messages]
      BY DEF Types
    <3>2. QED
      BY <2>2, <3>1
  <2>4. QED
    BY <2>1, <2>3 DEF Types
<1>18. CASE RmState(j)
  BY <1>18 DEF RmState, Types, Goto, Exit, started, kernelVars, historyVars, RmStateTxt
<1>19. CASE Kill(j)
  BY <1>19 DEF Kill, Types, Goto, Exit, started, kernelVars, historyVars, Running
<1>20. QED
  BY <1>1, <1>2, <1>3, <1>4, <1>5, <1>6, <1>7, <1>8, <1>9, <1>10, <1>11,
     <1>12, <1>13, <1>14, <1>15, <1>16, <1>17, <1>18, <1>19 DEF Step

LEMMA TypesStep ==
  ASSUME Types, Control, NEW j \in Jobs, Step(j) \/ Kill(j)
  PROVE  Types'
<1> DEFINE Rest ==
      /\ cmd \in [Jobs -> Commands] /\ cwd \in [Jobs -> Cwds]
      /\ pc \in [Jobs -> Labels] /\ main = [i \in Jobs |-> main[i]]
      /\ ret \in [Jobs -> {0, 1}] /\ state \in [Jobs -> {0, 1}]
      /\ report \in [Jobs -> Messages]
      /\ firmware \in [Names -> Files \cup {"none", "cut"}]
      /\ sysfs = [flags |-> sysfs.flags, key |-> sysfs.key]
      /\ manager \in {"unknown", "operating", "error"}
      /\ overlays \in [Regions -> Dtbos \cup {"absent", "empty"}]
      /\ stateTxt = [d \in Cwds |-> stateTxt[d]]
      /\ got = [i \in Jobs |-> got[i]]
      /\ rivals \in [Jobs -> SUBSET Jobs] /\ stale \in [Jobs -> BOOLEAN]
<1>a. Rest /\ j \in Jobs
  BY DEF Types
<1>c. SUFFICES Rest'
  BY StepSlips DEF Types
<1>b. /\ main[j].bin # "" /\ Running(j) => main[j].bin \in Files
      /\ main[j].flow = "OVERLAY" /\ Running(j) => main[j].overlay \in Files
  BY RunningLocals
<1>1. CASE Start(j)
  <2>1. pc' \in [Jobs -> Labels] /\ report' \in [Jobs -> Messages]
    <3>1. Exit(j, "usage") \/ Goto(j, "folder")
      BY <1>1 DEF Start
    <3>2. {"exited", "folder"} \subseteq Labels /\ "usage" \in Messages
      BY DEF Labels, Messages
    <3>3. pc \in [Jobs -> Labels] /\ report \in [Jobs -> Messages]
      BY <1>a
    <3>4. QED
      BY <3>1, <3>2, <3>3 DEF Goto, Exit
  <2>2. /\ main' = [main EXCEPT ![j] = Parse(cmd[j])]
        /\ stale' = [stale EXCEPT ![j] = stateTxt[cwd[j]] # "none"]
        /\ UNCHANGED <<cmd, cwd, ret, state, firmware, sysfs, manager, overlays,
                       got, stateTxt>>
    BY <1>1 DEF Start, kernelVars
  <2>3. rivals' \in [Jobs -> SUBSET Jobs]
    BY <1>a, <1>1 DEF Start
  <2>4. QED
    BY <1>a, <2>1, <2>2, <2>3
<1>2. CASE RemoveOverlay(j)
  BY <1>a, <1>2 DEF RemoveOverlay, Goto, Exit, started, kernelVars, historyVars,
       Labels, Messages
<1>3. CASE CheckFolder(j)
  <2>1. /\ pc' \in [Jobs -> Labels] /\ report' \in [Jobs -> Messages]
    <3>1. \/ Goto(j, "cp bin") \/ Goto(j, "cp overlay")
          \/ Exit(j, "exists") \/ Exit(j, "done")
      BY <1>3 DEF CheckFolder
    <3>2. /\ {"exited", "cp bin", "cp overlay"} \subseteq Labels
          /\ {"exists", "done"} \subseteq Messages
      BY DEF Labels, Messages
    <3>3. pc \in [Jobs -> Labels] /\ report \in [Jobs -> Messages]
      BY <1>a
    <3>4. QED
      BY <3>1, <3>2, <3>3 DEF Goto, Exit
  <2>2. QED
    BY <1>a, <1>3, <2>1 DEF CheckFolder, started, kernelVars, historyVars
<1>4. CASE CopyImage(j)
  <2>1. main[j].bin \in Files
    BY <1>b, <1>4 DEF CopyImage, Running, Control, BinLabels, OverlayLabels
  <2>2. firmware' \in [Names -> Files \cup {"none", "cut"}]
    BY <1>a, <1>4, <2>1 DEF CopyImage, PutFile
  <2>3. pc' \in [Jobs -> Labels]
    BY <1>a, <1>4 DEF CopyImage, Goto, Labels
  <2>4. UNCHANGED <<cmd, cwd, main, ret, state, report, kernelVars, stateTxt, historyVars>>
    BY <1>a, <1>4 DEF CopyImage, Goto, started
  <2>5. QED
    BY <1>a, <2>2, <2>3, <2>4 DEF kernelVars, historyVars
<1>5. CASE CopyOverlay(j)
  <2>1. main[j].overlay \in Files
    BY <1>b, <1>5 DEF CopyOverlay, Running, Control, BinLabels, OverlayLabels
  <2>2. firmware' \in [Names -> Files \cup {"none", "cut"}]
    BY <1>a, <1>5, <2>1 DEF CopyOverlay, PutFile
  <2>3. pc' \in [Jobs -> Labels]
    BY <1>a, <1>5 DEF CopyOverlay, Goto, Labels
  <2>4. UNCHANGED <<cmd, cwd, main, ret, state, report, kernelVars, stateTxt, historyVars>>
    BY <1>a, <1>5 DEF CopyOverlay, Goto, started
  <2>5. QED
    BY <1>a, <2>2, <2>3, <2>4 DEF kernelVars, historyVars
<1>6. CASE SetFlags(j)
  BY <1>a, <1>6 DEF SetFlags, Goto, Exit, started, kernelVars, historyVars,
       Labels, Messages, Write
<1>7. CASE SetKey(j)
  BY <1>a, <1>7 DEF SetKey, Goto, Exit, started, kernelVars, historyVars,
       Labels, Messages, Write
<1>8. CASE Mkdir(j)
  BY <1>a, <1>8 DEF Mkdir, Goto, Exit, started, kernelVars, historyVars,
       Labels, Messages
<1>9. CASE WritePath(j)
  BY <1>a, <1>9 DEF WritePath, Goto, Exit, started, kernelVars, historyVars,
       Labels, Messages, Load
<1>10. CASE WriteFirmware(j)
  BY <1>a, <1>10 DEF WriteFirmware, Goto, Exit, started, kernelVars, historyVars,
       Labels, Messages, Load
<1>11. CASE CatPath(j)
  <2>1. stateTxt' = [d \in Cwds |-> stateTxt'[d]]
    BY <1>a, <1>11 DEF CatPath, Cat, Append1
  <2>2. /\ pc' \in [Jobs -> Labels] /\ report' = report
        /\ UNCHANGED <<started, ret, state, firmware, kernelVars, historyVars>>
    BY <1>a, <1>11 DEF CatPath, Goto, Labels
  <2>3. QED
    BY <1>a, <2>1, <2>2 DEF started, kernelVars, historyVars
<1>12. CASE fpga_overlay_check(j)
  <2>1. PICK v \in {0, 1} : /\ ret' = [ret EXCEPT ![j] = v]
                            /\ Goto(j, AfterCheck(j, v))
    <3>1. OverlayVerdicts(main[j], stateTxt[cwd[j]]) \subseteq {0, 1}
      BY DEF OverlayVerdicts
    <3>2. QED
      BY <1>12, <3>1 DEF fpga_overlay_check
  <2>2. UNCHANGED <<started, state, firmware, kernelVars, stateTxt, historyVars>>
    BY <1>a, <1>12 DEF fpga_overlay_check
  <2>3. AfterCheck(j, v) \in Labels
    BY DEF AfterCheck, Labels
  <2>4. pc' \in [Jobs -> Labels] /\ ret' \in [Jobs -> {0, 1}]
    BY <1>a, <2>1, <2>3 DEF Goto
  <2>5. QED
    BY <1>a, <2>1, <2>2, <2>4 DEF Goto, started, kernelVars, historyVars
<1>13. CASE RmPathState(j)
  BY <1>a, <1>13 DEF RmPathState, Goto, Exit, started, kernelVars, historyVars,
       Labels, Messages, RmStateTxt
<1>14. CASE RmOverlay(j)
  <2>1. pc' \in [Jobs -> Labels] /\ report' \in [Jobs -> Messages]
    <3>1. Goto(j, "rm bin") \/ Exit(j, "done")
      BY <1>14 DEF RmOverlay
    <3>2. "rm bin" \in Labels /\ "exited" \in Labels /\ "done" \in Messages
      BY DEF Labels, Messages
    <3>3. pc \in [Jobs -> Labels] /\ report \in [Jobs -> Messages]
      BY <1>a
    <3>4. QED
      BY <3>1, <3>2, <3>3 DEF Goto, Exit
  <2>2. /\ firmware' \in [Names -> Files \cup {"none", "cut"}]
        /\ UNCHANGED <<started, ret, state, kernelVars, stateTxt, historyVars>>
    BY <1>a, <1>14 DEF RmOverlay, TakeFile
  <2>3. QED
    BY <1>a, <2>1, <2>2 DEF started, kernelVars, historyVars
<1>15. CASE RmImage(j)
  BY <1>a, <1>15 DEF RmImage, Goto, Exit, started, kernelVars, historyVars,
       Labels, Messages, TakeFile
<1>16. CASE CatState(j)
  <2>1. stateTxt' = [d \in Cwds |-> stateTxt'[d]]
    BY <1>a, <1>16 DEF CatState, Cat, Append1
  <2>2. pc' \in [Jobs -> Labels]
    BY <1>a, <1>16 DEF CatState, Goto, Labels
  <2>3. UNCHANGED <<cmd, cwd, main, ret, state, report, firmware, kernelVars, historyVars>>
    BY <1>16 DEF CatState, Goto, started
  <2>4. QED
    BY <1>a, <2>1, <2>2, <2>3 DEF kernelVars, historyVars
<1>17. CASE fpga_state(j)
  <2>1. PICK v \in {0, 1} : /\ state' = [state EXCEPT ![j] = v]
                            /\ \/ Exit(j, Message(j, v))
                               \/ Goto(j, "rm state")
    BY <1>17 DEF fpga_state, StateOf
  <2>2. UNCHANGED <<cmd, cwd, main, ret, firmware, kernelVars, stateTxt, historyVars>>
    BY <1>17 DEF fpga_state, started
  <2>3. Message(j, v) \in Messages
    BY DEF Message, Messages
  <2>4. pc' \in [Jobs -> Labels] /\ report' \in [Jobs -> Messages]
    <3>1. "exited" \in Labels /\ "rm state" \in Labels
      BY DEF Labels
    <3>2. pc \in [Jobs -> Labels] /\ report \in [Jobs -> Messages]
      BY <1>a
    <3>3. CASE Exit(j, Message(j, v))
      BY <2>3, <3>1, <3>2, <3>3 DEF Exit
    <3>4. CASE Goto(j, "rm state")
      BY <3>1, <3>2, <3>4 DEF Goto
    <3>5. QED
      BY <2>1, <3>3, <3>4
  <2>5. QED
    BY <1>a, <2>1, <2>2, <2>4 DEF kernelVars, historyVars
<1>18. CASE RmState(j)
  BY <1>a, <1>18 DEF RmState, Goto, Exit, started, kernelVars, historyVars,
       Labels, Messages, RmStateTxt, Message
<1>19. CASE Kill(j)
  BY <1>a, <1>19 DEF Kill, Goto, Exit, started, kernelVars, historyVars,
       Labels, Messages, Running
<1>20. QED
  BY <1>1, <1>2, <1>3, <1>4, <1>5, <1>6, <1>7, <1>8, <1>9, <1>10, <1>11,
     <1>12, <1>13, <1>14, <1>15, <1>16, <1>17, <1>18, <1>19 DEF Step

LEMMA ControlStep ==
  ASSUME Types, Control, NEW j \in Jobs, Step(j) \/ Kill(j)
  PROVE  Control'
<1> DEFINE Fits(i, p, m, l) ==
      /\ p[i] # "start" => m[i] = Parse(cmd[i])
      /\ p[i] \notin {"start", "exited", "killed"} =>
           /\ cmd[i] # <<>> /\ ~m[i].bad
           /\ Folder(m[i]) = "" => m[i].overlay = ""
      /\ p[i] \notin {"start", "exited", "killed", "folder"} =>
           ~m[i].rm /\ m[i].flow \in {"OVERLAY", "FPGA_SYSFS"}
      /\ p[i] \in OverlayLabels => m[i].flow = "OVERLAY"
      /\ p[i] = "firmware" => m[i].flow = "FPGA_SYSFS"
      /\ p[i] \in BinLabels => m[i].bin # ""
      /\ p[i] = "start" => l[i] = {}
      /\ "rm path" \in l[i] => p[i] \in PastRmPath /\ m[i].flow = "OVERLAY"
<1>a. \A i \in Jobs : Fits(i, pc, main, slips) /\ (pc[i] # "exited" => report[i] = "none")
  BY DEF Control, Running
<1>b. /\ cmd' = cmd
      /\ \A i \in Jobs \ {j} : /\ pc'[i] = pc[i] /\ main'[i] = main[i]
                              /\ report'[i] = report[i] /\ slips'[i] = slips[i]
      /\ pc[j] # "start" => main'[j] = main[j]
      /\ slips'[j] \subseteq slips[j] \cup {pc[j]}
  BY StepFrame, StepSlips
<1>c. SUFFICES Fits(j, pc', main', slips') /\ (pc'[j] # "exited" => report'[j] = "none")
  <2>1. ASSUME NEW i \in Jobs
        PROVE  Fits(i, pc', main', slips') /\ (pc'[i] # "exited" => report'[i] = "none")
    <3>1. CASE i = j
      BY <3>1
    <3>2. CASE i # j
      <4>1. pc'[i] = pc[i] /\ main'[i] = main[i]
              /\ report'[i] = report[i] /\ slips'[i] = slips[i]
        BY <1>b, <3>2
      <4>2. QED
        BY <1>a, <4>1 DEF Running
    <3>3. QED
      BY <3>1, <3>2
  <2>2. QED
    BY <2>1, <1>b DEF Control, Running
<1>d. j \in DOMAIN pc /\ j \in DOMAIN report /\ j \in DOMAIN main
  BY DEF Types
<1>e. Running(j) => (main[j].flow = "FPGA_SYSFS" => main[j].bin # "")
  BY RunningLocals, NamesAssumption
<1>1. CASE Start(j)
  <2>2. main'[j] = Parse(cmd[j]) /\ pc'[j] \in {"folder", "exited"}
    BY <1>1, <1>d DEF Start, Goto, Exit
  <2>3. pc'[j] = "folder" =>
          /\ ~main'[j].bad /\ report' = report
          /\ Folder(main'[j]) = "" => main'[j].overlay = ""
    BY <1>1, <1>d, <2>2 DEF Start, Goto, Exit
  <2>4. ~Parse(cmd[j]).bad => cmd[j] # <<>>
    BY DEF Parse, NoArgs
  <2>5. report[j] = "none" /\ "rm path" \notin slips'[j]
    BY <1>a, <1>1 DEF Start, PastRmPath
  <2>6. QED
    BY <2>2, <2>3, <2>4, <2>5 DEF OverlayLabels, BinLabels
<1>2. CASE RemoveOverlay(j)
  <2>1. pc[j] = "folder" /\ pc'[j] = "exited"
    BY <1>d, <1>2 DEF RemoveOverlay, Exit
  <2>2. QED
    BY <1>a, <1>b, <2>1 DEF OverlayLabels, BinLabels, PastRmPath
<1>3. CASE CheckFolder(j)
  <2>1. CASE pc'[j] = "exited"
    BY <1>a, <1>b, <1>3, <2>1 DEF CheckFolder, OverlayLabels, BinLabels, PastRmPath
  <2>2. CASE pc'[j] # "exited"
    <3>1. pc[j] = "folder" /\ ~main[j].rm /\ report' = report
      BY <1>d, <1>3, <2>2 DEF CheckFolder, Goto, Exit
    <3>2. \/ pc'[j] = "cp bin" /\ main[j].bin # "" /\ main[j].flow \in {"OVERLAY", "FPGA_SYSFS"}
          \/ pc'[j] = "cp overlay" /\ main[j].flow = "OVERLAY"
      BY <1>d, <1>e, <1>3, <2>2 DEF CheckFolder, Goto, Exit, Running
    <3>3. QED
      BY <1>a, <1>b, <3>1, <3>2 DEF OverlayLabels, BinLabels, PastRmPath
  <2>3. QED
    BY <2>1, <2>2
<1>4. CASE CopyImage(j)
  <2>1. /\ pc[j] = "cp bin" /\ report' = report /\ Running(j)
        /\ pc'[j] = IF main[j].flow = "OVERLAY" THEN "cp overlay" ELSE "flags"
    BY <1>d, <1>4 DEF CopyImage, Goto, Running
  <2>2. QED
    BY <1>a, <1>b, <1>e, <2>1 DEF OverlayLabels, BinLabels, PastRmPath
<1>5. CASE CopyOverlay(j)
  <2>1. /\ pc[j] = "cp overlay" /\ report' = report /\ Running(j)
        /\ \/ main[j].bin # "" /\ pc'[j] = "flags"
           \/ pc'[j] = "mkdir"
    BY <1>d, <1>5 DEF CopyOverlay, Goto, Running
  <2>2. QED
    BY <1>a, <1>b, <1>e, <2>1 DEF OverlayLabels, BinLabels, PastRmPath
<1>6. CASE SetFlags(j)
  <2>1. /\ pc[j] = "flags" /\ report' = report
        /\ pc'[j] \in {"key", Write(main[j])}
    BY <1>6, <1>d DEF SetFlags, Goto
  <2>2. Write(main[j]) = IF main[j].flow = "OVERLAY" THEN "mkdir" ELSE "firmware"
    BY DEF Write
  <2>3. QED
    BY <1>a, <1>b, <2>1, <2>2 DEF Running, OverlayLabels, BinLabels, PastRmPath
<1>7. CASE SetKey(j)
  <2>1. /\ pc[j] = "key" /\ report' = report /\ Running(j)
        /\ pc'[j] = IF main[j].flow = "OVERLAY" THEN "mkdir" ELSE "firmware"
    BY <1>d, <1>7 DEF SetKey, Write, Goto, Running
  <2>2. QED
    BY <1>a, <1>b, <1>e, <2>1 DEF OverlayLabels, BinLabels, PastRmPath
<1>8. CASE Mkdir(j)
  <2>1. pc[j] = "mkdir" /\ report' = report /\ pc'[j] = "path"
    BY <1>d, <1>8 DEF Mkdir, Goto
  <2>2. QED
    BY <1>a, <1>b, <2>1 DEF OverlayLabels, BinLabels, PastRmPath
<1>9. CASE WritePath(j)
  <2>1. pc[j] = "path" /\ report' = report /\ pc'[j] = "cat path"
    BY <1>d, <1>9 DEF WritePath, Goto
  <2>2. QED
    BY <1>a, <1>b, <2>1 DEF OverlayLabels, BinLabels, PastRmPath
<1>10. CASE WriteFirmware(j)
  <2>1. /\ pc[j] = "firmware" /\ report' = report /\ Running(j)
        /\ pc'[j] = "rm bin"
    BY <1>d, <1>10 DEF WriteFirmware, Goto, Running
  <2>2. QED
    BY <1>a, <1>b, <1>e, <2>1 DEF OverlayLabels, BinLabels, PastRmPath
<1>11. CASE CatPath(j)
  <2>1. pc[j] = "cat path" /\ report' = report /\ pc'[j] = "check path"
    BY <1>d, <1>11 DEF CatPath, Goto
  <2>2. QED
    BY <1>a, <1>b, <2>1 DEF OverlayLabels, BinLabels, PastRmPath
<1>12. CASE fpga_overlay_check(j)
  <2>1. /\ pc[j] = "check path" /\ report' = report
        /\ pc'[j] \in {"rm path", "rm overlay"}
    BY <1>d, <1>12 DEF fpga_overlay_check, AfterCheck, Goto
  <2>2. QED
    BY <1>a, <1>b, <2>1 DEF OverlayLabels, BinLabels, PastRmPath
<1>13. CASE RmPathState(j)
  <2>1. pc[j] = "rm path" /\ report' = report /\ pc'[j] = "rm overlay"
    BY <1>d, <1>13 DEF RmPathState, Goto
  <2>2. QED
    BY <1>a, <1>b, <2>1 DEF OverlayLabels, BinLabels, PastRmPath
<1>14. CASE RmOverlay(j)
  <2>1. pc[j] = "rm overlay" /\ Running(j)
    BY <1>14 DEF RmOverlay, Running
  <2>2. \/ main[j].bin # "" /\ pc'[j] = "rm bin" /\ report' = report
        \/ pc'[j] = "exited"
    BY <1>d, <1>14 DEF RmOverlay, Goto, Exit
  <2>3. QED
    BY <1>a, <1>b, <1>e, <2>1, <2>2 DEF OverlayLabels, BinLabels, PastRmPath
<1>15. CASE RmImage(j)
  <2>1. /\ pc[j] = "rm bin" /\ report' = report
        /\ pc'[j] = "cat state"
    BY <1>d, <1>15 DEF RmImage, Goto
  <2>2. QED
    BY <1>a, <1>b, <2>1 DEF OverlayLabels, BinLabels, PastRmPath
<1>16. CASE CatState(j)
  <2>1. pc[j] = "cat state" /\ pc'[j] = "check state" /\ report' = report
    BY <1>d, <1>16 DEF CatState, Goto
  <2>2. QED
    BY <1>a, <1>b, <2>1 DEF OverlayLabels, BinLabels, PastRmPath
<1>17. CASE fpga_state(j)
  <2>1. /\ pc[j] = "check state"
        /\ pc'[j] = "exited" \/ (pc'[j] = "rm state" /\ report' = report)
    <3>1. PICK v : \/ Exit(j, Message(j, v))
                   \/ Goto(j, "rm state")
      BY <1>17 DEF fpga_state
    <3>2. pc[j] = "check state"
      BY <1>17 DEF fpga_state
    <3>3. CASE Exit(j, Message(j, v))
      <4>1. pc'[j] = "exited"
        BY <1>d, <3>3 DEF Exit
      <4>2. QED
        BY <3>2, <4>1
    <3>4. CASE Goto(j, "rm state")
      BY <1>d, <3>2, <3>4 DEF Goto
    <3>5. QED
      BY <3>1, <3>3, <3>4
  <2>2. QED
    BY <1>a, <1>b, <2>1 DEF OverlayLabels, BinLabels, PastRmPath
<1>18. CASE RmState(j)
  BY <1>a, <1>b, <1>d, <1>e, <1>18 DEF RmState, Goto, Exit, Running,
       OverlayLabels, BinLabels, PastRmPath
<1>19. CASE Kill(j)
  BY <1>a, <1>b, <1>d, <1>e, <1>19 DEF Kill, Goto, Exit, Running,
       OverlayLabels, BinLabels, PastRmPath
<1>20. QED
  BY <1>1, <1>2, <1>3, <1>4, <1>5, <1>6, <1>7, <1>8, <1>9, <1>10, <1>11,
     <1>12, <1>13, <1>14, <1>15, <1>16, <1>17, <1>18, <1>19 DEF Step

LEMMA MetStep ==
  ASSUME Types, Met, NEW j \in Jobs, Step(j) \/ Kill(j)
  PROVE  Met'
<1> SUFFICES ASSUME NEW i \in Jobs, NEW k \in Jobs, i # k, Running(i)', Running(k)'
             PROVE  i \in rivals'[k]
  BY DEF Met
<1>1. \A l \in Jobs : l # j => pc'[l] = pc[l]
  BY StepFrame
<1>2. CASE pc[j] # "start"
  <2>1. rivals' = rivals /\ Running(j)
    BY <1>2, StepFrame DEF Running
  <2>2. Running(i) /\ Running(k)
    BY <1>1, <2>1 DEF Running
  <2>3. QED
    BY <2>1, <2>2 DEF Met
<1>3. CASE Start(j)
  <2> DEFINE others == {l \in Jobs \ {j} : Running(l)}
  <2>1. rivals'[k] = IF k = j THEN others
                     ELSE IF k \in others THEN rivals[k] \cup {j} ELSE rivals[k]
    BY <1>3 DEF Start
  <2>2. CASE k = j
    BY <1>1, <2>1, <2>2 DEF Running
  <2>3. CASE k # j /\ i = j
    BY <1>1, <2>1, <2>3 DEF Running
  <2>4. CASE k # j /\ i # j
    <3>1. Running(i) /\ Running(k)
      BY <1>1, <2>4 DEF Running
    <3>2. QED
      BY <2>1, <2>4, <3>1 DEF Met
  <2>5. QED
    BY <2>2, <2>3, <2>4
<1>4. QED
  BY <1>2, <1>3, StepFrame

\* Nobody but the one who made it loses a copy, or leaves one behind.
LEMMA CopiesStep ==
  ASSUME Types, Control, CopiesOwned, NEW j \in Jobs, Step(j) \/ Kill(j)
  PROVE  CopiesOwned'
<1> SUFFICES ASSUME NEW n \in Names, firmware'[n] # "none"
             PROVE  \E i \in Jobs : Owes(i, n)'
  BY DEF CopiesOwned
<1>a. ASSUME NEW i \in Jobs \ {j}, Owes(i, n) PROVE Owes(i, n)'
  <2>1. pc'[i] = pc[i] /\ main'[i] = main[i] /\ slips'[i] = slips[i]
    BY StepFrame, StepSlips
  <2>2. QED
    BY <1>a, <2>1 DEF Owes
<1>b. /\ slips[j] \subseteq slips'[j] /\ j \in DOMAIN pc
      /\ pc[j] # "start" => main' = main
      /\ slips'[j] = slips[j] \/ slips'[j] = slips[j] \cup {pc[j]}
  BY StepFrame, StepSlips DEF Types
<1>1. ASSUME firmware[n] # "none", Owes(j, n) => Owes(j, n)'
      PROVE  \E i \in Jobs : Owes(i, n)'
  BY <1>1, <1>a DEF CopiesOwned
<1>2. CASE CopyImage(j)
  <2>1. pc[j] = "cp bin" /\ pc'[j] \in {"cp overlay", "flags"} /\ main[j].bin # ""
    BY <1>b, <1>2 DEF CopyImage, Goto, Control, BinLabels
  <2>2. CASE n = Basename[main[j].bin]
    BY <1>b, <2>1, <2>2 DEF Owes, BinOut
  <2>3. CASE n # Basename[main[j].bin]
    <3>1. firmware'[n] = firmware[n]
      BY <1>2, <2>3 DEF CopyImage, PutFile, Types
    <3>2. Owes(j, n) => Owes(j, n)'
      BY <1>b, <2>1 DEF Owes, BinOut, OverlayOut
    <3>3. QED
      BY <1>1, <3>1, <3>2
  <2>4. QED
    BY <2>2, <2>3
<1>3. CASE CopyOverlay(j)
  <2>1. /\ pc[j] = "cp overlay" /\ pc'[j] \in {"mkdir", "flags"}
        /\ main[j].flow = "OVERLAY"
    BY <1>b, <1>3 DEF CopyOverlay, Goto, Control, OverlayLabels
  <2>2. CASE n = Basename[main[j].overlay]
    BY <1>b, <2>1, <2>2 DEF Owes, BinOut, OverlayOut
  <2>3. CASE n # Basename[main[j].overlay]
    <3>1. firmware'[n] = firmware[n]
      BY <1>3, <2>3 DEF CopyOverlay, PutFile, Types
    <3>2. Owes(j, n) => Owes(j, n)'
      BY <1>b, <2>1 DEF Owes, BinOut, OverlayOut
    <3>3. QED
      BY <1>1, <3>1, <3>2
  <2>4. QED
    BY <2>2, <2>3
<1>4. CASE RmOverlay(j)
  <2>1. /\ pc[j] = "rm overlay" /\ main[j].flow = "OVERLAY"
        /\ main[j].bin # "" => pc'[j] = "rm bin"
    BY <1>b, <1>4 DEF RmOverlay, Goto, Control, OverlayLabels
  <2>2. CASE n = Basename[main[j].overlay]
    <3>1. "rm overlay" \in slips'[j]
      BY <1>4, <2>1, <2>2 DEF RmOverlay, TakeFile, Slip, Types
    <3>2. QED
      BY <1>b, <2>1, <2>2, <3>1 DEF Owes
  <2>3. CASE n # Basename[main[j].overlay]
    <3>1. firmware'[n] = firmware[n]
      BY <1>4, <2>3 DEF RmOverlay, TakeFile, Types
    <3>2. Owes(j, n) => Owes(j, n)'
      BY <1>b, <2>1, <2>3 DEF Owes, BinOut
    <3>3. QED
      BY <1>1, <3>1, <3>2
  <2>4. QED
    BY <2>2, <2>3
<1>5. CASE RmImage(j)
  <2>1. pc[j] = "rm bin" /\ main[j].bin # ""
    BY <1>5 DEF RmImage, Control, BinLabels
  <2>2. CASE n = Basename[main[j].bin]
    <3>1. "rm bin" \in slips'[j]
      BY <1>5, <2>1, <2>2 DEF RmImage, TakeFile, Removed, Slip, Types
    <3>2. QED
      BY <1>b, <2>1, <2>2, <3>1 DEF Owes
  <2>3. CASE n # Basename[main[j].bin]
    <3>1. firmware'[n] = firmware[n]
      BY <1>5, <2>3 DEF RmImage, TakeFile, Removed, Types
    <3>2. Owes(j, n) => Owes(j, n)'
      BY <1>b, <2>1, <2>3 DEF Owes, BinOut, OverlayOut
    <3>3. QED
      BY <1>1, <3>1, <3>2
  <2>4. QED
    BY <2>2, <2>3
<1>6. CASE ~CopyImage(j) /\ ~CopyOverlay(j) /\ ~RmOverlay(j) /\ ~RmImage(j)
  <2>1. firmware' = firmware
    BY <1>6 DEF Step, Start, RemoveOverlay, CheckFolder, SetFlags, SetKey, Mkdir,
         WritePath, WriteFirmware, CatPath, fpga_overlay_check, RmPathState,
         CatState, fpga_state, RmState, Kill, kernelVars
  <2>2. CASE pc[j] = "start"
    BY <1>1, <2>1, <2>2 DEF Owes, Control, BinOut, OverlayOut
  <2>3. CASE pc[j] # "start"
    <3>1. /\ pc[j] \in BinOut => pc'[j] \in BinOut
          /\ pc[j] \in OverlayOut /\ main[j].flow = "OVERLAY" => pc'[j] \in OverlayOut
      <4>1. CASE SetFlags(j) \/ SetKey(j)
        <5>1. pc'[j] \in {"key", Write(main[j])}
          BY <1>b, <4>1 DEF SetFlags, SetKey, Goto
        <5>2. pc'[j] \in {"key", "mkdir", "firmware"}
          BY <5>1 DEF Write
        <5>3. pc'[j] = "firmware" => main[j].flow # "OVERLAY"
          BY <5>1 DEF Write
        <5>4. QED
          BY <5>2, <5>3 DEF BinOut, OverlayOut
      <4>2. CASE Mkdir(j) \/ WritePath(j) \/ WriteFirmware(j) \/ CatPath(j)
        <5>1. \/ pc[j] = "firmware" /\ pc'[j] = "rm bin"
              \/ pc'[j] \in {"path", "cat path", "check path"}
          BY <1>b, <4>2 DEF Mkdir, WritePath, WriteFirmware, CatPath, Goto
        <5>2. QED
          BY <5>1 DEF BinOut, OverlayOut
      <4>3. CASE fpga_overlay_check(j) \/ RmPathState(j) \/ Kill(j)
        BY <1>b, <4>3 DEF fpga_overlay_check, RmPathState, AfterCheck, Kill, Goto,
             BinOut, OverlayOut
      <4>4. CASE RemoveOverlay(j) \/ CheckFolder(j) \/ CatState(j) \/ fpga_state(j)
                 \/ RmState(j)
        BY <4>4 DEF RemoveOverlay, CheckFolder, CatState, fpga_state, RmState,
             BinOut, OverlayOut
      <4>5. QED
        BY <1>6, <2>3, <4>1, <4>2, <4>3, <4>4 DEF Step, Start
    <3>2. Owes(j, n) => Owes(j, n)'
      BY <1>b, <2>3, <3>1 DEF Owes
    <3>3. QED
      BY <1>1, <2>1, <3>2
  <2>4. QED
    BY <2>2, <2>3
<1>7. QED
  BY <1>2, <1>3, <1>4, <1>5, <1>6

\* Nobody but the one who made it loses a state.txt.
LEMMA StateFileStep ==
  ASSUME Types, StateFileOwned, NEW j \in Jobs, Step(j) \/ Kill(j)
  PROVE  StateFileOwned'
<1> DEFINE Owners == {"check path", "rm path", "check state", "rm state", "killed"}
           Kept(k) == pc[k] \in Owners \/ "rm path" \in slips[k] \/ "rm state" \in slips[k]
<1> SUFFICES ASSUME NEW d \in Cwds, stateTxt'[d] # "none"
             PROVE  \E k \in Jobs : cwd'[k] = d /\ Kept(k)'
  BY DEF StateFileOwned, Failed
<1>a. /\ cwd' = cwd /\ j \in DOMAIN pc
      /\ \A k \in Jobs \ {j} : Kept(k) => Kept(k)'
      /\ slips[j] \subseteq slips'[j]
  <2>1. \A k \in Jobs \ {j} : pc'[k] = pc[k] /\ slips'[k] = slips[k]
    BY StepFrame, StepSlips
  <2>2. QED
    BY <2>1, StepFrame, StepSlips DEF Types
<1>1. ASSUME stateTxt'[d] = stateTxt[d], d # cwd[j] \/ pc[j] \notin Owners
      PROVE  \E k \in Jobs : cwd'[k] = d /\ Kept(k)'
  <2>1. PICK k \in Jobs : cwd[k] = d /\ Kept(k)
    <3>1. stateTxt[d] # "none"
      BY <1>1
    <3>2. PICK k \in Jobs : /\ cwd[k] = d
                            /\ pc[k] \in Owners \/ Failed(k, {"rm path", "rm state"})
      BY <3>1 DEF StateFileOwned
    <3>3. QED
      BY <3>2 DEF Failed
  <2>2. CASE k = j
    BY <1>1, <1>a, <2>1, <2>2
  <2>3. CASE k # j
    BY <1>a, <2>1, <2>3
  <2>4. QED
    BY <2>2, <2>3
<1>2. CASE Kept(j)' /\ d = cwd[j]
  BY <1>2, <1>a
<1>3. CASE CatPath(j) \/ CatState(j)
  <2>1. pc'[j] \in Owners
    BY <1>3 DEF CatPath, CatState, Goto, Types
  <2>2. d # cwd[j] => stateTxt'[d] = stateTxt[d]
    BY <1>3 DEF CatPath, CatState, Cat, Append1, Types
  <2>3. QED
    BY <1>1, <1>2, <2>1, <2>2
<1>4. CASE RmPathState(j) \/ RmState(j)
  <2>1. CASE d = cwd[j]
    <3>1. pc[j] \in {"rm path", "rm state"} /\ pc[j] \in slips'[j]
      BY <1>4, <2>1 DEF RmPathState, RmState, RmStateTxt, Slip, Types
    <3>2. QED
      BY <1>2, <2>1, <3>1
  <2>2. CASE d # cwd[j]
    <3>1. stateTxt'[d] = stateTxt[d]
      BY <1>4, <2>2 DEF RmPathState, RmState, RmStateTxt, Types
    <3>2. QED
      BY <1>1, <2>2, <3>1
  <2>3. QED
    BY <2>1, <2>2
<1>5. CASE fpga_overlay_check(j) \/ fpga_state(j)
  <2>1. stateTxt' = stateTxt
    BY <1>5 DEF fpga_overlay_check, fpga_state
  <2>2. d = cwd[j] => pc'[j] \in Owners
    BY <1>5, <2>1 DEF fpga_overlay_check, fpga_state, Goto, AfterCheck, Types
  <2>3. QED
    BY <1>1, <1>2, <2>1, <2>2
<1>6. CASE Kill(j)
  <2>1. stateTxt' = stateTxt /\ pc'[j] \in Owners
    BY <1>6 DEF Kill, Types
  <2>2. QED
    BY <1>1, <1>2, <2>1
<1>7. CASE \/ Start(j) \/ RemoveOverlay(j) \/ CheckFolder(j) \/ CopyImage(j)
           \/ CopyOverlay(j) \/ SetFlags(j) \/ SetKey(j) \/ Mkdir(j) \/ WritePath(j)
           \/ WriteFirmware(j) \/ RmOverlay(j) \/ RmImage(j)
  <2>1. stateTxt' = stateTxt /\ pc[j] \notin Owners
    BY <1>7 DEF Start, RemoveOverlay, CheckFolder, CopyImage, CopyOverlay, SetFlags,
         SetKey, Mkdir, WritePath, WriteFirmware, RmOverlay, RmImage
  <2>2. QED
    BY <1>1, <2>1
<1>8. QED
  BY <1>3, <1>4, <1>5, <1>6, <1>7 DEF Step

LEMMA SharedInit == Init => SharedInv
<1> SUFFICES ASSUME Init PROVE SharedInv
  OBVIOUS
<1>1. Types
  BY DEF Init, Types, Labels, Messages
<1>2. Control
  BY DEF Init, Control, Running, OverlayLabels, BinLabels
<1>3. Met /\ CopiesOwned /\ StateFileOwned
  BY DEF Init, Met, Running, CopiesOwned, StateFileOwned, Names
<1>4. QED
  BY <1>1, <1>2, <1>3 DEF SharedInv

LEMMA SharedStep == SharedInv /\ [Next]_vars => SharedInv'
<1> SUFFICES ASSUME SharedInv, [Next]_vars PROVE SharedInv'
  OBVIOUS
<1>1. CASE UNCHANGED vars
  <2>1. Types'
    BY <1>1 DEF vars, SharedInv, Types
  <2>2. Control' /\ Met'
    BY <1>1 DEF vars, SharedInv, Control, Running, Met
  <2>3. CopiesOwned'
    <3>1. \A j \in Jobs, n \in Names : Owes(j, n)' <=> Owes(j, n)
      BY <1>1 DEF vars, Owes
    <3>2. QED
      BY <1>1, <3>1 DEF vars, SharedInv, CopiesOwned
  <2>4. StateFileOwned'
    <3>1. pc' = pc /\ cwd' = cwd /\ stateTxt' = stateTxt /\ slips' = slips
      BY <1>1 DEF vars
    <3>2. \A j \in Jobs : Failed(j, {"rm path", "rm state"})'
                            <=> Failed(j, {"rm path", "rm state"})
      BY <3>1 DEF Failed
    <3>3. QED
      BY <3>1, <3>2 DEF SharedInv, StateFileOwned
  <2>5. QED
    BY <2>1, <2>2, <2>3, <2>4 DEF SharedInv
<1>2. ASSUME NEW j \in Jobs, Step(j) \/ Kill(j) PROVE SharedInv'
  BY <1>2, TypesStep, ControlStep, MetStep, CopiesStep, StateFileStep DEF SharedInv
<1>3. QED
  BY <1>1, <1>2 DEF Next

\* What is kept at every step of any number of invocations, killed at any
\* place: how the locals, the copies and the files of each are tied together.
THEOREM SharedInvariant == Spec => []SharedInv
BY SharedInit, SharedStep, PTL DEF Spec

\* No image, overlay or state.txt is left behind by invocations that end
\* (fpgautil.c removes all it makes), however many run and interleave.
THEOREM NothingLeftBehind == Spec => []NothingLeft
<1>1. SharedInv => NothingLeft
  BY DEF SharedInv, CopiesOwned, Owes, BinOut, OverlayOut, NothingLeft,
       FirmwareCleaned, Failed
<1>2. QED
  BY <1>1, SharedInvariant, PTL

\* An overlay that is applied leaves the live tree by a -R for its region
\* only: no load, and no other command, takes it out.
THEOREM OverlaysStay == Spec => OverlayKept
<1> DEFINE Kept == \A r \in Regions : overlays[r] \in Dtbos /\ overlays'[r] # overlays[r] =>
              \E j \in Jobs : /\ pc'[j] # pc[j]
                              /\ main[j].rm
                              /\ IF RegionArgs(cmd[j]) = {} THEN r = "full"
                                 ELSE r \in RegionArgs(cmd[j])
<1>1. SharedInv /\ [Next]_vars => [Kept]_vars
  <2> SUFFICES ASSUME SharedInv, Next, NEW r \in Regions, overlays[r] \in Dtbos,
                      overlays'[r] # overlays[r]
               PROVE  \E j \in Jobs : /\ pc'[j] # pc[j]
                                      /\ main[j].rm
                                      /\ IF RegionArgs(cmd[j]) = {} THEN r = "full"
                                         ELSE r \in RegionArgs(cmd[j])
    OBVIOUS
  <2>1. overlays[r] \notin {"absent", "empty"} /\ Types /\ Control
    BY NamesAssumption DEF Files, SharedInv
  <2>2. PICK j \in Jobs : Step(j) \/ Kill(j)
    BY DEF Next
  <2>3. CASE RemoveOverlay(j)
    <3>1. r = Folder(main[j]) /\ main[j].rm /\ Running(j) /\ pc'[j] # pc[j]
      BY <2>1, <2>3 DEF RemoveOverlay, Exit, Types, Running
    <3>2. r # ""
      BY <3>1, CommandsAssumption DEF Regions, RegionArgs
    <3>3. QED
      BY <2>1, <3>1, <3>2, RunningLocals
  <2>4. CASE Mkdir(j) \/ WritePath(j)
    BY <2>1, <2>4 DEF Mkdir, WritePath, Exists, Types, Load
  <2>5. CASE ~RemoveOverlay(j) /\ ~Mkdir(j) /\ ~WritePath(j)
    <3>1. overlays' = overlays
      BY <2>2, <2>5 DEF Step, Start, CheckFolder, CopyImage, CopyOverlay, SetFlags,
           SetKey, WriteFirmware, CatPath, fpga_overlay_check, RmPathState,
           RmOverlay, RmImage, CatState, fpga_state, RmState, Kill, kernelVars
    <3>2. QED
      BY <3>1
  <2>6. QED
    BY <2>2, <2>3, <2>4, <2>5
<1>2. QED
  BY <1>1, SharedInvariant, PTL DEF Spec, OverlayKept

------------------------------------------------------------------------------
(* Invocations whose rivals are elsewhere.                                  *)

\* A step of j writes in its own directory and its own region only.
LEMMA StepWrites ==
  ASSUME Types, NEW j \in Jobs, Step(j) \/ Kill(j)
  PROVE  /\ \A d \in Cwds \ {cwd[j]} : stateTxt'[d] = stateTxt[d]
         /\ \A r \in Regions \ {Folder(main[j])} : overlays'[r] = overlays[r]
         /\ pc[j] = "start" => stateTxt' = stateTxt /\ overlays' = overlays
<1>1. CASE CatPath(j) \/ CatState(j) \/ RmPathState(j) \/ RmState(j)
  <2>1. overlays' = overlays /\ pc[j] # "start"
    BY <1>1 DEF CatPath, CatState, RmPathState, RmState, kernelVars
  <2>2. \A d \in Cwds \ {cwd[j]} : stateTxt'[d] = stateTxt[d]
    BY <1>1 DEF CatPath, CatState, RmPathState, RmState, Cat, RmStateTxt, Append1, Types
  <2>3. QED
    BY <2>1, <2>2
<1>2. CASE RemoveOverlay(j) \/ Mkdir(j) \/ WritePath(j)
  BY <1>2 DEF RemoveOverlay, Mkdir, WritePath, Exists, Types
<1>3. CASE \/ Start(j) \/ CheckFolder(j) \/ CopyImage(j) \/ CopyOverlay(j)
           \/ SetFlags(j) \/ SetKey(j) \/ WriteFirmware(j) \/ fpga_overlay_check(j)
           \/ RmOverlay(j) \/ RmImage(j) \/ fpga_state(j) \/ Kill(j)
  <2>1. stateTxt' = stateTxt /\ overlays' = overlays
    BY <1>3 DEF Start, CheckFolder, CopyImage, CopyOverlay, SetFlags, SetKey,
         WriteFirmware, fpga_overlay_check, RmOverlay, RmImage, fpga_state, Kill,
         kernelVars
  <2>2. QED
    BY <2>1
<1>4. QED
  BY <1>1, <1>2, <1>3 DEF Step

\* What the step of a rival leaves to k.
LEMMA RivalFrame ==
  ASSUME SharedInv, NEW j \in Jobs, Step(j) \/ Kill(j),
         NEW k \in Jobs \ {j}, Running(k), Apart(k)'
  PROVE  /\ Apart(k)
         /\ stateTxt'[cwd[k]] = stateTxt[cwd[k]]
         /\ main[k].flow = "OVERLAY" => Place(k)' = Place(k)
<1>1. Types /\ Control /\ Met
  BY DEF SharedInv
<1>2. /\ cmd' = cmd /\ cwd' = cwd /\ main'[k] = main[k] /\ stale'[k] = stale[k]
      /\ pc[j] # "start" => rivals' = rivals /\ Running(j)
      /\ pc[j] = "start" => Start(j)
  BY <1>1, StepFrame DEF Running
<1>3. rivals[k] \subseteq rivals'[k]
  BY <1>1, <1>2 DEF Start
<1>4. Apart(k)
  BY <1>2, <1>3 DEF Apart
<1>5. CASE pc[j] = "start"
  BY <1>1, <1>2, <1>4, <1>5, StepWrites DEF Place
<1>6. CASE pc[j] # "start"
  <2>1. j \in rivals[k] /\ main[j] = Parse(cmd[j])
    BY <1>1, <1>2, <1>6 DEF Met, Control
  <2>2. cwd[j] # cwd[k] /\ Folder(main[j]) # Folder(main[k])
    BY <1>4, <2>1 DEF Apart
  <2>3. cwd[k] \in Cwds
    BY <1>1 DEF Types
  <2>4. main[k].flow = "OVERLAY" => Folder(main[k]) \in Regions
    BY <1>1, RunningLocals
  <2>5. QED
    BY <1>1, <1>2, <1>4, <2>2, <2>3, <2>4, StepWrites DEF Place
<1>7. QED
  BY <1>5, <1>6

\* What j's own step makes of what it finds there.
LEMMA OwnUntouched ==
  ASSUME SharedInv, Control', NEW j \in Jobs, Step(j) \/ Kill(j), Running(j)', Apart(j)',
         Running(j) => Untouched(j)
  PROVE  Untouched(j)'
<1>1. /\ Types /\ Control
      /\ pc[j] # "start" => Running(j) /\ Untouched(j) /\ main' = main /\ cwd' = cwd
      /\ cwd[j] \in Cwds /\ j \in DOMAIN pc
      /\ slips[j] \subseteq slips'[j] /\ slips'[j] \subseteq slips[j] \cup {pc[j]}
  BY StepFrame, StepSlips DEF SharedInv, Types, Running
<1>2. Running(j) /\ main[j].flow = "OVERLAY" => Folder(main[j]) \in Regions
  BY <1>1, RunningLocals
<1>3. CASE Start(j)
  <2>1. pc'[j] = "folder" /\ stateTxt' = stateTxt /\ cwd' = cwd
    BY <1>1, <1>3 DEF Start, Goto, Exit, Types, Running, started
  <2>2. stateTxt[cwd[j]] = "none"
    BY <1>1, <1>3, <2>1 DEF Start, Apart, Types
  <2>3. QED
    BY <2>1, <2>2 DEF Untouched, AfterVerdict
<1>4. CASE RemoveOverlay(j) \/ Kill(j)
  BY <1>1, <1>4 DEF RemoveOverlay, Kill, Exit, Types, Running
<1>5. CASE CheckFolder(j) \/ CopyImage(j) \/ CopyOverlay(j) \/ SetFlags(j) \/ SetKey(j)
  <2>1. /\ stateTxt' = stateTxt
        /\ pc[j] \in {"folder", "cp bin", "cp overlay", "flags", "key"}
    BY <1>5 DEF CheckFolder, CopyImage, CopyOverlay, SetFlags, SetKey, kernelVars
  <2>2. pc'[j] \in {"cp bin", "cp overlay", "flags", "key", "mkdir", "firmware"}
    BY <1>1, <1>5 DEF CheckFolder, CopyImage, CopyOverlay, SetFlags, SetKey, Goto,
         Exit, Write, Running
  <2>3. QED
    BY <1>1, <2>1, <2>2 DEF Untouched, AfterVerdict
<1>6. CASE Mkdir(j)
  <2>1. /\ pc[j] = "mkdir" /\ pc'[j] = "path" /\ stateTxt' = stateTxt
        /\ main[j].flow = "OVERLAY"
    BY <1>1, <1>6 DEF Mkdir, Goto, Control, OverlayLabels
  <2>2. "mkdir" \notin slips'[j] => Place(j)' # "absent"
    BY <1>1, <1>2, <1>6, <2>1 DEF Mkdir, Place, Exists, Slip, Types
  <2>3. QED
    BY <1>1, <2>1, <2>2 DEF Untouched, AfterVerdict
<1>7. CASE WritePath(j)
  <2>1. /\ pc[j] = "path" /\ pc'[j] = "cat path" /\ stateTxt' = stateTxt
        /\ main[j].flow = "OVERLAY" /\ slips' = slips
    BY <1>1, <1>7 DEF WritePath, Goto, Control, OverlayLabels
  <2>2. "mkdir" \notin slips[j] => Place(j)' # "absent"
    <3>1. "mkdir" \notin slips[j] => Place(j) # "absent"
      BY <1>1, <2>1 DEF Untouched
    <3>2. \A d \in Dtbos : d # "absent"
      BY NamesAssumption DEF Files
    <3>3. QED
      BY <1>1, <1>2, <1>7, <3>1, <3>2, <2>1 DEF WritePath, Place, Types
  <2>3. QED
    BY <1>1, <2>1, <2>2 DEF Untouched, AfterVerdict
<1>8. CASE WriteFirmware(j)
  <2>1. /\ pc[j] = "firmware" /\ pc'[j] = "rm bin" /\ stateTxt' = stateTxt
        /\ main[j].flow = "FPGA_SYSFS"
    BY <1>1, <1>8 DEF WriteFirmware, Goto, Control
  <2>2. QED
    BY <1>1, <2>1 DEF Untouched
<1>9. CASE CatPath(j)
  <2>1. /\ pc[j] = "cat path" /\ pc'[j] = "check path" /\ overlays' = overlays
        /\ main[j].flow = "OVERLAY"
    BY <1>1, <1>9 DEF CatPath, Goto, Control, OverlayLabels, kernelVars
  <2>2. /\ stateTxt[cwd[j]] = "none"
        /\ "mkdir" \notin slips[j] => Place(j) # "absent"
    BY <1>1, <2>1 DEF Untouched, Control, PastRmPath
  <2>3. "cat path" \notin slips'[j] => stateTxt'[cwd[j]] = PathLine(Place(j))
    <3>1. CASE slips' = slips /\ Append1(cwd[j], PathLine(overlays[Folder(main[j])]))
      BY <1>1, <2>2, <3>1 DEF Append1, Place, Types
    <3>2. CASE Slip(j)
      BY <1>1, <2>1, <3>2 DEF Slip, Types
    <3>3. QED
      BY <1>9, <3>1, <3>2 DEF CatPath, Cat
  <2>4. QED
    BY <1>1, <2>1, <2>2, <2>3 DEF Untouched, AfterVerdict, Place
<1>10. CASE fpga_overlay_check(j)
  <2>1. /\ pc[j] = "check path" /\ stateTxt' = stateTxt /\ overlays' = overlays
        /\ main[j].flow = "OVERLAY" /\ slips' = slips
        /\ pc'[j] = IF stateTxt[cwd[j]] = "none" THEN "rm overlay" ELSE "rm path"
    BY <1>1, <1>10 DEF fpga_overlay_check, Control, OverlayLabels, kernelVars, Goto,
         AfterCheck
  <2>2. ASSUME "mkdir" \notin slips[j], "cat path" \notin slips[j]
        PROVE  ret'[j] = 0 <=> Place(j) \in Dtbos
                                 /\ Basename[Place(j)] = Basename[main[j].overlay]
    <3>1. /\ Place(j) # "absent" /\ stateTxt[cwd[j]] = PathLine(Place(j))
          /\ Place(j) \in Dtbos \cup {"empty"}
      BY <1>1, <1>2, <2>1, <2>2 DEF Untouched, Place, Types
    <3>2. /\ Basename[main[j].overlay] \in Names
          /\ Place(j) \in Dtbos => Basename[Place(j)] \in Names /\ Place(j) # "empty"
      BY <1>1, <2>1, RunningLocals, NamesAssumption DEF Names, Files
    <3>3. ret'[j] = IF stateTxt[cwd[j]] = Basename[main[j].overlay] THEN 0 ELSE 1
      <4>1. stateTxt[cwd[j]] # ""
        BY <3>1, <3>2, NamesAssumption DEF PathLine
      <4>2. QED
        BY <1>1, <1>10, <4>1 DEF fpga_overlay_check, OverlayVerdicts, Types
    <3>4. CASE Place(j) = "empty"
      <4>1. Place(j) \notin Dtbos
        BY <3>4, NamesAssumption DEF Files
      <4>2. stateTxt[cwd[j]] = "\n"
        BY <3>1, <3>4 DEF PathLine
      <4>3. Basename[main[j].overlay] # "\n"
        BY <3>2, NamesAssumption
      <4>4. QED
        BY <3>3, <4>1, <4>2, <4>3
    <3>5. CASE Place(j) # "empty"
      <4>1. Place(j) \in Dtbos /\ PathLine(Place(j)) = Basename[Place(j)]
        BY <3>1, <3>5 DEF PathLine
      <4>2. QED
        BY <3>1, <3>3, <4>1
    <3>6. QED
      BY <3>4, <3>5
  <2>3. "mkdir" \notin slips[j] => Place(j) # "absent"
    BY <1>1, <2>1 DEF Untouched
  <2>4. QED
    BY <1>1, <2>1, <2>2, <2>3 DEF Untouched, AfterVerdict, Place
<1>11. CASE \/ RmPathState(j) \/ RmOverlay(j) \/ RmImage(j) \/ CatState(j)
            \/ fpga_state(j) \/ RmState(j)
  <2>1. /\ overlays' = overlays /\ ret' = ret
        /\ pc[j] \in {"rm path", "rm overlay", "rm bin", "cat state", "check state", "rm state"}
    BY <1>11 DEF RmPathState, RmOverlay, RmImage, CatState, fpga_state, RmState, kernelVars
  <2>2. pc'[j] \in {"rm overlay", "rm bin", "cat state", "check state", "rm state"}
    BY <1>1, <1>11 DEF RmPathState, RmOverlay, RmImage, CatState, fpga_state, RmState,
         Goto, Exit, Running
  <2>3. ASSUME pc'[j] \in {"rm overlay", "rm bin", "cat state"}, "rm path" \notin slips'[j]
        PROVE  stateTxt'[cwd[j]] = "none"
    <3>1. CASE RmPathState(j)
      <4>1. pc[j] = "rm path" /\ RmStateTxt(j)
        BY <3>1 DEF RmPathState
      <4>2. /\ stateTxt = [d \in Cwds |-> stateTxt[d]]
            /\ cwd[j] \in Cwds /\ slips \in [Jobs -> SUBSET Labels]
        BY <1>1 DEF Types
      <4>3. CASE stateTxt' = [stateTxt EXCEPT ![cwd[j]] = "none"]
        BY <4>2, <4>3
      <4>4. CASE Slip(j)
        <5>1. slips'[j] = slips[j] \cup {"rm path"}
          BY <1>1, <4>1, <4>2, <4>4 DEF Slip
        <5>2. QED
          BY <2>3, <5>1
      <4>5. QED
        BY <4>1, <4>3, <4>4 DEF RmStateTxt
    <3>2. CASE RmOverlay(j) \/ RmImage(j)
      <4>1. pc[j] \in {"rm overlay", "rm bin"} /\ stateTxt' = stateTxt
        BY <3>2 DEF RmOverlay, RmImage
      <4>2. QED
        BY <1>1, <2>3, <4>1 DEF Untouched
    <3>3. CASE CatState(j) \/ fpga_state(j) \/ RmState(j)
      <4>1. pc'[j] \in {"check state", "rm state", "exited"}
        BY <1>1, <3>3 DEF CatState, fpga_state, RmState, Goto, Exit
      <4>2. QED
        BY <2>3, <4>1
    <3>4. QED
      BY <1>11, <3>1, <3>2, <3>3
  <2>4. QED
    BY <1>1, <2>1, <2>2, <2>3 DEF Untouched, AfterVerdict, Place
<1>12. QED
  BY <1>3, <1>4, <1>5, <1>6, <1>7, <1>8, <1>9, <1>10, <1>11 DEF Step

LEMMA ApartStep ==
  ASSUME SharedInv, ApartInv, NEW j \in Jobs, Step(j) \/ Kill(j)
  PROVE  ApartInv'
<1> SUFFICES ASSUME NEW k \in Jobs, Running(k)', Apart(k)' PROVE Untouched(k)'
  BY DEF ApartInv
<1>1. Types
  BY DEF SharedInv
<1>2. CASE k # j
  <2>1. /\ pc'[k] = pc[k] /\ main'[k] = main[k] /\ ret'[k] = ret[k]
        /\ cwd' = cwd /\ slips'[k] = slips[k]
    BY <1>1, <1>2, StepFrame, StepSlips
  <2>2. Running(k)
    BY <2>1 DEF Running
  <2>3. /\ Apart(k) /\ stateTxt'[cwd[k]] = stateTxt[cwd[k]]
        /\ main[k].flow = "OVERLAY" => Place(k)' = Place(k)
    BY <1>2, <2>2, RivalFrame
  <2>4. Untouched(k)
    BY <2>2, <2>3 DEF ApartInv
  <2>5. QED
    BY <2>1, <2>3, <2>4 DEF Untouched
<1>3. CASE k = j
  <2>1. Running(j) => Apart(j)
    BY <1>1, <1>3, StepFrame DEF Running, Apart
  <2>2. Control'
    BY <1>1, ControlStep DEF SharedInv
  <2>3. QED
    BY <1>3, <2>1, <2>2, OwnUntouched DEF ApartInv
<1>4. QED
  BY <1>2, <1>3

\* What fpga_overlay_check tells of an overlay is so, whatever others do in
\* other directories and on other regions, for any number of them.
THEOREM VerdictRight == Spec => []OverlayVerdict
<1>1. Init => ApartInv
  BY DEF Init, ApartInv, Running
<1>2. SharedInv /\ ApartInv /\ [Next]_vars => ApartInv'
  <2> SUFFICES ASSUME SharedInv, ApartInv, [Next]_vars PROVE ApartInv'
    OBVIOUS
  <2>1. CASE UNCHANGED vars
    BY <2>1 DEF vars, ApartInv, Running, Apart, Untouched, Place
  <2>2. ASSUME NEW j \in Jobs, Step(j) \/ Kill(j) PROVE ApartInv'
    BY <2>2, ApartStep
  <2>3. QED
    BY <2>1, <2>2 DEF Next
<1>3. ApartInv => OverlayVerdict
  BY DEF ApartInv, Untouched, AfterVerdict, Running, OverlayVerdict, Place, Failed
<1>4. QED
  BY <1>1, <1>2, <1>3, SharedInvariant, PTL DEF Spec

------------------------------------------------------------------------------
(* An invocation on its own.                                                *)

\* While j is on its own, nobody else takes a step.
LEMMA NobodyElse ==
  ASSUME SharedInv, NEW j \in Jobs, Step(j) \/ Kill(j),
         NEW k \in Jobs \ {j}, Running(k), Alone(k)'
  PROVE  FALSE
<1>1. Types /\ Met /\ (pc[j] = "start" => Start(j))
  BY StepFrame DEF SharedInv
<1>2. CASE pc[j] = "start"
  <2>1. rivals'[k] = rivals[k] \cup {j}
    BY <1>1, <1>2 DEF Start
  <2>2. QED
    BY <2>1 DEF Alone
<1>3. CASE pc[j] # "start"
  <2>1. Running(j) /\ rivals' = rivals
    BY <1>1, <1>3, StepFrame DEF Running
  <2>2. j \in rivals[k]
    BY <1>1, <2>1 DEF Met
  <2>3. QED
    BY <2>1, <2>2 DEF Alone
<1>4. QED
  BY <1>2, <1>3

\* What j's load gives it: an image with its registers, or an error.
LEMMA LoadGives ==
  ASSUME Types, NEW j \in Jobs, NEW n \in Names, Load(j, n), got[j] = Nothing
  PROVE  \/ /\ manager' = "operating" /\ firmware[n] # "none"
            /\ got'[j].bin = firmware[n] /\ got'[j].flags = sysfs.flags
            /\ got'[j].key = sysfs.key
         \/ manager' = "error" /\ got'[j] = Nothing
BY DEF Load, Types

\* j's own step, when it is on its own.
LEMMA OwnServed ==
  ASSUME SharedInv, Control', NEW j \in Jobs, Step(j) \/ Kill(j),
         Running(j)', main'[j].bin # "", OwnImage(j)',
         pc[j] = "start" => got[j] = Nothing,
         Running(j) => Served(j) /\ Untouched(j)
  PROVE  Served(j)'
<1>1. /\ Types /\ Control
      /\ pc[j] # "start" => /\ Running(j) /\ Served(j) /\ Untouched(j)
                            /\ main' = main /\ cwd' = cwd
                            /\ main[j].bin # "" /\ OwnImage(j)
      /\ cwd[j] \in Cwds /\ j \in DOMAIN pc
      /\ slips[j] \subseteq slips'[j] /\ slips'[j] \subseteq slips[j] \cup {pc[j]}
  BY StepFrame, StepSlips DEF SharedInv, Types, Running, OwnImage
<1>2. Running(j) /\ main[j].flow = "OVERLAY" => Folder(main[j]) \in Regions
  BY <1>1, RunningLocals
<1>3. CASE Start(j)
  <2>1. pc'[j] = "folder" /\ got' = got /\ pc[j] = "start"
    BY <1>1, <1>3 DEF Start, Goto, Exit, Types, Running, kernelVars
  <2>2. QED
    BY <2>1 DEF Served, Loaded, AfterVerdict
<1>4. CASE RemoveOverlay(j) \/ Kill(j)
  BY <1>1, <1>4 DEF RemoveOverlay, Kill, Exit, Types, Running
<1>5. CASE CheckFolder(j)
  <2>1. /\ pc[j] = "folder" /\ pc'[j] = "cp bin"
        /\ got' = got /\ overlays' = overlays
    BY <1>1, <1>5 DEF CheckFolder, Goto, Exit, Running, kernelVars
  <2>2. main[j].flow = "OVERLAY" => Place(j) = "absent"
    BY <1>1, <1>2, <1>5, <2>1 DEF CheckFolder, Exit, Exists, Place
  <2>3. got[j] = Nothing
    BY <1>1, <2>1 DEF Served, Loaded, AfterVerdict
  <2>4. QED
    BY <1>1, <2>1, <2>2, <2>3 DEF Served, Loaded, AfterVerdict, Place
<1>6. CASE CopyImage(j)
  <2>1. /\ pc[j] = "cp bin" /\ pc'[j] \in {"cp overlay", "flags"}
        /\ got' = got /\ overlays' = overlays
    BY <1>1, <1>6 DEF CopyImage, Goto, kernelVars
  <2>2. pc'[j] = "flags" => main[j].flow # "OVERLAY"
    BY <1>1, <1>6 DEF CopyImage, Goto
  <2>3. "cp bin" \notin slips'[j] => firmware'[Basename[main[j].bin]] = main[j].bin
    <3>1. Basename[main[j].bin] \in Names
      BY <1>1, RunningLocals, <2>1 DEF Names
    <3>2. QED
      <4>1. CASE Slip(j)
        BY <1>1, <2>1, <4>1 DEF Slip, Types
      <4>2. CASE ~Slip(j)
        <5>1. firmware' = [firmware EXCEPT ![Basename[main[j].bin]] = main[j].bin]
          BY <1>6, <4>2 DEF CopyImage, PutFile
        <5>2. firmware \in [Names -> Files \cup {"none", "cut"}]
          BY <1>1 DEF Types
        <5>3. QED
          BY <3>1, <5>1, <5>2
      <4>3. QED
        BY <4>1, <4>2
  <2>4. QED
    BY <1>1, <2>1, <2>2, <2>3 DEF Served, Loaded, AfterVerdict, Place
<1>7. CASE CopyOverlay(j)
  <2>1. /\ pc[j] = "cp overlay" /\ pc'[j] = "flags" /\ main[j].flow = "OVERLAY"
        /\ got' = got /\ overlays' = overlays
    BY <1>1, <1>7 DEF CopyOverlay, Goto, kernelVars, Control, OverlayLabels
  <2>2. /\ Basename[main[j].bin] \in DOMAIN firmware
        /\ Basename[main[j].overlay] \in DOMAIN firmware
    <3>1. main[j].bin \in Files /\ main[j].overlay \in Files
      BY <1>1, <2>1, RunningLocals
    <3>2. DOMAIN firmware = Names
      BY <1>1 DEF Types
    <3>3. QED
      BY <3>1, <3>2 DEF Names
  <2>3. "cp overlay" \notin slips'[j] =>
           firmware'[Basename[main[j].overlay]] = main[j].overlay
    <3>1. CASE Slip(j)
      BY <1>1, <2>1, <3>1 DEF Slip, Types
    <3>2. CASE ~Slip(j)
      BY <1>7, <2>2, <3>2 DEF CopyOverlay, PutFile
    <3>3. QED
      BY <3>1, <3>2
  <2>4. main[j].overlay \in Dtbos =>
           firmware'[Basename[main[j].bin]] = firmware[Basename[main[j].bin]]
    <3>1. main[j].overlay \in Dtbos => Basename[main[j].overlay] # Basename[main[j].bin]
      BY <1>1, <2>1, FirmwareAssumption DEF OwnImage
    <3>2. QED
      BY <1>7, <2>2, <3>1 DEF CopyOverlay, PutFile
  <2>5. QED
    BY <1>1, <2>1, <2>3, <2>4 DEF Served, Loaded, AfterVerdict, Place
<1>8. CASE SetFlags(j)
  <2>1. /\ pc[j] = "flags" /\ firmware' = firmware /\ got' = got /\ overlays' = overlays
        /\ pc'[j] = IF UserKey(main[j]) THEN "key" ELSE Write(main[j])
    BY <1>1, <1>8 DEF SetFlags, Goto
  <2>2. sysfs'.flags = main[j].flags \/ "flags" \in slips'[j]
    <3>1. CASE Slip(j)
      BY <1>1, <2>1, <3>1 DEF Slip, Types
    <3>2. CASE ~Slip(j)
      <4>1. sysfs' = [sysfs EXCEPT !.flags = main[j].flags]
        BY <1>8, <3>2 DEF SetFlags, FlagsWritten
      <4>2. sysfs = [flags |-> sysfs.flags, key |-> sysfs.key]
        BY <1>1 DEF Types
      <4>3. QED
        BY <4>1, <4>2
    <3>3. QED
      BY <3>1, <3>2
  <2>3. /\ pc'[j] \in {"key", "mkdir", "firmware"} /\ (UserKey(main[j]) => pc'[j] = "key")
        /\ pc'[j] = "firmware" => main[j].flow # "OVERLAY"
    BY <2>1 DEF Write
  <2>4. QED
    BY <1>1, <2>1, <2>2, <2>3 DEF Served, Loaded, AfterVerdict, Place
<1>9. CASE SetKey(j)
  <2>1. /\ pc[j] = "key" /\ firmware' = firmware /\ got' = got /\ overlays' = overlays
        /\ pc'[j] = Write(main[j]) /\ sysfs'.flags = sysfs.flags
    BY <1>1, <1>9 DEF SetKey, Goto, Types
  <2>2. sysfs'.key = main[j].key \/ "key" \in slips'[j]
    <3>1. CASE Slip(j)
      BY <1>1, <2>1, <3>1 DEF Slip, Types
    <3>2. CASE ~Slip(j)
      <4>1. sysfs' = [sysfs EXCEPT !.key = main[j].key]
        BY <1>9, <3>2 DEF SetKey
      <4>2. sysfs = [flags |-> sysfs.flags, key |-> sysfs.key]
        BY <1>1 DEF Types
      <4>3. QED
        BY <4>1, <4>2
    <3>3. QED
      BY <3>1, <3>2
  <2>3. /\ pc'[j] \in {"mkdir", "firmware"}
        /\ pc'[j] = "firmware" => main[j].flow # "OVERLAY"
    BY <2>1 DEF Write
  <2>4. QED
    BY <1>1, <2>1, <2>2, <2>3 DEF Served, Loaded, AfterVerdict, Place
<1>10. CASE Mkdir(j)
  <2>1. /\ pc[j] = "mkdir" /\ pc'[j] = "path" /\ main[j].flow = "OVERLAY"
        /\ firmware' = firmware /\ sysfs' = sysfs /\ got' = got
    BY <1>1, <1>10 DEF Mkdir, Goto, Control, OverlayLabels
  <2>2. Place(j) = "absent"
    BY <1>1, <2>1 DEF Served
  <2>3. Place(j)' = "empty" \/ "mkdir" \in slips'[j]
    <3>1. CASE Slip(j)
      BY <1>1, <2>1, <3>1 DEF Slip, Types
    <3>2. CASE ~Slip(j)
      <4>1. overlays' = [overlays EXCEPT ![Folder(main[j])] = "empty"]
        BY <1>10, <2>2, <3>2 DEF Mkdir, Exists, Place
      <4>2. QED
        BY <1>1, <1>2, <2>1, <4>1 DEF Place, Types
    <3>3. QED
      BY <3>1, <3>2
  <2>4. QED
    BY <1>1, <2>1, <2>2, <2>3 DEF Served, Loaded, AfterVerdict
<1>11. CASE WritePath(j)
  <2> DEFINE r == Folder(main[j])
             o == main[j].overlay
             b == main[j].bin
             d == firmware[Basename[o]]
  <2>1. /\ pc[j] = "path" /\ pc'[j] = "cat path" /\ main[j].flow = "OVERLAY"
        /\ slips' = slips /\ r \in Regions /\ sysfs' = sysfs
    BY <1>1, <1>2, <1>11 DEF WritePath, Goto, Control, OverlayLabels
  <2>2. /\ got[j] = Nothing
        /\ "cp overlay" \notin slips[j] => d = o
        /\ "mkdir" \notin slips[j] => overlays[r] = "empty"
        /\ o \in Dtbos => firmware[Basename[b]] = b \/ "cp bin" \in slips[j]
        /\ sysfs.flags = main[j].flags \/ "flags" \in slips[j]
        /\ UserKey(main[j]) => sysfs.key = main[j].key \/ "key" \in slips[j]
    BY <1>1, <2>1 DEF Served, Loaded, AfterVerdict, Place
  <2>3. b \in Files /\ o \in Files
    BY <1>1, <2>1, RunningLocals
  <2>4. o # "empty" /\ Basename[b] \in Names /\ Basename[b] # ""
    BY <2>3, NamesAssumption DEF Names
  <2>5. FirmwareName[o] = Basename[b]
    BY <1>1, <2>1 DEF OwnImage
  <2>6. manager' = "error" => got'[j] = Nothing
    BY <1>1, <1>11, <2>2 DEF WritePath, Load
  <2>7. ASSUME "cp overlay" \notin slips[j], "mkdir" \notin slips[j]
        PROVE  Place(j)' \in {"empty", o} /\ (Place(j)' = o => Asked(j)')
    <3>1. CASE overlays' = overlays
      BY <1>1, <2>1, <2>2, <2>4, <2>7, <3>1 DEF Place
    <3>2. CASE overlays' # overlays
      <4>1. /\ o \in Dtbos /\ Load(j, Basename[b]) /\ manager' = "operating"
            /\ overlays' = [overlays EXCEPT ![r] = o]
        BY <1>11, <2>2, <2>4, <2>5, <2>7, <3>2 DEF WritePath
      <4>2. Asked(j)'
        <5>1. /\ firmware[Basename[b]] # "none" /\ got'[j].bin = firmware[Basename[b]]
              /\ got'[j].flags = sysfs.flags /\ got'[j].key = sysfs.key
          BY <1>1, <2>2, <2>4, <4>1, LoadGives
        <5>2. QED
          BY <1>1, <2>1, <2>2, <4>1, <5>1 DEF Asked, Failed
      <4>3. Place(j)' = o
        BY <1>1, <2>1, <4>1 DEF Place, Types
      <4>4. QED
        BY <4>2, <4>3
    <3>3. QED
      BY <3>1, <3>2
  <2>8. QED
    BY <1>1, <2>1, <2>2, <2>6, <2>7 DEF Served, Loaded, AfterVerdict
<1>12. CASE WriteFirmware(j)
  <2> DEFINE b == main[j].bin
  <2>1. /\ pc[j] = "firmware" /\ pc'[j] = "rm bin" /\ main[j].flow = "FPGA_SYSFS"
    BY <1>1, <1>12 DEF WriteFirmware, Goto, Control
  <2>2. /\ got[j] = Nothing
        /\ firmware[Basename[b]] = b \/ "cp bin" \in slips[j]
        /\ sysfs.flags = main[j].flags \/ "flags" \in slips[j]
        /\ UserKey(main[j]) => sysfs.key = main[j].key \/ "key" \in slips[j]
    BY <1>1, <2>1 DEF Served, Loaded, AfterVerdict
  <2>3. Basename[b] \in Names
    BY <1>1, <2>1, RunningLocals DEF Names
  <2>4. CASE Load(j, Basename[b]) /\ slips' = slips
    <3>1. \/ /\ manager' = "operating" /\ firmware[Basename[b]] # "none"
             /\ got'[j].bin = firmware[Basename[b]] /\ got'[j].flags = sysfs.flags
             /\ got'[j].key = sysfs.key
          \/ manager' = "error" /\ got'[j] = Nothing
      BY <1>1, <2>2, <2>3, <2>4, LoadGives
    <3>2. manager' # "error" => Asked(j)'
      <4>1. slips'[j] = slips[j] /\ main' = main
        BY <1>1, <2>1, <2>4
      <4>2. QED
        BY <2>2, <3>1, <4>1 DEF Asked, Failed
    <3>3. manager' = "error" => got'[j] = Nothing
      BY <3>1
    <3>4. QED
      BY <1>1, <2>1, <3>2, <3>3 DEF Served, Loaded, AfterVerdict
  <2>5. CASE Slip(j) /\ UNCHANGED <<manager, got>>
    <3>1. "firmware" \in slips'[j]
      BY <1>1, <2>1, <2>5 DEF Slip, Types
    <3>2. QED
      BY <1>1, <2>1, <2>2, <2>5, <3>1 DEF Served, Loaded, AfterVerdict
  <2>6. QED
    BY <1>12, <2>4, <2>5 DEF WriteFirmware
<1>13. CASE \/ CatPath(j) \/ fpga_overlay_check(j) \/ RmPathState(j) \/ RmOverlay(j)
            \/ RmImage(j) \/ CatState(j) \/ fpga_state(j) \/ RmState(j)
  <2>1. /\ UNCHANGED <<manager, got, overlays>>
        /\ pc[j] \in Loaded
    BY <1>13 DEF CatPath, fpga_overlay_check, RmPathState, RmOverlay, RmImage,
         CatState, fpga_state, RmState, Loaded, AfterVerdict, kernelVars
  <2>2. pc'[j] \in Loaded
    BY <1>1, <1>13 DEF CatPath, fpga_overlay_check, RmPathState, RmOverlay, RmImage,
         CatState, fpga_state, RmState, Goto, Exit, AfterCheck, Loaded, AfterVerdict,
         Running
  <2>3. Asked(j) => Asked(j)'
    BY <1>1, <2>1 DEF Asked, Failed, Loaded, AfterVerdict
  <2>4. ASSUME "rm path" \notin slips'[j], "cat state" \notin slips'[j]
        PROVE  /\ pc'[j] = "check state" => stateTxt'[cwd[j]] = manager
               /\ pc'[j] = "rm state" => state'[j] = StateOf(manager)
    <3>1. CASE CatState(j)
      <4>1. pc[j] = "cat state" /\ pc'[j] = "check state"
        BY <1>1, <3>1 DEF CatState, Goto
      <4>a. stateTxt[cwd[j]] = "none"
        BY <1>1, <2>4, <4>1 DEF Untouched
      <4>b. ~Slip(j)
        <5>1. slips \in [Jobs -> SUBSET Labels]
          BY <1>1 DEF Types
        <5>2. Slip(j) => "cat state" \in slips'[j]
          BY <4>1, <5>1 DEF Slip
        <5>3. QED
          BY <2>4, <5>2
      <4>2. stateTxt[cwd[j]] = "none" /\ ~Slip(j)
        BY <4>a, <4>b
      <4>3. stateTxt'[cwd[j]] = manager
        <5>0. Append1(cwd[j], manager)
          BY <3>1, <4>2 DEF CatState, Cat
        <5>1. stateTxt' = [stateTxt EXCEPT ![cwd[j]] = manager]
          BY <4>2, <5>0 DEF Append1
        <5>2. stateTxt = [d \in Cwds |-> stateTxt[d]] /\ cwd[j] \in Cwds
          BY <1>1 DEF Types
        <5>3. QED
          BY <5>1, <5>2
      <4>4. QED
        BY <4>1, <4>3
    <3>2. CASE fpga_state(j)
      <4>1. pc[j] = "check state" /\ pc'[j] \in {"rm state", "exited"}
        BY <1>1, <3>2 DEF fpga_state, Goto, Exit
      <4>2. stateTxt[cwd[j]] = manager /\ manager # ""
        BY <1>1, <2>4, <4>1 DEF Served, Types
      <4>3. state'[j] = StateOf(manager)
        BY <1>1, <3>2, <4>2 DEF fpga_state, Types
      <4>4. QED
        BY <4>1, <4>3
    <3>3. CASE RmState(j)
      BY <1>1, <3>3 DEF RmState, Exit
    <3>4. CASE \/ CatPath(j) \/ fpga_overlay_check(j) \/ RmPathState(j) \/ RmOverlay(j)
               \/ RmImage(j)
      <4>1. pc'[j] \in {"check path", "rm path", "rm overlay", "rm bin", "cat state", "exited"}
        BY <1>1, <3>4 DEF CatPath, fpga_overlay_check, RmPathState, RmOverlay, RmImage,
             Goto, Exit, AfterCheck
      <4>2. QED
        BY <4>1
    <3>5. QED
      BY <1>13, <3>1, <3>2, <3>3, <3>4
  <2>5. main' = main /\ cwd' = cwd
    BY <1>1, <2>1 DEF Loaded, AfterVerdict
  <2>6. Place(j)' = Place(j)
    BY <2>1, <2>5 DEF Place
  <2>7. Served(j) /\ (got[j] = Nothing => got'[j] = Nothing) /\ manager' = manager
    BY <1>1, <2>1 DEF Loaded, AfterVerdict
  <2>8. /\ pc'[j] \notin {"cp bin", "cp overlay", "flags", "key", "mkdir", "path", "firmware"}
        /\ slips[j] \subseteq slips'[j]
    BY <1>1, <2>2 DEF Loaded, AfterVerdict
  <2>9. QED
    BY <2>1, <2>2, <2>3, <2>4, <2>5, <2>6, <2>7, <2>8 DEF Served
<1>14. QED
  BY <1>3, <1>4, <1>5, <1>6, <1>7, <1>8, <1>9, <1>10, <1>11, <1>12, <1>13 DEF Step

LEMMA AloneStep ==
  ASSUME SharedInv, ApartInv, AloneInv, NEW j \in Jobs, Step(j) \/ Kill(j)
  PROVE  AloneInv'
<1>1. Types /\ Control /\ Control' /\ cmd' = cmd /\ cwd' = cwd
  BY ControlStep, StepFrame DEF SharedInv
<1>2. SUFFICES ASSUME NEW k \in Jobs
               PROVE  /\ pc'[k] = "start" => got'[k] = Nothing
                      /\ Running(k)' /\ Alone(k)' /\ main'[k].bin # "" /\ OwnImage(k)'
                           => Served(k)'
  BY DEF AloneInv
<1>3. CASE k # j
  <2>1. pc'[k] = pc[k] /\ got'[k] = got[k]
    BY <1>1, <1>3, StepFrame
  <2>2. Running(k)' /\ Alone(k)' => FALSE
    BY <1>3, <2>1, NobodyElse DEF Running
  <2>3. QED
    BY <2>1, <2>2 DEF AloneInv
<1>4. CASE k = j
  <2>1. pc'[j] # "start"
    <3>1. Start(j) => pc'[j] # "start"
      <4>1. Start(j) => \/ pc' = [pc EXCEPT ![j] = "exited"]
                        \/ pc' = [pc EXCEPT ![j] = "folder"]
        BY DEF Start, Goto, Exit
      <4>2. QED
        BY <1>1, <4>1 DEF Types
    <3>2. ~Start(j) => pc[j] # "start" /\ Running(j)
      BY <1>1, StepFrame DEF Running
    <3>3. Step(j) /\ ~Start(j) => pc'[j] # "start"
      <4>1. CASE \/ RemoveOverlay(j) \/ CheckFolder(j) \/ CopyImage(j)
                 \/ CopyOverlay(j) \/ SetFlags(j) \/ SetKey(j) \/ Mkdir(j)
        BY <1>1, <4>1 DEF RemoveOverlay, CheckFolder, CopyImage, CopyOverlay,
             SetFlags, SetKey, Mkdir, Goto, Exit, Write, Types
      <4>2. CASE \/ WritePath(j) \/ WriteFirmware(j) \/ CatPath(j)
                 \/ fpga_overlay_check(j) \/ RmPathState(j) \/ RmOverlay(j)
                 \/ RmImage(j) \/ CatState(j) \/ fpga_state(j) \/ RmState(j)
        BY <1>1, <4>2 DEF WritePath, WriteFirmware, CatPath, fpga_overlay_check,
             AfterCheck, RmPathState, RmOverlay, RmImage, CatState, fpga_state,
             RmState, Goto, Exit, Types
      <4>3. QED
        BY <4>1, <4>2 DEF Step
    <3>4. Kill(j) => pc'[j] # "start"
      BY <1>1 DEF Kill, Types
    <3>5. QED
      BY <3>1, <3>3, <3>4
  <2>2. SUFFICES ASSUME Running(j)', Alone(j)', main'[j].bin # "", OwnImage(j)'
                 PROVE  Served(j)'
    BY <1>4, <2>1
  <2>3. ASSUME Running(j) PROVE Served(j) /\ Untouched(j)
    <3>1. main' = main /\ rivals' = rivals /\ stale' = stale
      BY <1>1, <2>3, StepFrame DEF Running
    <3>2. Alone(j) /\ Apart(j) /\ main[j].bin # "" /\ OwnImage(j)
      BY <2>2, <3>1 DEF Alone, Apart, OwnImage
    <3>3. QED
      BY <2>3, <3>2 DEF AloneInv, ApartInv
  <2>4. QED
    BY <1>1, <2>2, <2>3, OwnServed DEF AloneInv
<1>5. QED
  BY <1>3, <1>4

\* What an invocation on its own prints at its end.
LEMMA OwnReport ==
  ASSUME SharedInv, ApartInv, AloneInv, NEW j \in Jobs, Step(j) \/ Kill(j),
         report'[j] \in {"success", "failed"}
  PROVE  /\ pc'[j] = "exited"
         /\ Alone(j)' /\ OwnImage(j)' =>
              /\ report'[j] = "success" /\ ~Failed(j, SuccessRests(main[j]))' => Asked(j)'
              /\ report'[j] = "failed" /\ ~Failed(j, FailureRests)' => got'[j] = Nothing
<1>1. Types /\ Control /\ report[j] = "none" /\ j \in DOMAIN pc
  BY StepFrame DEF SharedInv, Control, Types
<1>2. fpga_state(j) \/ RmState(j)
  <2>1. ~Start(j) /\ ~RemoveOverlay(j) /\ ~CheckFolder(j) /\ ~RmOverlay(j)
    BY <1>1 DEF Start, RemoveOverlay, CheckFolder, RmOverlay, Goto, Exit, Types
  <2>2. /\ ~CopyImage(j) /\ ~CopyOverlay(j) /\ ~SetFlags(j) /\ ~SetKey(j)
        /\ ~Mkdir(j) /\ ~WritePath(j)
    BY <1>1 DEF CopyImage, CopyOverlay, SetFlags, SetKey, Mkdir, WritePath, Goto
  <2>3. /\ ~WriteFirmware(j) /\ ~CatPath(j) /\ ~fpga_overlay_check(j)
        /\ ~RmPathState(j) /\ ~RmImage(j) /\ ~CatState(j) /\ ~Kill(j)
    BY <1>1 DEF WriteFirmware, CatPath, fpga_overlay_check, RmPathState, RmImage,
         CatState, Kill, Goto
  <2>4. QED
    BY <2>1, <2>2, <2>3 DEF Step
<1>3. /\ UNCHANGED <<main, rivals, stale, got, ret>>
      /\ pc[j] \in {"check state", "rm state"}
      /\ slips[j] \subseteq slips'[j]
  BY <1>1, <1>2, StepSlips DEF fpga_state, RmState, started, historyVars, kernelVars
<1>4. pc'[j] = "exited"
  BY <1>1, <1>2 DEF fpga_state, RmState, Goto, Exit
<1> SUFFICES ASSUME Alone(j)', OwnImage(j)'
             PROVE  /\ report'[j] = "success" /\ ~Failed(j, SuccessRests(main[j]))'
                         => Asked(j)'
                    /\ report'[j] = "failed" /\ ~Failed(j, FailureRests)'
                         => got'[j] = Nothing
  BY <1>4
<1>5. Running(j) /\ Alone(j) /\ Apart(j) /\ main[j].bin # "" /\ OwnImage(j)
  BY <1>1, <1>3 DEF Running, Alone, Apart, Control, BinLabels, OwnImage
<1>6. Served(j) /\ Untouched(j)
  BY <1>5 DEF AloneInv, ApartInv
<1>7. Asked(j) => Asked(j)'
  BY <1>3 DEF Asked, Failed
<1>8. PICK s \in {0, 1} :
        /\ report'[j] = Message(j, s)
        /\ "rm path" \notin slips[j] /\ "cat state" \notin slips[j] => s = StateOf(manager)
  <2>1. CASE RmState(j)
    <3>1. report'[j] = Message(j, state[j]) /\ state[j] \in {0, 1}
      BY <1>1, <2>1 DEF RmState, Exit, Types
    <3>2. pc[j] = "rm state"
      BY <2>1 DEF RmState
    <3>3. QED
      BY <1>6, <3>1, <3>2 DEF Served
  <2>2. CASE fpga_state(j)
    <3>1. stateTxt[cwd[j]] = "none" /\ pc[j] = "check state"
      BY <1>1, <1>4, <2>2 DEF fpga_state, Goto
    <3>2. report'[j] = Message(j, 1)
      <4>1. StateOf("none") = 1
        BY DEF StateOf
      <4>2. PICK v \in {StateOf("none")} : Exit(j, Message(j, v))
        BY <2>2, <3>1 DEF fpga_state
      <4>3. j \in DOMAIN report
        BY <1>1 DEF Types
      <4>4. QED
        BY <4>1, <4>2, <4>3 DEF Exit
    <3>3. ~("rm path" \notin slips[j] /\ "cat state" \notin slips[j])
      BY <1>1, <1>6, <3>1 DEF Served, Types
    <3>4. QED
      BY <3>2, <3>3
  <2>3. QED
    BY <1>2, <2>1, <2>2
<1>9. ASSUME report'[j] = "failed", ~Failed(j, FailureRests)' PROVE got'[j] = Nothing
  <2>1. s = 1 /\ s = StateOf(manager)
    BY <1>3, <1>8, <1>9 DEF Message, Failed, FailureRests
  <2>2. manager = "error"
    BY <1>1, <2>1 DEF StateOf, Types
  <2>3. QED
    BY <1>3, <1>6, <2>2 DEF Served, Loaded, AfterVerdict
<1>10. ASSUME report'[j] = "success", ~Failed(j, SuccessRests(main[j]))' PROVE Asked(j)'
  <2>1. s = 0 /\ (main[j].flow = "OVERLAY" => ret[j] = 0)
    BY <1>1, <1>8, <1>10 DEF Message, Types
  <2>2. CASE main[j].flow = "OVERLAY"
    <3>1. /\ "cp overlay" \notin slips[j] /\ "mkdir" \notin slips[j]
          /\ "cat path" \notin slips[j]
      BY <1>3, <1>10, <2>2 DEF Failed, SuccessRests
    <3>2. Place(j) \in Dtbos
      BY <1>3, <1>6, <2>1, <2>2, <3>1 DEF Untouched, AfterVerdict
    <3>3. Place(j) = main[j].overlay
      BY <1>3, <1>6, <2>2, <3>1, <3>2, NamesAssumption
      DEF Served, Loaded, AfterVerdict, Files
    <3>4. Asked(j)
      BY <1>3, <1>6, <2>2, <3>1, <3>3 DEF Served, Loaded, AfterVerdict
    <3>5. QED
      BY <1>7, <3>4
  <2>3. CASE main[j].flow = "FPGA_SYSFS"
    <3>1. "firmware" \notin slips[j] /\ "cat state" \notin slips[j]
      BY <1>3, <1>10, <2>3 DEF Failed, SuccessRests
    <3>2. "rm path" \notin slips[j]
      BY <1>1, <2>3 DEF Control
    <3>3. manager # "error"
      <4>1. StateOf(manager) = 0
        BY <1>8, <2>1, <3>1, <3>2
      <4>2. StateOf("error") = 1
        BY DEF StateOf
      <4>3. QED
        BY <4>1, <4>2
    <3>4. Asked(j)
      BY <1>3, <1>6, <2>3, <3>1, <3>3 DEF Served, Loaded, AfterVerdict
    <3>5. QED
      BY <1>7, <3>4
  <2>4. main[j].flow \in {"OVERLAY", "FPGA_SYSFS"}
    BY <1>1, <1>3, <1>5 DEF Control
  <2>5. QED
    BY <2>2, <2>3, <2>4
<1>11. QED
  BY <1>9, <1>10

LEMMA ReportStep ==
  ASSUME SharedInv, ApartInv, AloneInv, ReportInv, NEW j \in Jobs, Step(j) \/ Kill(j)
  PROVE  ReportInv'
<1>1. Types
  BY DEF SharedInv
<1> SUFFICES ASSUME NEW k \in Jobs, report'[k] \in {"success", "failed"}
             PROVE  /\ pc'[k] = "exited"
                    /\ Alone(k)' /\ OwnImage(k)' =>
                         /\ report'[k] = "success" /\ ~Failed(k, SuccessRests(main[k]))'
                              => Asked(k)'
                         /\ report'[k] = "failed" /\ ~Failed(k, FailureRests)'
                              => got'[k] = Nothing
  BY DEF ReportInv
<1>2. CASE k = j
  BY <1>2, OwnReport
<1>3. CASE k # j
  <2>1. /\ pc'[k] = pc[k] /\ main'[k] = main[k] /\ got'[k] = got[k]
        /\ report'[k] = report[k] /\ stale'[k] = stale[k] /\ slips'[k] = slips[k]
    BY <1>1, <1>3, StepFrame, StepSlips
  <2>2. rivals[k] \subseteq rivals'[k]
    <3>1. CASE pc[j] = "start"
      <4> DEFINE others == {l \in Jobs \ {j} : Running(l)}
      <4>1. Start(j)
        BY <1>1, <3>1, StepFrame
      <4>2. rivals'[k] = IF k = j THEN others
                         ELSE IF k \in others THEN rivals[k] \cup {j} ELSE rivals[k]
        BY <4>1 DEF Start
      <4>3. QED
        BY <1>3, <4>2
    <3>2. CASE pc[j] # "start"
      BY <1>1, <3>2, StepFrame
    <3>3. QED
      BY <3>1, <3>2
  <2>3. Alone(k)' => Alone(k)
    BY <2>1, <2>2 DEF Alone
  <2>4. OwnImage(k)' => OwnImage(k)
    BY <2>1 DEF OwnImage
  <2>5. Asked(k) => Asked(k)'
    BY <2>1 DEF Asked, Failed
  <2>6. /\ Failed(k, SuccessRests(main[k]))' <=> Failed(k, SuccessRests(main[k]))
        /\ Failed(k, FailureRests)' <=> Failed(k, FailureRests)
    BY <2>1 DEF Failed, SuccessRests, FailureRests
  <2>7. QED
    BY <2>1, <2>3, <2>4, <2>5, <2>6 DEF ReportInv
<1>4. QED
  BY <1>2, <1>3

\* What an invocation on its own reports of its load is what the kernel has
\* done, for any command line, any files, and any number of others before it
\* and after it.
THEOREM ReportIsTrue == Spec => []ReportTruthful
<1>1. Init => ApartInv /\ AloneInv /\ ReportInv
  <2>1. Init => ApartInv
    BY DEF Init, ApartInv, Running
  <2>2. Init => AloneInv
    BY DEF Init, AloneInv, Running
  <2>3. Init => ReportInv
    BY DEF Init, ReportInv
  <2>4. QED
    BY <2>1, <2>2, <2>3
<1>2. SharedInv /\ ApartInv /\ AloneInv /\ ReportInv /\ [Next]_vars
        => ApartInv' /\ AloneInv' /\ ReportInv'
  <2> SUFFICES ASSUME SharedInv, ApartInv, AloneInv, ReportInv, [Next]_vars
               PROVE  ApartInv' /\ AloneInv' /\ ReportInv'
    OBVIOUS
  <2>1. CASE UNCHANGED vars
    <3>1. ApartInv'
      BY <2>1 DEF vars, ApartInv, Running, Apart, Untouched, Place
    <3>2. AloneInv'
      <4>1. ASSUME NEW j \in Jobs
            PROVE  /\ Running(j)' = Running(j) /\ Alone(j)' = Alone(j)
                   /\ OwnImage(j)' = OwnImage(j)
                   /\ Asked(j)' <=> Asked(j)
                   /\ Place(j)' = Place(j)
        BY <2>1 DEF vars, Running, Alone, OwnImage, Asked, Failed, Place
      <4>2. ASSUME NEW j \in Jobs, Served(j) PROVE Served(j)'
        <5>1. /\ pc' = pc /\ got' = got /\ main' = main /\ firmware' = firmware
              /\ sysfs' = sysfs /\ manager' = manager /\ stateTxt' = stateTxt
              /\ cwd' = cwd /\ state' = state /\ slips' = slips
          BY <2>1 DEF vars
        <5>2. Asked(j)' <=> Asked(j)
          BY <4>1
        <5>3. Place(j)' = Place(j)
          BY <4>1
        <5>4. /\ pc'[j] \notin Loaded => got'[j] = Nothing
              /\ pc'[j] \in {"key", "mkdir", "path", "firmware"} =>
                   sysfs'.flags = main'[j].flags \/ "flags" \in slips'[j]
              /\ pc'[j] \in {"mkdir", "path", "firmware"} /\ UserKey(main'[j]) =>
                   sysfs'.key = main'[j].key \/ "key" \in slips'[j]
              /\ pc'[j] \in Loaded =>
                   /\ manager' = "error" => got'[j] = Nothing
                   /\ /\ main'[j].flow = "FPGA_SYSFS" /\ "firmware" \notin slips'[j]
                      /\ manager' # "error"
                      => Asked(j)'
              /\ "rm path" \notin slips'[j] /\ "cat state" \notin slips'[j] =>
                   /\ pc'[j] = "check state" => stateTxt'[cwd'[j]] = manager'
                   /\ pc'[j] = "rm state" => state'[j] = StateOf(manager')
          BY <4>2, <5>1, <5>2 DEF Served
        <5>5. Served(j)'
          BY <4>2, <5>1, <5>2, <5>3, <5>4 DEF Served
        <5>6. QED
          BY <5>5
      <4>3. QED
        BY <2>1, <4>1, <4>2 DEF vars, AloneInv
    <3>3. ReportInv'
      <4>1. /\ pc' = pc /\ report' = report /\ got' = got /\ main' = main
            /\ rivals' = rivals /\ stale' = stale /\ slips' = slips
        BY <2>1 DEF vars
      <4>2. ASSUME NEW j \in Jobs
            PROVE  /\ Alone(j)' = Alone(j) /\ OwnImage(j)' = OwnImage(j)
                   /\ Asked(j)' <=> Asked(j)
                   /\ Failed(j, SuccessRests(main[j]))' <=> Failed(j, SuccessRests(main[j]))
                   /\ Failed(j, FailureRests)' <=> Failed(j, FailureRests)
        BY <4>1 DEF Alone, OwnImage, Asked, Failed, SuccessRests, FailureRests
      <4>3. QED
        BY <4>1, <4>2 DEF ReportInv
    <3>4. QED
      BY <3>1, <3>2, <3>3
  <2>2. ASSUME NEW j \in Jobs, Step(j) \/ Kill(j)
        PROVE  ApartInv' /\ AloneInv' /\ ReportInv'
    BY <2>2, ApartStep, AloneStep, ReportStep
  <2>3. QED
    BY <2>1, <2>2 DEF Next
<1>3. ReportInv => ReportTruthful
  BY DEF ReportInv, ReportTruthful
<1>4. QED
  BY <1>1, <1>2, <1>3, SharedInvariant, PTL DEF Spec

------------------------------------------------------------------------------
(* Invocations that overlap.                                                *)

\* j and those that ran with it.
Company(j) == {j} \cup rivals[j]

\* Rivals have started.
Known == \A i, j \in Jobs : i \in rivals[j] => pc[i] # "start" /\ pc[j] # "start"

\* What is in the registers and in /lib/firmware when j is about to load is
\* its own or of one that runs with it.
Mixed(j) ==
  /\ /\ pc[j] \in {"key", "mkdir", "path", "firmware"}
     /\ main[j].bin # "" /\ "flags" \notin slips[j]
     => \E i \in Company(j) : sysfs.flags = main[i].flags
  /\ /\ pc[j] \in {"mkdir", "path", "firmware"}
     /\ main[j].bin # "" /\ UserKey(main[j]) /\ "key" \notin slips[j]
     => \E i \in Company(j) : sysfs.key = main[i].key
  /\ /\ pc[j] \in {"flags", "key", "firmware"}
     /\ main[j].flow = "FPGA_SYSFS" /\ "cp bin" \notin slips[j]
     => \/ firmware[Basename[main[j].bin]] = "none"
        \/ \E i \in Company(j) : CopyOf(i, firmware[Basename[main[j].bin]])

\* The property for what was programmed at j's request.
Contained(j) ==
  got[j] # Nothing /\ main[j].bin # "" =>
    /\ "flags" \in slips[j] \/ \E i \in Company(j) : got[j].flags = main[i].flags
    /\ UserKey(main[j]) =>
         "key" \in slips[j] \/ \E i \in Company(j) : got[j].key = main[i].key
    /\ main[j].flow = "FPGA_SYSFS" =>
         "cp bin" \in slips[j] \/ \E i \in Company(j) : CopyOf(i, got[j].bin)

OverlapInv ==
  /\ Known
  /\ \A j \in Jobs : /\ pc[j] = "start" => got[j] = Nothing
                     /\ Mixed(j) /\ Contained(j)

\* Company only grows, and keeps its files, flags and keys.
LEMMA CompanyFrame ==
  ASSUME Types, Known, NEW j \in Jobs, Step(j) \/ Kill(j), NEW k \in Jobs,
         pc[k] # "start", NEW i \in Company(k)
  PROVE  /\ i \in Jobs /\ i \in Company(k)' /\ main'[i] = main[i] /\ main'[k] = main[k]
         /\ \A f : CopyOf(i, f) => CopyOf(i, f)'
<1>1. i \in Jobs /\ pc[i] # "start"
  BY DEF Company, Known, Types
<1>2. main'[i] = main[i] /\ main'[k] = main[k] /\ slips[i] \subseteq slips'[i]
  BY <1>1, StepFrame, StepSlips
<1>3. i \in Company(k)'
  <2>1. CASE pc[j] = "start"
    <3> DEFINE others == {l \in Jobs \ {j} : Running(l)}
    <3>1. Start(j)
      BY <2>1, StepFrame
    <3>2. rivals'[k] = IF k = j THEN others
                       ELSE IF k \in others THEN rivals[k] \cup {j} ELSE rivals[k]
      BY <3>1 DEF Start
    <3>3. QED
      BY <2>1, <3>2 DEF Company
  <2>2. CASE pc[j] # "start"
    BY <2>2, StepFrame DEF Company
  <2>3. QED
    BY <2>1, <2>2
<1>4. \A f : CopyOf(i, f) => CopyOf(i, f)'
  BY <1>2 DEF CopyOf, Failed
<1>5. QED
  BY <1>1, <1>2, <1>3, <1>4

LEMMA KnownStep ==
  ASSUME Types, Known, NEW j \in Jobs, Step(j) \/ Kill(j)
  PROVE  Known' /\ pc'[j] # "start"
<1>1. pc'[j] # "start"
  <2>1. j \in DOMAIN pc
    BY DEF Types
  <2>2. CASE \/ Start(j) \/ RemoveOverlay(j) \/ CheckFolder(j) \/ CopyImage(j)
             \/ CopyOverlay(j) \/ SetFlags(j) \/ SetKey(j) \/ Mkdir(j) \/ Kill(j)
    BY <2>1, <2>2 DEF Start, RemoveOverlay, CheckFolder, CopyImage, CopyOverlay,
         SetFlags, SetKey, Mkdir, Kill, Goto, Exit, Write
  <2>3. CASE \/ WritePath(j) \/ WriteFirmware(j) \/ CatPath(j)
             \/ fpga_overlay_check(j) \/ RmPathState(j) \/ RmOverlay(j)
             \/ RmImage(j) \/ CatState(j) \/ fpga_state(j) \/ RmState(j)
    BY <2>1, <2>3 DEF WritePath, WriteFirmware, CatPath, fpga_overlay_check,
         AfterCheck, RmPathState, RmOverlay, RmImage, CatState, fpga_state,
         RmState, Goto, Exit
  <2>4. QED
    BY <2>2, <2>3 DEF Step
<1>2. SUFFICES ASSUME NEW i \in Jobs, NEW k \in Jobs, i \in rivals'[k]
               PROVE  pc'[i] # "start" /\ pc'[k] # "start"
  BY <1>1 DEF Known
<1>3. \A l \in Jobs : pc[l] # "start" => pc'[l] # "start"
  BY <1>1, StepFrame
<1>4. CASE pc[j] = "start"
  <2> DEFINE others == {l \in Jobs \ {j} : Running(l)}
  <2>1. Start(j)
    BY <1>4, StepFrame
  <2>2. rivals'[k] = IF k = j THEN others
                     ELSE IF k \in others THEN rivals[k] \cup {j} ELSE rivals[k]
    BY <2>1 DEF Start
  <2>3. \A l \in others : pc'[l] # "start"
    BY <1>3 DEF Running
  <2>4. CASE k = j
    BY <1>1, <1>2, <2>2, <2>3, <2>4
  <2>5. CASE k # j
    BY <1>1, <1>2, <1>3, <2>2, <2>3, <2>5 DEF Known
  <2>6. QED
    BY <2>4, <2>5
<1>5. CASE pc[j] # "start"
  BY <1>2, <1>3, <1>5, StepFrame DEF Known
<1>6. QED
  BY <1>4, <1>5

\* What a step of j does to the registers and to /lib/firmware.
LEMMA StepShared ==
  ASSUME Types, Control, NEW j \in Jobs, Step(j) \/ Kill(j)
  PROVE  /\ sysfs'.flags = sysfs.flags \/ (sysfs'.flags = main[j].flags /\ Running(j))
         /\ sysfs'.key = sysfs.key \/ (sysfs'.key = main[j].key /\ Running(j))
         /\ \A n \in Names : \/ firmware'[n] \in {firmware[n], "none"}
                             \/ (CopyOf(j, firmware[n])' /\ Running(j) /\ main' = main)
<1>1. CASE SetFlags(j) \/ SetKey(j)
  BY <1>1 DEF SetFlags, SetKey, FlagsWritten, Running, Types
<1>2. CASE CopyImage(j) \/ CopyOverlay(j)
  <2>1. sysfs' = sysfs /\ Running(j) /\ main' = main /\ pc[j] \in {"cp bin", "cp overlay"}
    BY <1>2, StepFrame DEF CopyImage, CopyOverlay, kernelVars, Running
  <2>2. ASSUME NEW n \in Names
        PROVE  firmware'[n] \in {firmware[n], "none"} \/ CopyOf(j, firmware[n])'
    <3>1. CASE ~Slip(j)
      <4>1. firmware'[n] \in {firmware[n], main[j].bin, main[j].overlay}
        BY <1>2, <2>2, <3>1 DEF CopyImage, CopyOverlay, PutFile, Types
      <4>2. QED
        BY <2>1, <4>1 DEF CopyOf
    <3>2. CASE Slip(j)
      <4>1. firmware'[n] \in {firmware[n], main[j].bin, main[j].overlay, "cut"}
        BY <1>2, <2>2 DEF CopyImage, CopyOverlay, PutFile, Types
      <4>2. pc[j] \in slips'[j]
        BY <3>2 DEF Slip, Types
      <4>3. QED
        BY <2>1, <4>1, <4>2 DEF CopyOf, Failed
    <3>3. QED
      BY <3>1, <3>2
  <2>3. QED
    BY <2>1, <2>2
<1>3. CASE RmOverlay(j) \/ RmImage(j)
  BY <1>3 DEF RmOverlay, RmImage, TakeFile, kernelVars, Types
<1>4. CASE \/ Start(j) \/ RemoveOverlay(j) \/ CheckFolder(j) \/ Mkdir(j)
           \/ WritePath(j) \/ WriteFirmware(j) \/ CatPath(j) \/ fpga_overlay_check(j)
           \/ RmPathState(j) \/ CatState(j) \/ fpga_state(j) \/ RmState(j) \/ Kill(j)
  <2>1. sysfs' = sysfs
    BY <1>4 DEF Start, RemoveOverlay, CheckFolder, Mkdir, WritePath, WriteFirmware,
         CatPath, fpga_overlay_check, RmPathState, CatState, fpga_state, RmState,
         Kill, kernelVars
  <2>2. firmware' = firmware
    BY <1>4 DEF Start, RemoveOverlay, CheckFolder, Mkdir, WritePath, WriteFirmware,
         CatPath, fpga_overlay_check, RmPathState, CatState, fpga_state, RmState,
         Kill, kernelVars
  <2>3. QED
    BY <2>1, <2>2
<1>5. QED
  BY <1>1, <1>2, <1>3, <1>4 DEF Step

\* The step of a rival.
LEMMA RivalMixed ==
  ASSUME SharedInv, OverlapInv, NEW j \in Jobs, Step(j) \/ Kill(j), NEW k \in Jobs \ {j}
  PROVE  Mixed(k)' /\ Contained(k)'
<1>1. /\ Types /\ Control /\ Met /\ Known /\ Mixed(k) /\ Contained(k)
      /\ pc[k] = "start" => got[k] = Nothing
  BY DEF SharedInv, OverlapInv
<1>2. /\ pc'[k] = pc[k] /\ main'[k] = main[k] /\ got'[k] = got[k]
      /\ slips'[k] = slips[k]
  BY <1>1, StepFrame, StepSlips
<1>3. ASSUME pc[k] # "start"
      PROVE  \A i \in Company(k) : /\ i \in Company(k)' /\ main'[i] = main[i]
                                  /\ \A f : CopyOf(i, f) => CopyOf(i, f)'
  BY <1>1, <1>3, CompanyFrame
<1>4. Running(k) /\ Running(j) => j \in Company(k)'
  <2>1. Running(k) /\ Running(j) => j \in Company(k)
    BY <1>1 DEF Met, Company
  <2>2. QED
    BY <1>3, <2>1 DEF Running
<1>5. /\ sysfs'.flags = sysfs.flags \/ (sysfs'.flags = main[j].flags /\ Running(j))
      /\ sysfs'.key = sysfs.key \/ (sysfs'.key = main[j].key /\ Running(j))
      /\ \A n \in Names : \/ firmware'[n] \in {firmware[n], "none"}
                          \/ (CopyOf(j, firmware[n])' /\ Running(j) /\ main' = main)
      /\ Running(j) => main' = main
  BY <1>1, StepShared, StepFrame DEF Running
<1>6. Contained(k)'
  <2>1. CASE pc[k] = "start"
    BY <1>1, <1>2, <2>1 DEF Contained
  <2>2. CASE pc[k] # "start"
    BY <1>1, <1>2, <1>3, <2>2 DEF Contained
  <2>3. QED
    BY <2>1, <2>2
<1>7. Mixed(k)'
  <2>1. /\ pc[k] \in {"key", "mkdir", "path", "firmware"}
        /\ main[k].bin # "" /\ "flags" \notin slips[k]
        => \E i \in Company(k)' : sysfs'.flags = main'[i].flags
    BY <1>1, <1>3, <1>4, <1>5 DEF Mixed, Running
  <2>2. /\ pc[k] \in {"mkdir", "path", "firmware"}
        /\ main[k].bin # "" /\ UserKey(main[k]) /\ "key" \notin slips[k]
        => \E i \in Company(k)' : sysfs'.key = main'[i].key
    BY <1>1, <1>3, <1>4, <1>5 DEF Mixed, Running
  <2>3. ASSUME pc[k] \in {"flags", "key", "firmware"}, main[k].flow = "FPGA_SYSFS",
               "cp bin" \notin slips[k], NEW n, n = Basename[main[k].bin]
        PROVE  firmware'[n] = "none" \/ \E i \in Company(k)' : CopyOf(i, firmware[n])'
    <3>1. Running(k) /\ n \in Names
      BY <1>1, <2>3, RunningLocals DEF Running, Names
    <3>2. firmware[n] = "none" \/ \E i \in Company(k) : CopyOf(i, firmware[n])
      BY <1>1, <2>3 DEF Mixed
    <3>3. CASE firmware'[n] = firmware[n]
      BY <1>3, <3>1, <3>2, <3>3 DEF Running
    <3>4. CASE firmware'[n] = "none"
      BY <3>4
    <3>5. CASE CopyOf(j, firmware[n])' /\ Running(j)
      BY <1>4, <3>1, <3>5
    <3>6. QED
      BY <1>5, <3>1, <3>3, <3>4, <3>5
  <2>4. /\ pc'[k] \in {"flags", "key", "firmware"}
        /\ main'[k].flow = "FPGA_SYSFS" /\ "cp bin" \notin slips'[k]
        => \/ firmware'[Basename[main'[k].bin]] = "none"
           \/ \E i \in Company(k)' : CopyOf(i, firmware[Basename[main[k].bin]])'
    BY <1>2, <2>3
  <2>5. QED
    BY <1>2, <2>1, <2>2, <2>4 DEF Mixed
<1>8. QED
  BY <1>6, <1>7

\* What the kernel takes of a load: the file and the registers as they are.
LEMMA LoadTakes ==
  ASSUME Types, Control, NEW j \in Jobs, Step(j) \/ Kill(j), got'[j] # got[j]
  PROVE  /\ pc[j] \in {"path", "firmware"}
         /\ got'[j].flags = sysfs.flags /\ got'[j].key = sysfs.key
         /\ pc[j] = "firmware" =>
              /\ got'[j].bin = firmware[Basename[main[j].bin]]
              /\ firmware[Basename[main[j].bin]] # "none"
<1>1. WritePath(j) \/ WriteFirmware(j)
  BY DEF Step, Start, RemoveOverlay, CheckFolder, CopyImage, CopyOverlay, SetFlags,
     SetKey, Mkdir, CatPath, fpga_overlay_check, RmPathState, RmOverlay, RmImage,
     CatState, fpga_state, RmState, Kill, kernelVars
<1>2. CASE WritePath(j)
  <2>1. pc[j] = "path"
    BY <1>2 DEF WritePath
  <2>2. PICK n : Load(j, n)
    BY <1>2 DEF WritePath
  <2>3. QED
    BY <2>1, <2>2 DEF Load, Types
<1>3. CASE WriteFirmware(j)
  <2>1. pc[j] = "firmware" /\ Load(j, Basename[main[j].bin])
    BY <1>3 DEF WriteFirmware
  <2>2. Basename[main[j].bin] \in Names
    BY <2>1, RunningLocals DEF Names, Control, Running
  <2>3. QED
    BY <2>1, <2>2 DEF Load, Types
<1>4. QED
  BY <1>1, <1>2, <1>3

\* j's own step.
LEMMA OwnMixed ==
  ASSUME SharedInv, OverlapInv, Control', NEW j \in Jobs, Step(j) \/ Kill(j)
  PROVE  Mixed(j)' /\ Contained(j)'
<1>1. /\ Types /\ Control /\ Known /\ Mixed(j) /\ Contained(j)
      /\ pc[j] = "start" => got[j] = Nothing
      /\ pc[j] # "start" => main' = main
      /\ slips[j] \subseteq slips'[j] /\ j \in DOMAIN pc
  BY StepFrame, StepSlips DEF SharedInv, OverlapInv, Types
<1>2. ASSUME pc[j] # "start"
      PROVE  \A i \in Company(j) : /\ i \in Company(j)' /\ main'[i] = main[i]
                                  /\ \A f : CopyOf(i, f) => CopyOf(i, f)'
  BY <1>1, <1>2, CompanyFrame
<1>3. j \in Company(j)'
  BY DEF Company
<1>4. CASE Start(j)
  <2>1. got' = got /\ pc[j] = "start" /\ pc'[j] \in {"folder", "exited"}
    BY <1>1, <1>4 DEF Start, kernelVars, Goto, Exit
  <2>2. QED
    BY <1>1, <2>1 DEF Mixed, Contained
<1>5. ASSUME pc[j] # "start" PROVE Contained(j)'
  <2>1. CASE got'[j] = got[j]
    BY <1>1, <1>2, <1>5, <2>1 DEF Contained
  <2>2. CASE got'[j] # got[j]
    <3>1. /\ pc[j] \in {"path", "firmware"}
          /\ got'[j].flags = sysfs.flags /\ got'[j].key = sysfs.key
          /\ pc[j] = "firmware" =>
               /\ got'[j].bin = firmware[Basename[main[j].bin]]
               /\ firmware[Basename[main[j].bin]] # "none"
      BY <1>1, <2>2, LoadTakes
    <3>2. pc[j] = "path" => main[j].flow = "OVERLAY"
      BY <1>1 DEF Control, OverlayLabels
    <3>3. QED
      BY <1>1, <1>2, <1>5, <3>1, <3>2 DEF Mixed, Contained
  <2>3. QED
    BY <2>1, <2>2
<1>6. CASE SetFlags(j)
  <2>1. /\ pc[j] = "flags" /\ firmware' = firmware
        /\ pc'[j] = "key" \/ ~UserKey(main[j])
    BY <1>1, <1>6 DEF SetFlags, Goto
  <2>2. sysfs'.flags = main[j].flags \/ "flags" \in slips'[j]
    BY <1>1, <1>6 DEF SetFlags, FlagsWritten, Slip, Types
  <2>3. QED
    BY <1>1, <1>2, <1>3, <1>5, <2>1, <2>2 DEF Mixed
<1>7. CASE SetKey(j)
  <2>1. pc[j] = "key" /\ firmware' = firmware /\ sysfs'.flags = sysfs.flags
    BY <1>1, <1>7 DEF SetKey, Types
  <2>2. sysfs'.key = main[j].key \/ "key" \in slips'[j]
    BY <1>1, <1>7 DEF SetKey, Slip, Types
  <2>3. QED
    BY <1>1, <1>2, <1>3, <1>5, <2>1, <2>2 DEF Mixed
<1>8. CASE CopyImage(j)
  <2>1. /\ pc[j] = "cp bin" /\ pc'[j] \in {"cp overlay", "flags"}
        /\ main[j].bin \in Files
    <3>1. pc[j] = "cp bin" /\ pc'[j] \in {"cp overlay", "flags"}
      BY <1>1, <1>8 DEF CopyImage, Goto
    <3>2. QED
      BY <1>1, <3>1, RunningLocals DEF Running, Control, BinLabels
  <2>2. CASE Slip(j)
    <3>1. "cp bin" \in slips'[j]
      BY <1>1, <2>1, <2>2 DEF Slip, Types
    <3>2. QED
      BY <1>5, <2>1, <3>1 DEF Mixed
  <2>3. CASE ~Slip(j)
    <3>1. firmware' = [firmware EXCEPT ![Basename[main[j].bin]] = main[j].bin]
      BY <1>8, <2>3 DEF CopyImage, PutFile
    <3>2. firmware'[Basename[main[j].bin]] = main[j].bin /\ main' = main
      BY <1>1, <2>1, <3>1 DEF Types, Names
    <3>3. CopyOf(j, firmware[Basename[main[j].bin]])'
      BY <3>2 DEF CopyOf
    <3>4. QED
      BY <1>3, <1>5, <2>1, <3>3 DEF Mixed
  <2>4. QED
    BY <2>2, <2>3
<1>9. CASE Mkdir(j)
  <2>1. /\ pc[j] = "mkdir" /\ pc'[j] = "path" /\ firmware' = firmware /\ sysfs' = sysfs
    BY <1>1, <1>9 DEF Mkdir, Goto
  <2>2. QED
    BY <1>1, <1>2, <1>5, <2>1 DEF Mixed
<1>10. CASE CopyOverlay(j)
  <2>1. pc[j] = "cp overlay" /\ pc'[j] \in {"flags", "mkdir"} /\ main[j].flow = "OVERLAY"
    BY <1>1, <1>10 DEF CopyOverlay, Goto, Control, OverlayLabels
  <2>2. pc'[j] = "mkdir" => main[j].bin = ""
    BY <1>1, <1>10 DEF CopyOverlay, Goto
  <2>3. QED
    BY <1>1, <1>5, <2>1, <2>2 DEF Mixed
<1>11. CASE \/ RemoveOverlay(j) \/ CheckFolder(j) \/ WritePath(j) \/ WriteFirmware(j)
            \/ CatPath(j) \/ fpga_overlay_check(j) \/ RmPathState(j) \/ RmOverlay(j)
            \/ RmImage(j) \/ CatState(j) \/ fpga_state(j) \/ RmState(j) \/ Kill(j)
  <2>1. pc[j] # "start" /\ pc'[j] \notin {"flags", "key", "mkdir", "path", "firmware"}
    BY <1>1, <1>11 DEF RemoveOverlay, CheckFolder, WritePath, WriteFirmware, CatPath,
       fpga_overlay_check, RmPathState, RmOverlay, RmImage, CatState, fpga_state,
       RmState, Kill, Goto, Exit, AfterCheck, Running
  <2>2. QED
    BY <1>5, <2>1 DEF Mixed
<1>12. QED
  BY <1>4, <1>6, <1>7, <1>8, <1>9, <1>10, <1>11 DEF Step

LEMMA OverlapStep ==
  ASSUME SharedInv, OverlapInv, NEW j \in Jobs, Step(j) \/ Kill(j)
  PROVE  OverlapInv'
<1>1. Types /\ Control /\ Control' /\ Known
  BY ControlStep DEF SharedInv, OverlapInv
<1>2. Known' /\ pc'[j] # "start"
  BY <1>1, KnownStep
<1>3. ASSUME NEW k \in Jobs
      PROVE  /\ pc'[k] = "start" => got'[k] = Nothing
             /\ Mixed(k)' /\ Contained(k)'
  <2>1. CASE k = j
    BY <1>1, <1>2, <2>1, OwnMixed
  <2>2. CASE k # j
    <3>1. pc'[k] = pc[k] /\ got'[k] = got[k]
      BY <1>1, <2>2, StepFrame
    <3>2. QED
      BY <2>2, <3>1, RivalMixed DEF OverlapInv
  <2>3. QED
    BY <2>1, <2>2
<1>4. QED
  BY <1>2, <1>3 DEF OverlapInv

\* However many invocations overlap, and whichever are killed, what is
\* programmed for one has the flags, the key and (by sysfs) the image of itself
\* or of one that ran with it, but where the command that sets it failed.
THEOREM OverlapBounded == Spec => []OverlapContained
<1>1. Init => OverlapInv
  BY DEF Init, OverlapInv, Known, Mixed, Contained
<1>2. SharedInv /\ OverlapInv /\ [Next]_vars => OverlapInv'
  <2> SUFFICES ASSUME SharedInv, OverlapInv, [Next]_vars PROVE OverlapInv'
    OBVIOUS
  <2>1. CASE UNCHANGED vars
    <3>1. /\ pc' = pc /\ got' = got /\ main' = main /\ firmware' = firmware
          /\ sysfs' = sysfs /\ rivals' = rivals /\ slips' = slips
      BY <2>1 DEF vars
    <3>2. Known'
      BY <3>1 DEF OverlapInv, Known
    <3>3. ASSUME NEW j \in Jobs
          PROVE  /\ pc'[j] = "start" => got'[j] = Nothing
                 /\ Mixed(j)' /\ Contained(j)'
      <4>1. Company(j)' = Company(j)
        BY <3>1 DEF Company
      <4>2. \A i, f : CopyOf(i, f) => CopyOf(i, f)'
        BY <3>1 DEF CopyOf, Failed
      <4>3. \A i : CopyOf(i, firmware[Basename[main[j].bin]]) =>
                     CopyOf(i, firmware[Basename[main[j].bin]])'
        BY <3>1 DEF CopyOf, Failed
      <4>4. \A i : CopyOf(i, got[j].bin) => CopyOf(i, got[j].bin)'
        BY <3>1 DEF CopyOf, Failed
      <4>5. QED
        BY <3>1, <4>1, <4>3, <4>4 DEF OverlapInv, Mixed, Contained
    <3>4. QED
      BY <3>2, <3>3 DEF OverlapInv
  <2>2. ASSUME NEW j \in Jobs, Step(j) \/ Kill(j) PROVE OverlapInv'
    BY <2>2, OverlapStep
  <2>3. QED
    BY <2>1, <2>2 DEF Next
<1>3. OverlapInv => OverlapContained
  BY DEF OverlapInv, Contained, Company, OverlapContained, Failed
<1>4. QED
  BY <1>1, <1>2, <1>3, SharedInvariant, PTL DEF Spec
==============================================================================
