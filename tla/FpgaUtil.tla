------------------------------- MODULE FpgaUtil -------------------------------
(***************************************************************************)
(* fpgautil (fpga-manager-script): several invocations that load, apply or *)
(* remove PL images through what they share: /lib/firmware, the registers  *)
(* of the FPGA manager in sysfs, the overlay folders of configfs, and the  *)
(* file state.txt of the directory they are started in.  The kernel's side *)
(* is external and modelled from how fpgautil.c uses it.                   *)
(***************************************************************************)
EXTENDS Naturals, Sequences, FiniteSets, SequencesExt

CONSTANTS Jobs,          \* the invocations
          Commands,      \* the option lists they are started with
          Cwds,          \* the directories they are started in
          Bins, Dtbos,   \* the image and overlay files that exist
          Basename,      \* a file's name in /lib/firmware
          FirmwareName,  \* the image a dtbo tells the kernel to load, or ""
          Killable,      \* the invocations somebody may kill
          Fallible,      \* the invocations whose commands may fail
          MaxSlips       \* bound: how many commands of such an invocation fail

Files == Bins \cup Dtbos
Names == {Basename[f] : f \in Files}

ASSUME FilesAssumption ==
  /\ Bins \cap Dtbos = {}
  /\ DOMAIN Basename = Files
  /\ DOMAIN FirmwareName = Dtbos
  /\ Killable \subseteq Jobs
  /\ Fallible \subseteq Jobs

\* What stands for no file, half a file, no overlay and an empty line is no
\* file's name.
ASSUME NamesAssumption ==
  /\ Files \cap {"", "none", "cut", "absent", "empty"} = {}
  /\ Names \cap {"", "\n", "none"} = {}

\* No overlay is the image that it tells the kernel to load.
ASSUME FirmwareAssumption == \A d \in Dtbos : FirmwareName[d] # Basename[d]

\* The options of a command line, in order; a region has a name.
ASSUME CommandsAssumption ==
  /\ Commands \subseteq Seq([o : STRING, arg : STRING])
  /\ \A c \in Commands : \A i \in DOMAIN c : c[i].o = "-n" => c[i].arg # ""

VARIABLES cmd,        \* cmd[j]: the options j was started with
          cwd,        \* cwd[j]: the directory j was started in
          pc,         \* pc[j]: where j is in main
          main,       \* main[j]: main's locals once the options are read
          ret,        \* ret[j]: the overlay check's verdict, 0 when it holds
          state,      \* state[j]: what fpga_state is going to return
          report,     \* report[j]: the message j ended with
          firmware,   \* /lib/firmware: a name's file, "cut" or "none"
          sysfs,      \* the manager's flags and key registers
          manager,    \* the manager's state file
          overlays,   \* configfs: each region's overlay
          stateTxt,   \* stateTxt[d]: the first line of d/state.txt
          got,        \* history: what the kernel programmed at j's request
          rivals,     \* history: the jobs that ran while j did
          stale,      \* history: j found a state.txt when it started
          slips       \* history: the commands of j that failed, by their label

vars == <<cmd, cwd, pc, main, ret, state, report, firmware, sysfs, manager,
          overlays, stateTxt, got, rivals, stale, slips>>

kernelVars  == <<sysfs, manager, overlays, got>>
historyVars == <<rivals, stale>>
started     == <<cmd, cwd, main>>

------------------------------------------------------------------------------
(* The options.  An option list is a sequence of [o, arg] with arg "" for   *)
(* an option that takes none.                                               *)

flagdump == [n \in {"Full", "Partial", "AuthDDR", "AuthOCM", "EnUsrKey",
                    "EnDevKey", "AuthEnUsrKeyDDR", "AuthEnUsrKeyOCM",
                    "AuthEnDevKeyDDR", "AuthEnDevKeyOCM"} |->
  CASE n = "Full" -> 0              [] n = "Partial" -> 1
    [] n = "AuthDDR" -> 64          [] n = "AuthOCM" -> 128
    [] n = "EnUsrKey" -> 32         [] n = "EnDevKey" -> 4
    [] n = "AuthEnUsrKeyDDR" -> 96  [] n = "AuthEnUsrKeyOCM" -> 160
    [] n = "AuthEnDevKeyDDR" -> 68  [] n = "AuthEnDevKeyOCM" -> 132]

cmd_flags(name) == IF name \in DOMAIN flagdump THEN flagdump[name] ELSE 0

isvalid_flags(name, is_secure) ==
  IF is_secure THEN name \in DOMAIN flagdump \ {"Full", "Partial"}
               ELSE name \in {"Full", "Partial"}

Words(o) == IF o.arg = "" THEN <<o.o>> ELSE <<o.o, o.arg>>

\* argv[i], "" past its end (NULL, or the environment's strings).
Argv(c, i) == LET argv == FlattenSeq([k \in DOMAIN c |-> Words(c[k])])
              IN  IF i \in DOMAIN argv THEN argv[i] ELSE ""

\* -f and -s look for their word at a fixed place, not at optarg; "name" is
\* left alone when neither flow is set yet.
FlagWord(c, a, at) == CASE a.flow = "OVERLAY" -> Argv(c, at + 2)
                        [] a.flow = "FPGA_SYSFS" -> Argv(c, at)
                        [] OTHER -> a.name

\* The locals behind one more option; a refused one ends the loop.
Option(c, a, o) ==
  IF a.bad THEN a ELSE
  CASE o.o = "-o" -> [a EXCEPT !.overlay = o.arg, !.bad = o.arg \notin Files,
                               !.flow = "OVERLAY"]
    [] o.o = "-b" -> [a EXCEPT !.bin = o.arg, !.bad = o.arg \notin Files,
                               !.flow = IF @ = "OVERLAY" THEN @
                                        ELSE "FPGA_SYSFS"]
    [] o.o = "-n" -> [a EXCEPT !.region = o.arg]
    [] o.o = "-k" -> [a EXCEPT !.key = o.arg]
    [] o.o = "-f" ->
         LET name == FlagWord(c, a, 4)
             set  == a.flow \in {"OVERLAY", "FPGA_SYSFS"}
         IN  [a EXCEPT !.name = name, !.bad = ~isvalid_flags(name, FALSE),
                !.flags = (IF set THEN cmd_flags(name) ELSE @) + a.sflags]
    [] o.o = "-s" ->
         LET name == FlagWord(c, a, 6)
             s    == IF a.flow \in {"OVERLAY", "FPGA_SYSFS"}
                     THEN cmd_flags(name) ELSE a.sflags
         IN  [a EXCEPT !.name = name, !.bad = ~isvalid_flags(name, TRUE),
                       !.sflags = s, !.flags = @ + s]
    [] o.o = "-r" -> [a EXCEPT !.flow = "READBACK"]
    [] o.o = "-R" -> [a EXCEPT !.rm = TRUE]
    [] o.o \in {"-p", "-t"} -> a
    [] OTHER -> [a EXCEPT !.bad = TRUE]

NoArgs == [flow |-> "none", bin |-> "", overlay |-> "", region |-> "",
           key |-> "(null)", name |-> "", flags |-> 0, sflags |-> 0,
           rm |-> FALSE, bad |-> FALSE]

\* The getopt loop: what main's locals are after i options.
Parsed(c) ==
  LET locals[i \in 0..Len(c)] ==
        IF i = 0 THEN NoArgs ELSE Option(c, locals[i - 1], c[i])
  IN  locals

\* An empty command line prints the usage.
Parse(c) == IF c = <<>> THEN [NoArgs EXCEPT !.bad = TRUE] ELSE Parsed(c)[Len(c)]

\* Mutant: -n is honoured only for a partial image.
Folder_FlagsFirst(a) == IF a.flags % 2 = 0 THEN "full" ELSE a.region

\* The overlay folder; "" when main leaves the buffer unset.
Folder(a) == IF a.region # "" THEN a.region
             ELSE IF a.flags % 2 = 0 THEN "full" ELSE ""

UserKey(a) == (a.flags \div 32) % 2 = 1

\* The regions a command line names, and all of them.
RegionArgs(c) == {c[i].arg : i \in {k \in DOMAIN c : c[k].o = "-n"}}

Regions == {"full"} \cup UNION {RegionArgs(c) : c \in Commands}

Nothing == [bin |-> "none", flags |-> 0, key |-> ""]

Init ==
  /\ cmd \in [Jobs -> Commands]
  /\ cwd \in [Jobs -> Cwds]
  /\ pc = [j \in Jobs |-> "start"]
  /\ main = [j \in Jobs |-> NoArgs]
  /\ ret = [j \in Jobs |-> 0]
  /\ state = [j \in Jobs |-> 0]
  /\ report = [j \in Jobs |-> "none"]
  /\ firmware = [n \in Names |-> "none"]
  /\ sysfs = [flags |-> 0, key |-> "none"]
  /\ manager = "unknown"
  /\ overlays = [r \in Regions |-> "absent"]
  /\ stateTxt = [d \in Cwds |-> "none"]
  /\ got = [j \in Jobs |-> Nothing]
  /\ rivals = [j \in Jobs |-> {}]
  /\ stale = [j \in Jobs |-> FALSE]
  /\ slips = [j \in Jobs |-> {}]

------------------------------------------------------------------------------
Running(j) == pc[j] \notin {"start", "exited", "killed"}

Goto(j, label) == pc' = [pc EXCEPT ![j] = label] /\ UNCHANGED report

Exit(j, how) == /\ pc' = [pc EXCEPT ![j] = "exited"]
                /\ report' = [report EXCEPT ![j] = how]

\* A command fails, and main goes on: it never looks at system()'s result.
Slip(j) == /\ j \in Fallible
           /\ Cardinality(slips[j]) < MaxSlips
           /\ slips' = [slips EXCEPT ![j] = @ \cup {pc[j]}]

\* j reads its options: every job now running and j are each other's rivals.
Start(j) ==
  LET a  == Parse(cmd[j])
      others == {i \in Jobs \ {j} : Running(i)}
  IN
  /\ pc[j] = "start"
  /\ main' = [main EXCEPT ![j] = a]
  /\ IF a.bad \/ (Folder(a) = "" /\ a.overlay # "") THEN Exit(j, "usage")
     ELSE Goto(j, "folder")
  /\ rivals' = [i \in Jobs |-> CASE i = j -> others
                                 [] i \in others -> rivals[i] \cup {j}
                                 [] OTHER -> rivals[i]]
  /\ stale' = [stale EXCEPT ![j] = stateTxt[cwd[j]] # "none"]
  /\ UNCHANGED <<cmd, cwd, ret, state, firmware, kernelVars, stateTxt, slips>>

Exists(r) == r \in Regions /\ overlays[r] # "absent"

\* -R: the overlay is taken out of the live tree, if there is one and rmdir
\* works.
RemoveOverlay(j) ==
  LET r == Folder(main[j]) IN
  /\ pc[j] = "folder"
  /\ main[j].rm
  /\ \/ Exists(r) /\ overlays' = [overlays EXCEPT ![r] = "absent"]
     \/ UNCHANGED overlays
  /\ Exit(j, "done")
  /\ UNCHANGED <<started, ret, state, firmware, sysfs, manager, stateTxt, got,
                 historyVars, slips>>

\* What main does next by its flow: an overlay that exists is an error, a
\* readback (and no flow at all) leaves the loader's state alone.
CheckFolder(j) ==
  /\ pc[j] = "folder"
  /\ ~main[j].rm
  /\ CASE main[j].flow = "OVERLAY" ->
            IF Exists(Folder(main[j])) THEN Exit(j, "exists")
            ELSE Goto(j, IF main[j].bin # "" THEN "cp bin" ELSE "cp overlay")
       [] main[j].flow = "FPGA_SYSFS" -> Goto(j, "cp bin")
       [] OTHER -> Exit(j, "done")
  /\ UNCHANGED <<started, ret, state, firmware, kernelVars, stateTxt,
                 historyVars, slips>>

\* cp f /lib/firmware; when it fails, what was there stays, or half of f is.
PutFile(j, f) ==
  \/ firmware' = [firmware EXCEPT ![Basename[f]] = f] /\ UNCHANGED slips
  \/ /\ Slip(j)
     /\ firmware' \in {firmware, [firmware EXCEPT ![Basename[f]] = "cut"]}

CopyImage(j) ==
  /\ pc[j] = "cp bin"
  /\ PutFile(j, main[j].bin)
  /\ Goto(j, IF main[j].flow = "OVERLAY" THEN "cp overlay" ELSE "flags")
  /\ UNCHANGED <<started, ret, state, kernelVars, stateTxt, historyVars>>

CopyOverlay(j) ==
  /\ pc[j] = "cp overlay"
  /\ PutFile(j, main[j].overlay)
  /\ Goto(j, IF main[j].bin # "" THEN "flags" ELSE "mkdir")
  /\ UNCHANGED <<started, ret, state, kernelVars, stateTxt, historyVars>>

Write(a) == IF a.flow = "OVERLAY" THEN "mkdir" ELSE "firmware"

\* Mutant: no flags are written when there are none.
FlagsWritten_NotZero(a) == IF a.flags = 0 THEN sysfs.flags ELSE a.flags

\* echo flags > flags.
FlagsWritten(a) == a.flags

SetFlags(j) ==
  /\ pc[j] = "flags"
  /\ \/ sysfs' = [sysfs EXCEPT !.flags = FlagsWritten(main[j])] /\ UNCHANGED slips
     \/ Slip(j) /\ UNCHANGED sysfs
  /\ Goto(j, IF UserKey(main[j]) THEN "key" ELSE Write(main[j]))
  /\ UNCHANGED <<started, ret, state, firmware, manager, overlays, stateTxt,
                 got, historyVars>>

SetKey(j) ==
  /\ pc[j] = "key"
  /\ \/ sysfs' = [sysfs EXCEPT !.key = main[j].key] /\ UNCHANGED slips
     \/ Slip(j) /\ UNCHANGED sysfs
  /\ Goto(j, Write(main[j]))
  /\ UNCHANGED <<started, ret, state, firmware, manager, overlays, stateTxt,
                 got, historyVars>>

Mkdir(j) ==
  LET r == Folder(main[j]) IN
  /\ pc[j] = "mkdir"
  /\ IF Exists(r) THEN UNCHANGED <<overlays, slips>>
     ELSE \/ overlays' = [overlays EXCEPT ![r] = "empty"] /\ UNCHANGED slips
          \/ Slip(j) /\ UNCHANGED overlays
  /\ Goto(j, "path")
  /\ UNCHANGED <<started, ret, state, firmware, sysfs, manager, stateTxt, got,
                 historyVars>>

(* The kernel.  A load takes the file of that name from /lib/firmware with  *)
(* the registers as they are; it may fail in the hardware.                  *)

Load(j, name) ==
  LET file == IF name \in Names THEN firmware[name] ELSE "none" IN
  \/ /\ file # "none"
     /\ manager' = "operating"
     /\ got' = [got EXCEPT ![j] = [bin |-> file, flags |-> sysfs.flags,
                                   key |-> sysfs.key]]
  \/ manager' = "error" /\ UNCHANGED got

\* echo -n name > folder/path, which may fail.  The kernel takes a path once,
\* rejects a bad overlay before or after the load it asks for, and drops the
\* path then.
WritePath(j) ==
  LET r == Folder(main[j])
      d == firmware[Basename[main[j].overlay]]
  IN
  /\ pc[j] = "path"
  /\ \/ UNCHANGED <<manager, got, overlays>>
     \/ /\ overlays[r] = "empty"
        /\ d \in Dtbos
        /\ \/ /\ FirmwareName[d] = ""
              /\ overlays' = [overlays EXCEPT ![r] = d]
              /\ UNCHANGED <<manager, got>>
           \/ /\ FirmwareName[d] # ""
              /\ Load(j, FirmwareName[d])
              /\ \/ UNCHANGED overlays
                 \/ /\ manager' = "operating"
                    /\ overlays' = [overlays EXCEPT ![r] = d]
  /\ Goto(j, "cat path")
  /\ UNCHANGED <<started, ret, state, firmware, sysfs, stateTxt, historyVars, slips>>

\* echo name > firmware.
WriteFirmware(j) ==
  /\ pc[j] = "firmware"
  /\ \/ Load(j, Basename[main[j].bin]) /\ UNCHANGED slips
     \/ Slip(j) /\ UNCHANGED <<manager, got>>
  /\ Goto(j, "rm bin")
  /\ UNCHANGED <<started, ret, state, firmware, sysfs, overlays, stateTxt,
                 historyVars>>

------------------------------------------------------------------------------
(* state.txt: cat >> state.txt, fgets of its first line, rm.                *)

\* Appending changes the first line only of a file that has none.
Append1(d, line) ==
  stateTxt' = IF stateTxt[d] \in {"none", ""}
              THEN [stateTxt EXCEPT ![d] = line] ELSE stateTxt

\* A cat that fails may still have created the file.
Cat(j, line) ==
  \/ Append1(cwd[j], line) /\ UNCHANGED slips
  \/ Slip(j) /\ (Append1(cwd[j], "") \/ UNCHANGED stateTxt)

\* What cat finds in a path: nothing in a folder that is not there, a newline
\* in an empty one.
PathLine(o) == CASE o = "absent" -> ""
                 [] o = "empty" -> "\n"
                 [] OTHER -> Basename[o]

CatPath(j) ==
  /\ pc[j] = "cat path"
  /\ Cat(j, PathLine(overlays[Folder(main[j])]))
  /\ Goto(j, "check path")
  /\ UNCHANGED <<started, ret, state, firmware, kernelVars, historyVars>>

\* Mutant: only as much is compared as the file has to offer.
OverlayVerdicts_FileLength(a, line) ==
  IF line \in {"", "\n", Basename[a.overlay]} THEN {0} ELSE {1}

\* The verdicts of fpga_overlay_check on a file with this first line; the
\* buffer it compares is uninitialised when the file is empty.
OverlayVerdicts(a, line) ==
  IF line = "" THEN {0, 1}
  ELSE IF line = Basename[a.overlay] THEN {0} ELSE {1}

AfterCheck(j, verdict) ==
  IF stateTxt[cwd[j]] = "none" THEN "rm overlay" ELSE "rm path"

fpga_overlay_check(j) ==
  /\ pc[j] = "check path"
  /\ \E v \in OverlayVerdicts(main[j], stateTxt[cwd[j]]) :
       /\ ret' = [ret EXCEPT ![j] = v]
       /\ Goto(j, AfterCheck(j, v))
  /\ UNCHANGED <<started, state, firmware, kernelVars, stateTxt, historyVars, slips>>

\* rm state.txt.
RmStateTxt(j) ==
  \/ stateTxt' = [stateTxt EXCEPT ![cwd[j]] = "none"] /\ UNCHANGED slips
  \/ Slip(j) /\ UNCHANGED stateTxt

RmPathState(j) ==
  /\ pc[j] = "rm path"
  /\ RmStateTxt(j)
  /\ Goto(j, "rm overlay")
  /\ UNCHANGED <<started, ret, state, firmware, kernelVars, historyVars>>

\* rm /lib/firmware/name.
TakeFile(j, name) ==
  \/ firmware' = [firmware EXCEPT ![name] = "none"] /\ UNCHANGED slips
  \/ Slip(j) /\ UNCHANGED firmware

\* Mutant: tmp1 still holds the overlay's name when the image is removed.
Removed_Tmp1(a) == IF a.flow = "OVERLAY" THEN Basename[a.overlay]
                   ELSE Basename[a.bin]

\* The image's name that main deletes.
Removed(a) == Basename[a.bin]

RmOverlay(j) ==
  /\ pc[j] = "rm overlay"
  /\ TakeFile(j, Basename[main[j].overlay])
  /\ IF main[j].bin # "" THEN Goto(j, "rm bin") ELSE Exit(j, "done")
  /\ UNCHANGED <<started, ret, state, kernelVars, stateTxt, historyVars>>

RmImage(j) ==
  /\ pc[j] = "rm bin"
  /\ TakeFile(j, Removed(main[j]))
  /\ Goto(j, "cat state")
  /\ UNCHANGED <<started, ret, state, kernelVars, stateTxt, historyVars>>

CatState(j) ==
  /\ pc[j] = "cat state"
  /\ Cat(j, manager)
  /\ Goto(j, "check state")
  /\ UNCHANGED <<started, ret, state, firmware, kernelVars, historyVars>>

\* What main prints: fpga_state's answer s, then the overlay's verdict.
Message(j, s) == IF s = 1 THEN "failed"
                 ELSE IF main[j].flow = "OVERLAY" /\ ret[j] = 1 THEN "no overlay"
                 ELSE "success"

\* Mutant: fpga_state forgets to look for an error.
StateOf_AnyLine(line) == IF line = "none" THEN 1 ELSE 0

StateOf(line) == IF line \in {"operating", "unknown"} THEN 0 ELSE 1

\* This buffer, too, is uninitialised when the file is empty.
fpga_state(j) ==
  /\ pc[j] = "check state"
  /\ \E s \in IF stateTxt[cwd[j]] = "" THEN {0, 1} ELSE {StateOf(stateTxt[cwd[j]])} :
       /\ state' = [state EXCEPT ![j] = s]
       /\ IF stateTxt[cwd[j]] = "none" THEN Exit(j, Message(j, s))
          ELSE Goto(j, "rm state")
  /\ UNCHANGED <<started, ret, firmware, kernelVars, stateTxt, historyVars, slips>>

RmState(j) ==
  /\ pc[j] = "rm state"
  /\ RmStateTxt(j)
  /\ Exit(j, Message(j, state[j]))
  /\ UNCHANGED <<started, ret, state, firmware, kernelVars, historyVars>>

Kill(j) ==
  /\ j \in Killable
  /\ Running(j)
  /\ pc' = [pc EXCEPT ![j] = "killed"]
  /\ UNCHANGED <<started, ret, state, report, firmware, kernelVars, stateTxt,
                 historyVars, slips>>

Step(j) ==
  \/ Start(j) \/ RemoveOverlay(j) \/ CheckFolder(j) \/ CopyImage(j) \/ CopyOverlay(j)
  \/ SetFlags(j) \/ SetKey(j) \/ Mkdir(j) \/ WritePath(j) \/ WriteFirmware(j)
  \/ CatPath(j) \/ fpga_overlay_check(j) \/ RmPathState(j) \/ RmOverlay(j)
  \/ RmImage(j) \/ CatState(j) \/ fpga_state(j) \/ RmState(j)

Next == \E j \in Jobs : Step(j) \/ Kill(j)

Spec == Init /\ [][Next]_vars

------------------------------------------------------------------------------
(* Properties.                                                              *)

\* No other invocation ran while j did, and j found no state.txt.
Alone(j) == rivals[j] = {} /\ ~stale[j]

\* The same with company in other directories, on other regions.
Apart(j) == /\ ~stale[j]
            /\ \A i \in rivals[j] : /\ cwd[i] # cwd[j]
                                    /\ Folder(Parse(cmd[i])) # Folder(main[j])

\* One of these commands of j failed.
Failed(j, labels) == \E l \in labels : l \in slips[j]

\* Something is programmed for j, and differs from what j asked for only in
\* what a command of j's that failed was to set.
Asked(j) ==
  /\ got[j].bin # "none"
  /\ got[j].bin = main[j].bin \/ Failed(j, {"cp bin"})
  /\ got[j].flags = main[j].flags \/ Failed(j, {"flags"})
  /\ UserKey(main[j]) => got[j].key = main[j].key \/ Failed(j, {"key"})

\* The image of an overlay command is the one its dtbo loads.
OwnImage(j) == main[j].flow = "OVERLAY" /\ main[j].bin # ""
                 => FirmwareName[main[j].overlay] = Basename[main[j].bin]

\* The commands that the two messages stand and fall with.
SuccessRests(a) == IF a.flow = "OVERLAY" THEN {"cp overlay", "mkdir", "cat path"}
                   ELSE {"firmware", "cat state"}
FailureRests == {"rm path", "cat state"}

\* An invocation on its own that reports success has had its image programmed
\* with its flags and key, but for those whose cp or echo failed; one that
\* reports failure has had none.  The report is read from the global state of
\* the manager (fpga_state), not from the load, and no command's failure is
\* noticed: those named above are the ones that can make it untrue.
ReportTruthful ==
  \A j \in Jobs : Alone(j) /\ OwnImage(j) =>
    /\ report[j] = "success" /\ ~Failed(j, SuccessRests(main[j])) => Asked(j)
    /\ report[j] = "failed" /\ ~Failed(j, FailureRests) => got[j] = Nothing

\* A copy that i may have made: of one of its files, or half of one.
CopyOf(i, f) == \/ f \in {main[i].bin, main[i].overlay}
                \/ f = "cut" /\ Failed(i, {"cp bin", "cp overlay"})

\* Invocations that overlap program each other's flags, keys and images (no
\* lock is taken), but nothing older than the overlap: what is programmed for
\* one comes from itself or from one that ran with it, unless the command that
\* was to set it failed.
OverlapContained ==
  \A j \in Jobs : got[j] # Nothing /\ main[j].bin # "" =>
    LET company == {j} \cup rivals[j] IN
    /\ Failed(j, {"flags"}) \/ \E i \in company : got[j].flags = main[i].flags
    /\ UserKey(main[j]) =>
         Failed(j, {"key"}) \/ \E i \in company : got[j].key = main[i].key
    /\ main[j].flow = "FPGA_SYSFS" =>
         Failed(j, {"cp bin"}) \/ \E i \in company : CopyOf(i, got[j].bin)

\* Whatever other regions' invocations do in other directories, the overlay
\* an invocation finds applied is there, under the name it wrote, and one it
\* finds missing is not: fpga_overlay_check against the live tree.
OverlayVerdict ==
  \A j \in Jobs : Apart(j) /\ pc[j] \in {"rm path", "rm overlay"}
                    /\ main[j].flow = "OVERLAY" /\ ~Failed(j, {"mkdir", "cat path"}) =>
    LET o == overlays[Folder(main[j])] IN
      ret[j] = 0 <=> (o \in Dtbos /\ Basename[o] = Basename[main[j].overlay])

\* However the invocations interleave, once all have exited no copy of an
\* image or an overlay is left in /lib/firmware but one whose rm failed.
FirmwareCleaned ==
  (\A j \in Jobs : pc[j] = "exited") =>
    \A n \in Names : firmware[n] # "none" =>
      \E j \in Jobs : \/ Failed(j, {"rm bin"}) /\ n = Basename[main[j].bin]
                      \/ Failed(j, {"rm overlay"}) /\ n = Basename[main[j].overlay]

\* A state.txt is there only while one who wrote it is about to delete it, or
\* because somebody was killed or an rm failed: no ordinary exit leaves one
\* for the next command in that directory to read.
StateFileOwned ==
  \A d \in Cwds : stateTxt[d] # "none" =>
    \E j \in Jobs : /\ cwd[j] = d
                    /\ \/ pc[j] \in {"check path", "rm path", "check state", "rm state", "killed"}
                       \/ Failed(j, {"rm path", "rm state"})

\* What an invocation leaves in shared places is taken away again.
NothingLeft == FirmwareCleaned /\ StateFileOwned

\* An applied overlay leaves the live tree only by a -R of a command that
\* names its region, or names none when it is "full".
OverlayKept ==
  [][\A r \in Regions : overlays[r] \in Dtbos /\ overlays'[r] # overlays[r] =>
       \E j \in Jobs : /\ pc'[j] # pc[j]
                       /\ main[j].rm
                       /\ IF RegionArgs(cmd[j]) = {} THEN r = "full"
                          ELSE r \in RegionArgs(cmd[j])]_vars

\* "BIN FILE loaded through FPGA manager", with or without its overlay, is
\* printed only when the kernel programmed something for this invocation.
LoadedMeansProgrammed ==
  \A j \in Jobs : Alone(j) /\ report[j] \in {"success", "no overlay"}
                    => got[j] # Nothing
=============================================================================
